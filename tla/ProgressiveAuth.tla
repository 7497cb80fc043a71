--------------------------- MODULE ProgressiveAuth ---------------------------
(***************************************************************************)
(* One MCP request from the middleware that opens its authorization        *)
(* context (adapters/progressive_auth_http.py) through the verifier that   *)
(* may ask for more scopes (adapters/progressive_token_verifier.py) to the *)
(* tool middleware (adapters/mcp_tool_authorization.py) and back, with the *)
(* client that answers a 403 challenge by asking for a larger token and    *)
(* sending the request once more.                                          *)
(*                                                                         *)
(* Requests interleave wherever their tasks suspend: in the delegate       *)
(* verifier's I/O, between verification and the parsed message, and before *)
(* the response is sent.                                                   *)
(***************************************************************************)
EXTENDS ToolAuthorization

CONSTANTS
  Clients,        \* callers, each with at most one request at a time
  Deployments,    \* the deployments looked at
  TokenClaims,    \* claims of the tokens clients come with
  Shapes          \* the requests clients send

\* A tools/call without a usable name has name None.
Body  == [method : {"tools/call", "tools/list", "other"}, name : Tools \cup {None}]
\* `mcp`: a POST to /mcp, the only protected path; other methods on it stop at
\* the admission middleware, other paths are public.
\* `header`: the tool _target_from_scope reads from the MCP 2026-07-28 headers,
\* None if they are absent, repeated, older or malformed.
Shape == [mcp : BOOLEAN, header : Tools \cup {None}, body : Body]

ASSUME InputAssumption ==
  /\ Deployments \subseteq Deployment
  /\ TokenClaims \subseteq Claims
  /\ Shapes \subseteq Shape
  /\ None \notin Tools

VARIABLES
  deployment,   \* the settings this process started with
  token,        \* per client: the token it holds
  pc,           \* per client: where its request is
  request,      \* per client: shape, token sent, whether it is the replay, and
                \* whether the verifier's delegate accepted the token
  context,      \* per request task: the ContextVar's value, or None
  pending,      \* per client: what the SDK is about to send
  answer        \* per client: what it was sent, None before

vars == <<deployment, token, pc, request, context, pending, answer>>

Token   == [claims : Claims, valid : BOOLEAN]
Request == [shape : Shapes, token : Token, replay : BOOLEAN, verified : BOOLEAN]
Context == [mcp : BOOLEAN, target : Tools \cup {None}, required : SUBSET Scopes]

\* What the MCP layer did: nothing, ran or denied a tool, listed tools, or
\* handled a message that names no tool; "public" outside it.
Results == {"nothing", "public", "ran", "denied", "listed", "passed"}
Outcome == [code : {200, 400, 401, 403}, result : Results,
            tools : SUBSET Tools, challenge : SUBSET Scopes]

Plain(code, result) ==
  [code |-> code, result |-> result, tools |-> {}, challenge |-> {}]

\* Nothing else is None.
ASSUME NoneIsNoState ==
  None \notin Request /\ None \notin Context /\ None \notin Outcome

-----------------------------------------------------------------------------
(* The client.                                                             *)

\* ProgressiveAuthorizationMiddleware.__call__: the context of a new request.
OpenContext(s) ==
  [mcp |-> s.mcp, target |-> IF s.mcp THEN s.header ELSE None, required |-> {}]

\* Mutant: one context for the process, so the last request's is everybody's.
LaunchShared(c, s, tok, replay) ==
  /\ request' = [request EXCEPT ![c] =
       [shape |-> s, token |-> tok, replay |-> replay, verified |-> FALSE]]
  /\ context' = [d \in Clients |->
       IF d = c \/ context[d] # None THEN OpenContext(s) ELSE None]
  /\ pc' = [pc EXCEPT ![c] = "verifying"]
  /\ answer' = [answer EXCEPT ![c] = None]

\* A new request task, with a context of its own.
Launch(c, s, tok, replay) ==
  /\ request' = [request EXCEPT ![c] =
       [shape |-> s, token |-> tok, replay |-> replay, verified |-> FALSE]]
  /\ context' = [context EXCEPT ![c] = OpenContext(s)]
  /\ pc' = [pc EXCEPT ![c] = "verifying"]
  /\ answer' = [answer EXCEPT ![c] = None]

Init ==
  /\ deployment \in Deployments
  /\ token \in [Clients -> [claims : TokenClaims, valid : BOOLEAN]]
  /\ pc = [c \in Clients |-> "idle"]
  /\ request = [c \in Clients |-> None]
  /\ context = [c \in Clients |-> None]
  /\ pending = [c \in Clients |-> None]
  /\ answer = [c \in Clients |-> None]

Send(c) ==
  /\ pc[c] = "idle"
  /\ \E s \in Shapes : Launch(c, s, token[c], FALSE)
  /\ UNCHANGED <<deployment, token, pending>>

\* Can the authorization server add these scopes to such a token?  Entra adds
\* delegated scopes, of the token's own resource, to a user's token only.
Extensible(claims, scopes) ==
  deployment.provider = "entra" =>
    /\ claims.scp # {} /\ ~claims.app
    /\ \A s \in scopes : s.resource \in {"", OwnResource}

\* Entra writes the short names into scp.
Extended(claims, scopes) ==
  IF deployment.provider = "entra"
    THEN [claims EXCEPT !.scp = claims.scp \cup
            {[resource |-> "", name |-> s.name] : s \in scopes}]
    ELSE [claims EXCEPT !.scope = claims.scope \cup scopes]

\* The client SDK unions the challenged scopes into its grant and sends the
\* request once more with the new token.
StepUp(c) ==
  /\ pc[c] = "answered" /\ answer[c].challenge # {} /\ ~request[c].replay
  /\ Extensible(token[c].claims, answer[c].challenge)
  /\ LET tok == [claims |-> Extended(token[c].claims, answer[c].challenge),
                 valid |-> token[c].valid]
     IN  /\ token' = [token EXCEPT ![c] = tok]
         /\ Launch(c, request[c].shape, tok, TRUE)
  /\ UNCHANGED <<deployment, pending>>

\* The client is done with its answer and comes back with any token.
Finish(c) ==
  /\ pc[c] = "answered"
  /\ pc' = [pc EXCEPT ![c] = "idle"]
  /\ request' = [request EXCEPT ![c] = None]
  /\ answer' = [answer EXCEPT ![c] = None]
  /\ \E tok \in [claims : TokenClaims, valid : BOOLEAN] :
       token' = [token EXCEPT ![c] = tok]
  /\ UNCHANGED <<deployment, context, pending>>

-----------------------------------------------------------------------------
(* The server.                                                             *)

MissingGlobal(claims) ==
  LET global == GlobalScopes(deployment)
  IN  IF global \subseteq TokenScopes(deployment, claims) THEN {} ELSE global

\* Mutant: one group of scopes is asked for at a time.
ChallengeOneGroup(ctx, claims) ==
  IF MissingGlobal(claims) # {} THEN MissingGlobal(claims)
  ELSE IF ctx.target # None
          /\ Reason(deployment, ctx.target, Principal(deployment, claims))
               = "missing_permission"
    THEN PolicyScopes(EffectivePolicy(deployment, ctx.target)) ELSE {}

\* Mutant: the tool's own scopes are never asked for.
ChallengeGlobalOnly(ctx, claims) == MissingGlobal(claims)

\* ProgressiveAuthorizationTokenVerifier.verify_token: the scopes a valid token
\* must still gain before this request may be dispatched.
Challenge(ctx, claims) ==
  MissingGlobal(claims) \cup
    (IF /\ ctx.target # None
        /\ Reason(deployment, ctx.target, Principal(deployment, claims))
             = "missing_permission"
       THEN PolicyScopes(EffectivePolicy(deployment, ctx.target)) ELSE {})

\* The SDK turns a token the verifier does not return into a 401 on the
\* protected path.  The delegate also rejects a valid token when the provider
\* cannot be reached.
VerifyFails(c) ==
  /\ pc[c] = "verifying"
  /\ pending' = [pending EXCEPT ![c] =
       IF context[c].mcp THEN Plain(401, "nothing") ELSE Plain(200, "public")]
  /\ pc' = [pc EXCEPT ![c] = "responding"]
  /\ UNCHANGED <<deployment, token, request, context, answer>>

\* The verifier records what is missing and returns None.
VerifyChallenges(c) ==
  /\ pc[c] = "verifying" /\ request[c].token.valid /\ context[c].mcp
  /\ LET scopes == Challenge(context[c], request[c].token.claims)
     IN  /\ scopes # {}
         /\ context' = [context EXCEPT ![c].required = scopes]
  /\ request' = [request EXCEPT ![c].verified = TRUE]
  /\ pending' = [pending EXCEPT ![c] = Plain(401, "nothing")]
  /\ pc' = [pc EXCEPT ![c] = "responding"]
  /\ UNCHANGED <<deployment, token, answer>>

\* The verifier returns the token.  The SDK's own gate on the global scopes,
\* which Challenge has asked for already, lets every such request pass.
VerifyAccepts(c) ==
  /\ pc[c] = "verifying" /\ request[c].token.valid
  /\ context[c].mcp => Challenge(context[c], request[c].token.claims) = {}
  /\ request' = [request EXCEPT ![c].verified = TRUE]
  /\ IF context[c].mcp
       THEN /\ pc' = [pc EXCEPT ![c] = "dispatching"]
            /\ UNCHANGED pending
       ELSE /\ pc' = [pc EXCEPT ![c] = "responding"]
            /\ pending' = [pending EXCEPT ![c] = Plain(200, "public")]
  /\ UNCHANGED <<deployment, token, context, answer>>

\* Mutant: the tool of the header is authorized, the tool of the body runs.
HandledByHeader(s, principal) ==
  CASE s.body.method = "tools/list" ->
         [Plain(200, "listed") EXCEPT !.tools = Visible(deployment, principal)]
    [] s.body.method = "tools/call" /\ s.body.name # None ->
         IF s.header # None \/ Reason(deployment, s.body.name, principal) = "allowed"
           THEN Plain(200, "ran") ELSE Plain(200, "denied")
    [] OTHER -> Plain(200, "passed")

\* ToolAuthorizationMiddleware.__call__
Handled(s, principal) ==
  CASE s.body.method = "tools/list" ->
         [Plain(200, "listed") EXCEPT !.tools = Visible(deployment, principal)]
    [] s.body.method = "tools/call" /\ s.body.name # None ->
         IF Reason(deployment, s.body.name, principal) = "allowed"
           THEN Plain(200, "ran") ELSE Plain(200, "denied")
    [] OTHER -> Plain(200, "passed")

\* The principal is the one of the request's own user, the token just verified.
Dispatch(c) ==
  LET s == request[c].shape
  IN  /\ pc[c] = "dispatching"
      /\ pending' = [pending EXCEPT ![c] =
           Handled(s, Principal(deployment, request[c].token.claims))]
      /\ pc' = [pc EXCEPT ![c] = "responding"]
      /\ UNCHANGED <<deployment, token, request, context, answer>>

\* The SDK may refuse a body that is not what the headers announced; a legacy
\* session does not compare them.
SdkRefuses(c) ==
  LET s == request[c].shape
  IN  /\ pc[c] = "dispatching"
      /\ s.header # None
      /\ s.body # [method |-> "tools/call", name |-> s.header]
      /\ pending' = [pending EXCEPT ![c] = Plain(400, "nothing")]
      /\ pc' = [pc EXCEPT ![c] = "responding"]
      /\ UNCHANGED <<deployment, token, request, context, answer>>

\* send_with_scope_challenge
AnsweredFrom(ctx, out) ==
  IF ctx.required # {}
    THEN [Plain(403, "nothing") EXCEPT !.challenge = ctx.required]
    ELSE out

\* Mutant: the context is not reset.
RespondKeepsContext(c) ==
  /\ pc[c] = "responding"
  /\ answer' = [answer EXCEPT ![c] = AnsweredFrom(context[c], pending[c])]
  /\ pending' = [pending EXCEPT ![c] = None]
  /\ pc' = [pc EXCEPT ![c] = "answered"]
  /\ UNCHANGED <<deployment, token, request, context>>

\* The response, and the reset of the context when __call__ returns.
Respond(c) ==
  /\ pc[c] = "responding"
  /\ answer' = [answer EXCEPT ![c] = AnsweredFrom(context[c], pending[c])]
  /\ context' = [context EXCEPT ![c] = None]
  /\ pending' = [pending EXCEPT ![c] = None]
  /\ pc' = [pc EXCEPT ![c] = "answered"]
  /\ UNCHANGED <<deployment, token, request>>

Next == \E c \in Clients :
  \/ Send(c) \/ StepUp(c) \/ Finish(c)
  \/ VerifyFails(c) \/ VerifyChallenges(c) \/ VerifyAccepts(c)
  \/ Dispatch(c) \/ SdkRefuses(c) \/ Respond(c)

Spec == Init /\ [][Next]_vars

-----------------------------------------------------------------------------
(* Properties.                                                             *)

\* Every variable keeps its type.
TypeOK ==
  /\ deployment \in Deployments
  /\ token \in [Clients -> Token]
  /\ pc \in [Clients -> {"idle", "verifying", "dispatching", "responding", "answered"}]
  /\ request \in [Clients -> Request \cup {None}]
  /\ context \in [Clients -> Context \cup {None}]
  /\ pending \in [Clients -> Outcome \cup {None}]
  /\ answer \in [Clients -> Outcome \cup {None}]
  /\ \A c \in Clients :
       /\ (request[c] # None) <=> (pc[c] # "idle")
       /\ (context[c] # None) <=> (pc[c] \notin {"idle", "answered"})
       /\ (pending[c] # None) <=> (pc[c] = "responding")
       /\ (answer[c] # None) <=> (pc[c] = "answered")

\* The answers clients have, with the claims they were given on.
Answered == {c \in Clients : pc[c] = "answered"}
ClaimsOf(c) == request[c].token.claims

\* A tool body runs only for a valid token that carries the global scopes and
\* what the tool's own policy asks for, whichever tool the headers announced
\* (ToolAuthorizationMiddleware is the final authority: ADR-0006).
OnlyAuthorizedToolsRun ==
  \A c \in Clients :
    pending[c] # None /\ pending[c].result = "ran" =>
      /\ request[c].token.valid
      /\ CarriesAll(deployment, ClaimsOf(c), deployment.required)
      /\ Permitted(deployment, request[c].shape.body.name, ClaimsOf(c))

\* tools/list shows a caller exactly the tools a call would run for it
\* (_filter_tool_list and the call path use one decision).
CatalogMatchesCalls ==
  \A c \in Answered :
    answer[c].result = "listed" =>
      answer[c].tools = {t \in Tools : Permitted(deployment, t, ClaimsOf(c))}

\* A challenge answers a POST to /mcp with a valid token, before anything was
\* dispatched, and names nothing the operation does not need
\* (ProgressiveAuthorizationTokenVerifier.verify_token).
ChallengesJustified ==
  \A c \in Answered :
    answer[c].challenge # {} =>
      LET s == request[c].shape
          needed == deployment.required \cup
            (IF s.header # None /\ deployment.policy[s.header] # None
               THEN PolicyScopes(deployment.policy[s.header]) ELSE {})
      IN  /\ s.mcp /\ request[c].token.valid
          /\ answer[c].code = 403 /\ answer[c].result = "nothing"
          /\ answer[c].challenge \subseteq Effective(deployment, needed)
          /\ ~CarriesAll(deployment, ClaimsOf(c), answer[c].challenge)

\* A challenge carries every scope the operation still lacks, so the client's
\* single replay is never challenged again (ADR-0017: one pre-dispatch 403).
OneStepUpSuffices ==
  \A c \in Answered : request[c].replay => answer[c].challenge = {}

\* What a client hears tells it what to do: 401 for a token that was not accepted,
\* a denial inside MCP only where asking for more scopes could not have helped
\* (ADR-0006: only MISSING_PERMISSION becomes an HTTP challenge).
DenialsAreFinal ==
  \A c \in Answered :
    LET s == request[c].shape
        larger == Extended(ClaimsOf(c), Scopes)
    IN  /\ (answer[c].code = 401) <=> (s.mcp /\ ~request[c].verified)
        /\ /\ answer[c].result = "denied"
           /\ s.header = s.body.name
           /\ Extensible(ClaimsOf(c), {})
           => ~Permitted(deployment, s.body.name, larger)

\* ADR-0017: "application principals are not offered an impossible delegated
\* step-up" when they call a tool with a delegated-scope policy.  The global
\* scopes are asked for whatever the principal is.
NoImpossibleStepUp ==
  \A c \in Answered :
    LET t == request[c].shape.header
    IN  answer[c].challenge # {} /\ t # None =>
          ~ /\ EffectivePolicy(deployment, t) # None
            /\ EffectivePolicy(deployment, t).kind = "delegated_scopes"
            /\ Principal(deployment, ClaimsOf(c)).kind = "application"
=============================================================================
