-------------------------- MODULE ToolAuthorization --------------------------
(***************************************************************************)
(* The pure part of authorization: claims to principals                    *)
(* (adapters/mcp_principal.py, domain/scope_claims.py), per-tool policies  *)
(* and the decision on them (application/tool_authorization.py), and the   *)
(* registry the entrypoint builds (entrypoints/mcp_server.py).             *)
(*                                                                         *)
(* A scope has the resource it is qualified with, "" if none, and its      *)
(* name.  A deployment is what Settings fixes when the process starts.     *)
(***************************************************************************)
CONSTANTS
  Tools,        \* registered tools, with a policy or without
  ScopeNames,   \* names of OAuth scopes, without their resource
  Roles,        \* Entra application roles
  None          \* Python's None

OwnResource == "own"     \* entra_application_id_uri
Scopes == [resource : {"", OwnResource, "other"}, name : ScopeNames]

\* ToolPolicy.__post_init__: authenticated policies list no permission, all
\* others at least one.
Policies ==
  [kind : {"authenticated"}, permissions : {{}}]
    \cup [kind : {"delegated_scopes", "oauth_scopes"}, permissions : (SUBSET Scopes) \ {{}}]
    \cup [kind : {"application_roles"}, permissions : (SUBSET Roles) \ {{}}]

Deployment == [provider : {"entra", "generic"},
               required : SUBSET Scopes,
               policy   : [Tools -> Policies \cup {None}]]

\* The claims authorization reads: `app` is idtyp = "app", and an empty set
\* an absent claim.
Claims == [scope : SUBSET Scopes, scp : SUBSET Scopes,
           app : BOOLEAN, roles : SUBSET Roles]

Principals == [kind : {"delegated", "application", "unknown"},
               scopes : SUBSET Scopes, roles : SUBSET Roles]

\* Nothing else is None.
ASSUME NoneIsNoRecord == None \notin Policies /\ None \notin Principals

-----------------------------------------------------------------------------
(* Scopes.                                                                 *)

\* qualify_scopes: short names get the resource, qualified ones are kept.
Qualified(s) ==
  IF s.resource = "" THEN [resource |-> OwnResource, name |-> s.name] ELSE s

\* Only Entra deployments qualify.
Effective(d, scopes) ==
  IF d.provider = "entra" THEN {Qualified(s) : s \in scopes} ELSE scopes

\* Settings.effective_required_scopes
GlobalScopes(d) == Effective(d, d.required)

\* scopes_from_claims, then EntraTokenVerifier's qualification.
TokenScopes(d, claims) == Effective(d, claims.scope \cup claims.scp)

\* _build_tool_authorizer
EffectivePolicy(d, t) ==
  LET p == d.policy[t]
  IN  IF p # None /\ p.kind \in {"delegated_scopes", "oauth_scopes"}
        THEN [p EXCEPT !.permissions = Effective(d, p.permissions)]
        ELSE p

-----------------------------------------------------------------------------
(* Principals.                                                             *)

\* Mutant: roles are taken as proof of an application.
PrincipalKindByRoles(d, claims) ==
  IF d.provider # "entra" THEN "unknown"
  ELSE IF claims.roles # {} THEN "application"
  ELSE IF claims.scp # {} THEN "delegated" ELSE "unknown"

\* _entra_principal_kind; a generic provider proves no kind.
PrincipalKind(d, claims) ==
  IF d.provider # "entra" THEN "unknown"
  ELSE IF claims.scp # {} THEN IF claims.app THEN "unknown" ELSE "delegated"
  ELSE IF claims.app THEN "application" ELSE "unknown"

\* principal_from_access_token
Principal(d, claims) ==
  [kind   |-> PrincipalKind(d, claims),
   scopes |-> TokenScopes(d, claims),
   roles  |-> IF d.provider = "entra" THEN claims.roles ELSE {}]

-----------------------------------------------------------------------------
(* Decisions.                                                              *)

\* _required_scopes
PolicyScopes(p) ==
  IF p.kind \in {"delegated_scopes", "oauth_scopes"} THEN p.permissions ELSE {}

\* _permission_decision
PermissionReason(p, granted) ==
  IF p.permissions \subseteq granted THEN "allowed" ELSE "missing_permission"

\* ToolAuthorizationService.authorize: the reason of its decision, which is
\* an approval exactly when it is "allowed".
Reason(d, t, principal) ==
  LET p == EffectivePolicy(d, t)
  IN  CASE p = None -> "policy_missing"
        [] p # None /\ principal = None -> "unauthenticated"
        [] p # None /\ principal # None ->
             CASE p.kind = "authenticated" -> "allowed"
               [] p.kind = "delegated_scopes" ->
                    IF principal.kind # "delegated" THEN "wrong_principal_kind"
                    ELSE PermissionReason(p, principal.scopes)
               [] p.kind = "application_roles" ->
                    IF principal.kind # "application" THEN "wrong_principal_kind"
                    ELSE PermissionReason(p, principal.roles)
               [] p.kind = "oauth_scopes" -> PermissionReason(p, principal.scopes)

\* is_visible, and _filter_tool_list over the registered tools.
Visible(d, principal) == {t \in Tools : Reason(d, t, principal) = "allowed"}

-----------------------------------------------------------------------------
(* Reference: what the policies mean, said without the code's case         *)
(* analysis, on the claims as the authorization server wrote them.         *)

\* The claims carry the permission s, however either side qualified it.
Carries(d, claims, s) ==
  \E c \in claims.scope \cup claims.scp :
    \/ c = s
    \/ /\ d.provider = "entra"
       /\ c.name = s.name
       /\ {c.resource, s.resource} \subseteq {"", OwnResource}

CarriesAll(d, claims, scopes) == \A s \in scopes : Carries(d, claims, s)

\* May a token with these claims run the tool?
Permitted(d, t, claims) ==
  LET p == d.policy[t]
  IN  /\ p # None
      /\ p.kind = "delegated_scopes" =>
           /\ d.provider = "entra" /\ claims.scp # {} /\ ~claims.app
           /\ CarriesAll(d, claims, p.permissions)
      /\ p.kind = "oauth_scopes" => CarriesAll(d, claims, p.permissions)
      /\ p.kind = "application_roles" =>
           /\ d.provider = "entra" /\ claims.scp = {} /\ claims.app
           /\ p.permissions \subseteq claims.roles
=============================================================================
