-------------------------- MODULE MCProgressiveAuth --------------------------
(* Two deployments of each provider: the default one, with a global scope    *)
(* and the template's tools, and one whose tools mix the kinds of policy.    *)
EXTENDS ProgressiveAuth, TLC

CONSTANTS call, health, admin

MCTools == {"whoami", "health", "manage", "orphan"}
Scope(r, n) == [resource |-> r, name |-> n]
Short(names) == {Scope("", n) : n \in names}

Policy(kind, permissions) == [kind |-> kind, permissions |-> permissions]

Registry(healthPolicy, managePolicy) ==
  [t \in MCTools |-> CASE t = "whoami" -> Policy("authenticated", {})
                      [] t = "health" -> healthPolicy
                      [] t = "manage" -> managePolicy
                      [] t = "orphan" -> None]

MCDeployments ==
  {[provider |-> "entra", required |-> Short({call}),
    policy |-> Registry(Policy("delegated_scopes", Short({health})),
                        Policy("application_roles", {admin}))],
   [provider |-> "entra", required |-> {},
    policy |-> Registry(Policy("oauth_scopes", {Scope(OwnResource, health), Scope("", call)}),
                        Policy("application_roles", {admin}))],
   [provider |-> "generic", required |-> Short({call}),
    policy |-> Registry(Policy("oauth_scopes", Short({health})),
                        Policy("delegated_scopes", Short({health})))]}

Holding(scope, scp, app, roles) ==
  [scope |-> scope, scp |-> scp, app |-> app, roles |-> roles]

\* Users with one or both scopes, a user with a role, an application, a token
\* that proves neither, a contradictory one, another resource's, and a
\* generic provider's.
MCTokenClaims ==
  {Holding({}, Short({call}), FALSE, {admin}),
   Holding({}, Short({health}), FALSE, {}),
   Holding({}, {}, TRUE, {admin}),
   Holding({}, {}, FALSE, {admin}),
   Holding({}, Short({call, health}), TRUE, {admin}),
   Holding({}, {Scope("other", call), Scope("other", health)}, FALSE, {}),
   Holding(Short({call}), {}, FALSE, {})}

Calls(header, name) ==
  [mcp |-> TRUE, header |-> header, body |-> [method |-> "tools/call", name |-> name]]

\* Announced calls, one without headers, one whose headers name another tool,
\* one without a name, a listing, and another path with call headers.
MCShapes ==
  {Calls(t, t) : t \in MCTools}
    \cup {Calls(None, "health"), Calls("whoami", "health"), Calls(None, None),
          [mcp |-> TRUE, header |-> None, body |-> [method |-> "tools/list", name |-> None]],
          [mcp |-> FALSE, header |-> "health", body |-> [method |-> "other", name |-> None]]}

Callers == Permutations(Clients)
=============================================================================
