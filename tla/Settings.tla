------------------------------ MODULE Settings ------------------------------
(***************************************************************************)
(* entrypoints/settings.py and what entrypoints/mcp_server.py derives from *)
(* it when a worker is built: the Host and Origin values it admits and the *)
(* origins its OIDC client trusts (the constructor of                      *)
(* adapters/oidc_http_security.py).                                        *)
(*                                                                         *)
(* A URL is what urlsplit makes of it: host None is a missing host, port   *)
(* None a missing one and BadPort one that raises; odd says that its text  *)
(* holds what the reader of that field refuses (blanks, control            *)
(* characters, wildcards, a host IDNA cannot encode).  The resource is an  *)
(* AnyHttpUrl: it has a host and drops a default port.  A settings record  *)
(* has the fields of the provider in use.                                  *)
(***************************************************************************)
EXTENDS Naturals, FiniteSets

CONSTANTS
  LoopbackHosts,     \* IP literals that are loopback addresses
  PlaceholderHosts,  \* localhost, example.com, anything under .invalid ...
  None

ASSUME PlaceholderAssumption == "login.microsoftonline.com" \notin PlaceholderHosts

BadPort == 65536

Placeholder(host) == host = None \/ host \in PlaceholderHosts

Bare(url) == ~url.userinfo /\ ~url.query /\ ~url.fragment

\* An origin and nothing more.
ExactOrigin(url, schemes) ==
  /\ url.port # BadPort /\ url.scheme \in schemes /\ url.host # None
  /\ Bare(url) /\ url.path = ""

\* _validate_resource_server_transport_url: plain HTTP on a loopback literal only.
ValidResource(url) ==
  /\ Bare(url)
  /\ url.scheme = "https" \/ (url.scheme = "http" /\ url.host \in LoopbackHosts)

\* _validate_transport_allowlists, whose hosts have no scheme.
ValidAllowlists(s) ==
  /\ \A url \in s.hosts \cup s.origins : ~url.odd
  /\ \A host \in s.hosts : ExactOrigin(host, {""})
  /\ \A origin \in s.origins : ExactOrigin(origin, {"http", "https"})

\* _require_matching_provider_fields
ValidProvider(s) ==
  IF s.provider = "entra"
    THEN s.tenant \in {"uuid", "zero"} /\ s.audience # None /\ s.uri # None
    ELSE s.issuer # None /\ s.audience # None

\* _validate_production_profile
ValidIdentifiers(s) ==
  s.tenant # "zero" /\ \A value \in {s.audience, s.uri} : ~value.zero

ValidIssuer(s) ==
  /\ s.issuer.port # BadPort /\ s.issuer.scheme = "https" /\ Bare(s.issuer)
  /\ ~Placeholder(s.issuer.host)
  /\ s.audience.host # None => ~Placeholder(s.audience.host)
  /\ \A origin \in s.jwks : ExactOrigin(origin, {"https"}) /\ ~Placeholder(origin.host)

ValidProduction(s) ==
  /\ s.resource.scheme = "https" /\ ~Placeholder(s.resource.host)
  /\ ~s.loopback
  /\ \A origin \in s.origins : origin.scheme = "https" /\ ~Placeholder(origin.host)
  /\ IF s.provider = "entra" THEN ValidIdentifiers(s) ELSE ValidIssuer(s)

\* Settings(), as the launcher and create_app call it; visible is what
\* _validate_runtime_settings asks of the runtime host.
ValidSettings(s) ==
  /\ s.visible
  /\ ValidResource(s.resource) /\ ValidAllowlists(s)
  /\ "offline_access" \notin s.scopes
  /\ ValidProvider(s)
  /\ s.environment = "production" => ValidProduction(s)

----------------------------------------------------------------------------
\* The transport boundary.  A Host header is a host and a port or None, an
\* Origin header a scheme as well.

DefaultPort(scheme) == IF scheme = "https" THEN 443 ELSE 80

\* Mutant: only the authority as the URL spells it.
OwnPortsAsSpelled(url) == {url.port}

\* _transport_authority: with the default port, both spellings of the host.
OwnPorts(url) ==
  IF url.port \in {None, DefaultPort(url.scheme)} THEN {None, DefaultPort(url.scheme)}
  ELSE {url.port}

OwnHosts(url) == {<<url.host, port>> : port \in OwnPorts(url)}

OwnOrigins(url) ==
  {<<url.scheme, url.host, port>> : port \in IF url.port = None THEN {None} ELSE OwnPorts(url)}

\* _build_transport_security
AllowedHosts(s) == OwnHosts(s.resource) \cup {<<h.host, h.port>> : h \in s.hosts}

AllowedOrigins(s) ==
  OwnOrigins(s.resource) \cup {<<o.scheme, o.host, o.port>> : o \in s.origins}

----------------------------------------------------------------------------
\* The boundary of the OIDC client.

\* _resolve_issuer_url: Entra's issuer is fixed but for the tenant.
Issuer(s) ==
  IF s.provider = "generic" THEN s.issuer
  ELSE [scheme |-> "https", host |-> "login.microsoftonline.com", port |-> None,
        userinfo |-> FALSE, path |-> "/tenant", query |-> FALSE, fragment |-> FALSE, odd |-> FALSE]

\* _build_oidc_network_policy: other origins for keys in generic mode only.
KeyOrigins(s) == IF s.provider = "generic" THEN s.jwks ELSE {}

\* _parse_url
Parses(url) ==
  /\ ~url.odd /\ url.port # BadPort /\ url.scheme \in {"http", "https"} /\ url.host # None
  /\ ~url.userinfo /\ ~url.fragment

\* OidcNetworkSecurityPolicy.__init__
PolicyAccepts(s) ==
  /\ \A url \in {Issuer(s)} \cup KeyOrigins(s) :
       Parses(url) /\ ~url.query /\ (url.scheme = "https" \/ s.loopback)
  /\ \A url \in KeyOrigins(s) : url.path \in {"", "/"}

TrustedUrls(s) == {Issuer(s)} \cup KeyOrigins(s)
=============================================================================
