------------------------------ MODULE MCWorker ------------------------------
(* Environments: a production server behind a proxy with Entra; a            *)
(* development server on a loopback port whose issuer is plain HTTP; that    *)
(* one when nobody asked for plain HTTP, which the settings allow and the    *)
(* network policy does not; and two production servers with placeholders.    *)
EXTENDS Worker

Url(scheme, host, port) ==
  [scheme |-> scheme, host |-> host, port |-> port, userinfo |-> FALSE, path |-> "",
   query |-> FALSE, fragment |-> FALSE, odd |-> FALSE]

MCPlaceholders == {"localhost", "idp.invalid"}
MCLoopback     == {"127.0.0.1"}

Identifier == [zero |-> FALSE, host |-> None]

Entra ==
  [environment |-> "production", visible |-> TRUE, provider |-> "entra", scopes |-> {},
   resource |-> Url("https", "mcp", None), loopback |-> FALSE,
   hosts |-> {Url("", "proxy", 8443)}, origins |-> {Url("https", "console", None)},
   tenant |-> "uuid", audience |-> Identifier, uri |-> Identifier]

Generic ==
  [environment |-> "development", visible |-> TRUE, provider |-> "generic", scopes |-> {},
   resource |-> Url("http", "127.0.0.1", 8000), loopback |-> TRUE, hosts |-> {}, origins |-> {},
   issuer |-> Url("http", "localhost", 9000), jwks |-> {Url("https", "keys", None)},
   audience |-> Identifier]

MCEnvironments ==
  {Entra, Generic, [Generic EXCEPT !.loopback = FALSE], [Entra EXCEPT !.tenant = "zero"],
   [Generic EXCEPT !.environment = "production", !.loopback = FALSE,
      !.resource = Url("https", "mcp", None), !.issuer = Url("https", "idp", None),
      !.jwks = {Url("https", "idp.invalid", None)}]}

Wire(host, origin) == [host |-> host, origin |-> origin]
MCWires ==
  {Wire(<<"mcp", None>>, None), Wire(<<"mcp", 443>>, <<"https", "mcp", None>>),
   Wire(<<"127.0.0.1", 8000>>, <<"http", "127.0.0.1", 8000>>),
   Wire(<<"proxy", 8443>>, <<"https", "evil", None>>)}
=============================================================================
