--------------------------- MODULE MCOidcTransport ---------------------------
(* An issuer, an allowlisted origin that may share its addresses, a loopback  *)
(* one that is spelled out, and an origin nobody trusts.                      *)
EXTENDS OidcTransport, TLC

CONSTANTS idp, cdn, local, other, public1, public2, loopback, private

MCIssuer == [scheme |-> "https", host |-> idp]
Keys     == [scheme |-> "https", host |-> cdn]
Local    == [scheme |-> "http", host |-> local]
Other    == [scheme |-> "https", host |-> other]

MCOrigins   == {MCIssuer, Keys, Local, Other}
MCAllowed   == {Keys, Local}
MCAddresses == {public1, public2, loopback, private}

MCClass ==
  [a \in MCAddresses |-> CASE a \in {public1, public2} -> "global"
                           [] a = loopback -> "loopback"
                           [] a = private -> "private"]

MCLiteral == [o \in MCOrigins |-> IF o = Local THEN loopback ELSE None]

\* Two addresses, two of which one is not acceptable, none.
MCAnswers == {<<public2, public1>>, <<public1, private>>, <<>>}

FewOrigins == {MCIssuer, Local}
FewAllowed == {Local}
FewLiteral == [o \in FewOrigins |-> MCLiteral[o]]
OneAnswer  == {<<public1>>}

Symmetry == Permutations(Requests)
=============================================================================
