----------------------------- MODULE JwksDocument -----------------------------
(***************************************************************************)
(* What the resolver reads in a JWKS document: _index_keys, which walks    *)
(* the list of keys once, and _compatible_key, which looks a key up in the *)
(* result.  JwksResolver takes a document for what this module finds in it.*)
(***************************************************************************)
EXTENDS Naturals, Sequences

Algorithms == {"RS256", "ES256"}

\* A member of the list.  `named` says that it is an object with a kid that is
\* a non-empty string of bounded length, `signs` that `use` and `key_ops`, if
\* given, allow to verify with it, `alg` what it advertises, and `sound` that
\* PyJWK makes a key of it.
Member(Kids) ==
  [named : BOOLEAN, kid : Kids, signs : BOOLEAN, alg : Algorithms \cup {"any", "other"},
   material : {"RSA", "EC P-256", "other"}, sound : BOOLEAN]

-----------------------------------------------------------------------------
(* _index_keys.                                                            *)

Nothing == [refused |-> FALSE, seen |-> {}, keys |-> [k \in {} |-> {}]]

\* indexed[kid] = key
Put(keys, key) ==
  [k \in DOMAIN keys \cup {key.kid} |-> IF k = key.kid THEN key ELSE keys[k]]

\* One member.  A kid that comes twice refuses the document, even when neither
\* key may verify.
Index(s, key) ==
  IF s.refused \/ ~key.named THEN s
  ELSE [refused |-> key.kid \in s.seen,
        seen |-> s.seen \cup {key.kid},
        keys |-> IF key.signs /\ key.kid \notin s.seen THEN Put(s.keys, key) ELSE s.keys]

\* The state of the loop after i members.
Indexing(doc) ==
  LET s[i \in 0 .. Len(doc)] == IF i = 0 THEN Nothing ELSE Index(s[i - 1], doc[i])
  IN s

Indexed(doc) == Indexing(doc)[Len(doc)]

\* What _fetch_keys returns and does not raise an error for.
Trusted(doc, maxKeys) == Len(doc) <= maxKeys /\ ~Indexed(doc).refused

-----------------------------------------------------------------------------
(* _compatible_key.                                                        *)

Fits(key, algorithm) ==
  /\ key.alg \in {"any", algorithm}
  /\ key.material = IF algorithm = "RS256" THEN "RSA" ELSE "EC P-256"
  /\ key.sound

\* The key, or nothing.
Compatible(keys, kid, algorithm) ==
  {keys[k] : k \in {k \in DOMAIN keys : k = kid /\ Fits(keys[k], algorithm)}}

-----------------------------------------------------------------------------
(* What a document means, with no loop.                                    *)

Distinct(doc) ==
  \A i, j \in 1 .. Len(doc) :
    doc[i].named /\ doc[j].named /\ doc[i].kid = doc[j].kid => i = j

Offers(doc, i, kid, algorithm) ==
  doc[i].named /\ doc[i].signs /\ doc[i].kid = kid /\ Fits(doc[i], algorithm)

\* A document is trusted when no kid comes twice in it, wherever; it then gives
\* for a kid and an algorithm the member that offers them, if there is one.
MeansWhatItSays(doc, maxKeys, Kids) ==
  /\ Trusted(doc, maxKeys) <=> Len(doc) <= maxKeys /\ Distinct(doc)
  /\ Trusted(doc, maxKeys) =>
       \A kid \in Kids, algorithm \in Algorithms :
         Compatible(Indexed(doc).keys, kid, algorithm)
           = {doc[i] : i \in {i \in 1 .. Len(doc) : Offers(doc, i, kid, algorithm)}}
=============================================================================
