--------------------------- MODULE MCJwksResolver ---------------------------
(* Instances of JwksResolver for TLC: requests and keys are model values.   *)
EXTENDS JwksResolver, TLC

\* Every document of up to three members, usable and not, over two kids, means
\* what it says.
Document == INSTANCE JwksDocument

Members ==
  {[named |-> n, kid |-> k, signs |-> s, alg |-> a, material |-> "RSA", sound |-> TRUE] :
     n \in BOOLEAN, k \in {1, 2}, s \in BOOLEAN, a \in {"any", "ES256"}}

ASSUME DocumentsRead ==
  \A n \in 0 .. 3 : \A doc \in [1 .. n -> Members] :
    Document!MeansWhatItSays(doc, 2, {1, 2})

Symmetry == Permutations(Requests) \cup Permutations(Keys) \cup Permutations(Uris)
=============================================================================
