------------------------- MODULE MCTokenVerification -------------------------
(* Tokens: one that expires on the way; and, where time is not the subject,   *)
(* one that outlives the run, one with a bad signature and one without a      *)
(* usable header.                                                             *)
EXTENDS TokenVerification, TLC

CONSTANTS k1
MCKeys == {k1}

Bearer(k, exp, valid) == [key |-> k, exp |-> exp, valid |-> valid]

Lasting   == Bearer(k1, MaxTime + 1, TRUE)
Expiring  == Bearer(k1, 1, TRUE)
Unsigned  == Bearer(k1, MaxTime + 1, FALSE)
Malformed == Bearer(None, MaxTime + 1, TRUE)

TimedTokens == {Expiring}
MixedTokens == {Lasting, Unsigned, Malformed}

Symmetry == Permutations(Requests) \cup Permutations(Uris)
=============================================================================
