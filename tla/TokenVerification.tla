-------------------------- MODULE TokenVerification --------------------------
(***************************************************************************)
(* adapters/generic_oidc_token_verifier.py and entra_token_verifier.py:    *)
(* verify_token asks OidcDiscoveryClient.resolve                           *)
(* (adapters/oidc_discovery.py) where the issuer's keys are, then          *)
(* JwksKeyResolver.resolve for the token's key, then decodes the token.    *)
(*                                                                         *)
(* The module composes the discovery client, which has a cache and a lock  *)
(* of its own, with JwksResolver: the second await of verify_token is made *)
(* of JwksResolver's steps.  A call that finds everything cached runs from *)
(* its first line to its last in one step.  The issuer may move its keys   *)
(* to another jwks_uri as well as rotate them.                             *)
(***************************************************************************)
EXTENDS Integers, Sequences, FiniteSets

CONSTANTS
  Requests, Uris, Keys, Ttl, Cooldown, None,
  MaxTime, MaxRotations, MaxFailures,          \* see JwksResolver
  Tokens,                \* the bearer tokens presented
  MetadataTtl,           \* cache_ttl_seconds of the discovery cache
  Leeway,                \* _CLOCK_SKEW_LEEWAY_SECONDS
  MaxMoves,              \* bound: moves of the issuer
  MaxDiscoveryFailures   \* bound: failed or cancelled discovery fetches

\* `key` is what the header names, None if it is malformed; `valid` that the
\* signature, the audience, the issuer and, with Entra, the tenant are right.
Token == [key : Keys \cup {None}, exp : Int, valid : BOOLEAN]

\* What the constructors check, and what a clock returns.
ASSUME VerificationAssumption ==
  /\ Ttl \in Nat \ {0} /\ Cooldown \in Nat \ {0} /\ MetadataTtl \in Nat \ {0}
  /\ MaxTime \in Nat /\ MaxRotations \in Nat /\ MaxFailures \in Nat
  /\ Leeway \in Nat /\ MaxMoves \in Nat /\ MaxDiscoveryFailures \in Nat
  /\ Tokens \subseteq Token

VARIABLES
  now, published, epoch, removedAt, cache, lastForced, holder, waiters,
  pc, job, reply, fetches, failures, forcedAt,  \* see JwksResolver
  announced,          \* issuer: the jwks_uri of its discovery document
  retiredAt,          \* history: when a URI stopped being announced, or None
  moves,              \* history: how often the issuer moved
  metadata,           \* OidcDiscoveryClient._cache
  fetcher,            \* the task inside its `async with self._fetch_lock`
  line,               \* that lock's FIFO of waiting tasks
  stage, call,        \* each verify_token()'s position and its locals
  outcome,            \* the call that returned in the last step, if one did
  discoveries,        \* history: discovery fetches sent,
  discoveryFailures   \* and how many of them failed or were cancelled

Resolver == INSTANCE JwksResolver

resolverVars  == <<now, published, epoch, removedAt, cache, lastForced, holder,
                   waiters, pc, job, reply, fetches, failures, forcedAt>>
issuerVars    == <<announced, retiredAt, moves>>
lockVars      == <<fetcher, line>>
discoveryVars == <<metadata, lockVars, discoveries, discoveryFailures>>
callVars      == <<stage, call, outcome>>
vars == <<resolverVars, issuerVars, discoveryVars, callVars>>

\* A trusted discovery document: its fetch began, then it was stored.
Metadata == [uri : Uris, begun : Nat, at : Nat]

\* Locals of one verify_token(): `meta` is the metadata it was given, `begun`
\* the start of its own discovery fetch and `uri` the answer to it.  History:
\* `late` is how long ago meta's URI was retired when the call was given it, if
\* it was; `absent` that at some moment of the call the announced URI lacked
\* the key, or the issuer moved.
Call == [token : Tokens, meta : Metadata \cup {None}, begun : Nat,
         uri : Uris \cup {None}, late : Nat \cup {None}, absent : BOOLEAN]

Discovering == {"queued", "fetching", "replied"}
Verifying   == Discovering \cup {"keys"}

\* How a call ended; the last two return None.
Outcome == [request : Requests, call : Call,
            result : {"accepted", "rejected", "failed"}]

\* Nothing else is None.
ASSUME VerificationNoneAssumption ==
  /\ None \notin Requests /\ None \notin Nat /\ None \notin Uris /\ None \notin Keys
  /\ None \notin Resolver!Entry /\ None \notin Metadata
  /\ None \notin Call /\ None \notin Outcome

-----------------------------------------------------------------------------
(* What a task reads without suspending.                                   *)

\* Mutant: an expired discovery document is still served.
KnownForever == metadata # None

\* Lines 47 and 52: TTLCache counts from the store.
Known == metadata # None /\ now < metadata.at + MetadataTtl

DiscoveryLockFree == fetcher = None /\ line = <<>>

\* Mutant: expiry is not looked at.
DecodesIgnoringExpiry(token) == token.valid

\* jwt.decode with the leeway, and EntraTokenVerifier's tenant.
Decodes(token) == token.valid /\ token.exp > now - Leeway

-----------------------------------------------------------------------------
(* Pieces of a step: the call r, whose locals are j, waits, or returns.    *)

Await(r, j, where) ==
  /\ stage' = [stage EXCEPT ![r] = where]
  /\ call' = [call EXCEPT ![r] = j]
  /\ outcome' = None

Return(r, j, result) ==
  /\ stage' = [stage EXCEPT ![r] = "idle"]
  /\ call' = [call EXCEPT ![r] = None]
  /\ outcome' = [request |-> r, call |-> j, result |-> result]

\* Mutant: a key that cannot be resolved ends nothing.
SettleKeepsWaiting(r, j) ==
  \/ /\ pc'[r] \notin {"accepted", "nokey"}
     /\ Await(r, j, "keys")
  \/ /\ pc'[r] = "accepted"
     /\ Return(r, j, IF Decodes(j.token) THEN "accepted" ELSE "rejected")
  \/ /\ pc'[r] = "nokey"
     /\ Return(r, j, "rejected")

\* Mutant: the caller can tell why a token was rejected.
SettleTellsWhy(r, j) ==
  \/ /\ pc'[r] \in Resolver!Waiting
     /\ Await(r, j, "keys")
  \/ /\ pc'[r] = "accepted"
     /\ Return(r, j, IF Decodes(j.token) THEN "accepted" ELSE "rejected")
  \/ /\ pc'[r] \in {"nokey", "error"}
     /\ Return(r, j, pc'[r])

\* What verify_token makes of the resolver's step: it waits, decodes, or turns
\* SigningKeyError into None.
Settle(r, j) ==
  \/ /\ pc'[r] \in Resolver!Waiting
     /\ Await(r, j, "keys")
  \/ /\ pc'[r] = "accepted"
     /\ Return(r, j, IF Decodes(j.token) THEN "accepted" ELSE "rejected")
  \/ /\ pc'[r] = "nokey"
     /\ Return(r, j, "rejected")
  \/ /\ pc'[r] = "error"
     /\ Return(r, j, "failed")

\* key_resolver.resolve(jwks_uri=metadata.jwks_uri), from its first line.
Lookup(r, j, meta) ==
  LET k == j.token.key
      given == [j EXCEPT !.meta = meta, !.begun = 0, !.uri = None,
                  !.late = IF meta.uri = announced \/ retiredAt[meta.uri] = None
                             THEN None ELSE now - retiredAt[meta.uri]]
  IN  /\ \/ k = None /\ Resolver!RejectHeader(r)
         \/ k # None /\ \/ Resolver!BeginCached(r, meta.uri, k)
                        \/ Resolver!BeginCold(r, meta.uri, k)
      /\ Settle(r, given)

\* self._http_client.get(discovery_url), the lock held.
SendDiscovery(r, j) ==
  /\ Await(r, [j EXCEPT !.begun = now], "fetching")
  /\ fetcher' = r
  /\ discoveries' = discoveries + 1

\* A task leaves the lock's queue, wherever it stands.
Leave(r) ==
  \E i \in DOMAIN line :
    /\ line[i] = r
    /\ line' = SubSeq(line, 1, i - 1) \o SubSeq(line, i + 1, Len(line))

-----------------------------------------------------------------------------
(* The call.                                                               *)

Init ==
  /\ Resolver!Init
  /\ announced \in Uris
  /\ retiredAt = [u \in Uris |-> None]
  /\ moves = 0
  /\ metadata = None
  /\ fetcher = None /\ line = <<>>
  /\ stage = [r \in Requests |-> "idle"]
  /\ call = [r \in Requests |-> None]
  /\ outcome = None
  /\ discoveries = 0 /\ discoveryFailures = 0

NewCall(token) ==
  [token |-> token, meta |-> None, begun |-> 0, uri |-> None, late |-> None,
   absent |-> token.key \notin published[announced]]

\* verify_token, to its first suspension: the metadata is cached, or somebody
\* fetches it, or this call does.
Begin(r) ==
  /\ stage[r] = "idle"
  /\ \E token \in Tokens :
       \/ /\ Known
          /\ Lookup(r, NewCall(token), metadata)
          /\ UNCHANGED <<lockVars, discoveries>>
       \/ /\ ~Known /\ ~DiscoveryLockFree
          /\ Await(r, NewCall(token), "queued")
          /\ line' = Append(line, r)
          /\ UNCHANGED <<resolverVars, fetcher, discoveries>>
       \/ /\ ~Known /\ DiscoveryLockFree
          /\ SendDiscovery(r, NewCall(token))
          /\ UNCHANGED <<resolverVars, line>>
  /\ UNCHANGED <<issuerVars, metadata, discoveryFailures>>

\* Mutant: no second look at the cache once the lock is taken.
DiscoveryResumeWithoutRecheck(r) ==
  /\ stage[r] = "queued" /\ fetcher = None
  /\ line # <<>> /\ Head(line) = r
  /\ SendDiscovery(r, call[r])
  /\ Leave(r)
  /\ UNCHANGED <<resolverVars, issuerVars, metadata, discoveryFailures>>

\* The first waiter gets the lock and looks again (line 52).
DiscoveryResume(r) ==
  /\ stage[r] = "queued" /\ fetcher = None
  /\ line # <<>> /\ Head(line) = r
  /\ Leave(r)
  /\ \/ /\ Known
        /\ Lookup(r, call[r], metadata)
        /\ UNCHANGED <<fetcher, discoveries>>
     \/ /\ ~Known
        /\ SendDiscovery(r, call[r])
        /\ UNCHANGED resolverVars
  /\ UNCHANGED <<issuerVars, metadata, discoveryFailures>>

\* The issuer writes its answer, which still has to travel.
DiscoveryRespond(r) ==
  /\ stage[r] = "fetching"
  /\ Await(r, [call[r] EXCEPT !.uri = announced], "replied")
  /\ UNCHANGED <<resolverVars, issuerVars, discoveryVars>>

\* The metadata passes every check and is stored; the call goes on with it.
DiscoveryStore(r) ==
  /\ stage[r] = "replied"
  /\ LET meta == [uri |-> call[r].uri, begun |-> call[r].begun, at |-> now]
     IN  metadata' = meta /\ Lookup(r, call[r], meta)
  /\ fetcher' = None
  /\ UNCHANGED <<issuerVars, line, discoveries, discoveryFailures>>


\* DiscoveryError (network, media type, document, an issuer or a jwks_uri that
\* is not trusted), which verify_token turns into None; or a cancellation.
DiscoveryFail(r) ==
  /\ stage[r] \in {"fetching", "replied"}
  /\ discoveryFailures < MaxDiscoveryFailures
  /\ Return(r, call[r], "failed")
  /\ fetcher' = None
  /\ discoveryFailures' = discoveryFailures + 1
  /\ UNCHANGED <<resolverVars, issuerVars, metadata, line, discoveries>>

\* The server cancels a task that waits for the lock.
CancelDiscoveryWaiter(r) ==
  /\ stage[r] = "queued"
  /\ Return(r, call[r], "failed")
  /\ Leave(r)
  /\ UNCHANGED <<resolverVars, issuerVars, metadata, fetcher, discoveries,
                 discoveryFailures>>

\* A step of the key resolver for the call r.
LookupStep(r) ==
  /\ stage[r] = "keys"
  /\ \/ Resolver!Resume(r) \/ Resolver!Respond(r) \/ Resolver!Store(r)
     \/ Resolver!FetchFail(r) \/ Resolver!CancelWaiter(r)
  /\ Settle(r, call[r])
  /\ UNCHANGED <<issuerVars, discoveryVars>>

-----------------------------------------------------------------------------
(* The environment.                                                        *)

\* The issuer announces another URI.
Move ==
  /\ moves < MaxMoves
  /\ moves' = moves + 1
  /\ \E u \in Uris \ {announced} :
       /\ announced' = u
       /\ retiredAt' = [retiredAt EXCEPT ![announced] = now, ![u] = None]
  /\ call' = [r \in Requests |->
       IF stage[r] \in Verifying THEN [call[r] EXCEPT !.absent = TRUE] ELSE call[r]]
  /\ outcome' = None
  /\ UNCHANGED <<resolverVars, discoveryVars, stage>>

\* It rotates the keys behind a URI.
Rotate(u) ==
  /\ Resolver!Rotate(u)
  /\ call' = [r \in Requests |->
       IF stage[r] \in Verifying /\ u = announced /\ call[r].token.key \notin published'[u]
         THEN [call[r] EXCEPT !.absent = TRUE] ELSE call[r]]
  /\ outcome' = None
  /\ UNCHANGED <<issuerVars, discoveryVars, stage>>

Tick ==
  /\ Resolver!Tick
  /\ outcome' = None
  /\ UNCHANGED <<issuerVars, discoveryVars, stage, call>>

Next ==
  \/ \E r \in Requests :
       \/ Begin(r)
       \/ DiscoveryResume(r) \/ DiscoveryRespond(r) \/ DiscoveryStore(r)
       \/ DiscoveryFail(r) \/ CancelDiscoveryWaiter(r)
       \/ LookupStep(r)
  \/ Move
  \/ \E u \in Uris : Rotate(u)
  \/ Tick

Spec == Init /\ [][Next]_vars

\* The event loop runs what can run, and timeouts end every request.
Fairness ==
  \A r \in Requests :
    /\ WF_vars(DiscoveryResume(r))
    /\ WF_vars(DiscoveryRespond(r) \/ DiscoveryFail(r))
    /\ WF_vars(DiscoveryStore(r) \/ DiscoveryFail(r))
    /\ WF_vars(LookupStep(r))

FairSpec == Spec /\ Fairness

-----------------------------------------------------------------------------
(* Properties.                                                             *)

\* Every variable that JwksResolver does not type keeps its type.
TypeOK ==
  /\ announced \in Uris
  /\ retiredAt \in [Uris -> Nat \cup {None}]
  /\ moves \in Nat
  /\ metadata \in Metadata \cup {None}
  /\ fetcher \in Requests \cup {None}
  /\ line \in Seq(Requests)
  /\ stage \in [Requests -> {"idle"} \cup Verifying]
  /\ call \in [Requests -> Call \cup {None}]
  /\ outcome \in Outcome \cup {None}
  /\ discoveries \in Nat /\ discoveryFailures \in Nat
  /\ \A r \in Requests : stage[r] # "idle" => call[r] \in Call

\* A call uses the resolver exactly while it waits for its key, and discovery's
\* lock exactly while it fetches metadata: it never holds both locks, so the
\* two cannot block each other.
NeverBothLocks ==
  \A r \in Requests :
    /\ stage[r] = "keys" <=> pc[r] \in Resolver!Waiting
    /\ stage[r] \in {"fetching", "replied"} <=> fetcher = r
    /\ stage[r] \in Discovering => holder # r /\ pc[r] \notin Resolver!Waiting

\* A call only looks for keys where the issuer announces them, or did less than
\* the lifespan of the discovery cache, plus the time its fetch took, before
\* the call was given the metadata.
Timely(j) ==
  j.late # None => j.late < MetadataTtl + (j.meta.at - j.meta.begun)

\* A token that jwt.decode and the tenant check should pass now.
Good(token) == token.valid /\ token.exp + Leeway > now

\* A token is accepted only unexpired at the end of the call, give or take the
\* leeway, from a timely URI, and with a key that is still published there or
\* was withdrawn less than the lifespan of the key cache, plus a fetch, ago: no
\* wait between verify_token's checks makes a stale one count.
AcceptedTokensCurrent ==
  outcome # None /\ outcome.result = "accepted" =>
    LET j == outcome.call
        u == j.meta.uri
        k == j.token.key
    IN  /\ Good(j.token)
        /\ Timely(j)
        /\ \/ k \in published[u]
           \/ now - removedAt[u][k] < Ttl + (cache[u].at - cache[u].begun)

\* A good token whose key stands behind the announced URI during the whole call
\* is rejected only if the cached URI is outdated, which the discovery cache
\* bounds, or during the cooldown of a forced refresh: whatever the issuer
\* changes, its clients are locked out for a bounded time.
RejectedOnlyForCause ==
  outcome # None /\ outcome.result = "rejected" =>
    LET j == outcome.call
        last == lastForced[j.meta.uri]
    IN  \/ ~Good(j.token) \/ j.absent
        \/ j.late # None /\ Timely(j)
        \/ last # None /\ now - last < Cooldown

\* Discovery is asked for once per lifespan, and once more per failure, however
\* many calls find the cache empty at the same time.
DiscoveryBounded == discoveries <= discoveryFailures + (now \div MetadataTtl) + 1

=============================================================================
