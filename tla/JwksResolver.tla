---------------------------- MODULE JwksResolver ----------------------------
(***************************************************************************)
(* adapters/jwks_key_resolver.py: JwksKeyResolver.resolve, called by any   *)
(* number of token verifications that share one asyncio event loop, one    *)
(* TTL cache, one fetch lock and one table of forced-refresh times, while  *)
(* the identity provider rotates the keys it publishes.                    *)
(*                                                                         *)
(* An action is what a task does between two suspensions.  resolve() can   *)
(* suspend only on the fetch lock, when it is held or already waited for,  *)
(* and on the HTTP request; everything in between is atomic on the event   *)
(* loop, so a call whose lock is free runs from its first line to its      *)
(* fetch, or to its result, in one step.                                   *)
(*                                                                         *)
(* Keys stands for the (kid, algorithm) pairs a token header can name, and *)
(* a key set for the pairs _compatible_key finds a usable key for in one   *)
(* indexed JWKS document.  The clock counts in units of one Tick.          *)
(***************************************************************************)
EXTENDS Integers, Sequences, FiniteSets

CONSTANTS
  Requests,      \* concurrent callers of resolve()
  Uris,          \* trusted jwks_uri values; fewer than the cache's size
  Keys,          \* (kid, alg) pairs a token can name
  Ttl,           \* lifespan_seconds of the cache
  Cooldown,      \* refresh_cooldown_seconds
  None,          \* Python's None, and "no entry", "nobody"
  MaxTime,       \* bound: the clock stops here
  MaxRotations,  \* bound: key rotations of the provider, per URI
  MaxFailures    \* bound: failed or cancelled fetches, per URI

\* What __init__ checks (lines 49-52); the clock, like monotonic(), is never
\* negative.
ASSUME ParameterAssumption ==
  /\ Ttl \in Nat \ {0}
  /\ Cooldown \in Nat \ {0}
  /\ MaxTime \in Nat /\ MaxRotations \in Nat /\ MaxFailures \in Nat

VARIABLES
  now,          \* monotonic()
  published,    \* provider: the key set behind each URI
  epoch,        \* provider: how many times it rotated that set
  removedAt,    \* history: when a key was last withdrawn from a URI
  cache,        \* _cache: per URI the last stored document
  lastForced,   \* _last_forced_refresh
  holder,       \* the task inside `async with self._fetch_lock`
  waiters,      \* the lock's FIFO of waiting tasks
  pc, job,      \* each call's position and its local state
  reply,        \* the document a fetching call was answered with
  fetches,      \* history, per URI: fetches sent,
  failures,     \* fetches that failed or were cancelled,
  forcedAt      \* and when the last forced one was sent

providerVars == <<published, epoch, removedAt>>
lockVars     == <<holder, waiters>>
callVars     == <<pc, job, reply>>
traffic      == <<fetches, failures, forcedAt>>
vars == <<now, providerVars, cache, lastForced, lockVars, callVars, traffic>>

Waiting  == {"queued", "fetching", "replied"}    \* suspended in an await
Returned == {"accepted", "nokey", "error"}       \* a key, or SigningKeyError

\* Locals of one resolve(): `forced` is _keys_for's force_refresh, `begun` the
\* start of its fetch; `absent` is a history flag, set once the provider did
\* not publish the wanted key at some moment of the call.
Job   == [uri: Uris, key: Keys, forced: BOOLEAN, absent: BOOLEAN, begun: Nat]
Reply == [keys: SUBSET Keys, epoch: Nat]
Entry == [keys: SUBSET Keys, epoch: Nat, begun: Nat, at: Nat]

\* Nothing else is None.
ASSUME NoneAssumption == None \notin Requests /\ None \notin Nat /\ None \notin Entry

-----------------------------------------------------------------------------
(* What a task reads without suspending.                                   *)

\* Mutant: an expired entry is still served.
FreshForever(u) == cache[u] # None

\* self._cache.get(uri) is not None: TTLCache counts from the store.
Fresh(u) == cache[u] # None /\ now < cache[u].at + Ttl

\* Mutant: `<=` for `<` in the cooldown comparison.
CoolingOneLonger(u) == lastForced[u] # None /\ now - lastForced[u] <= Cooldown

\* The forced refresh of lines 115-118 is refused.
Cooling(u) == lastForced[u] # None /\ now - lastForced[u] < Cooldown

\* Mutant: the lock is not exclusive.
LockAlwaysFree == waiters = <<>>

\* asyncio.Lock.acquire() suspends behind a holder and behind earlier waiters.
LockFree == holder = None /\ waiters = <<>>

-----------------------------------------------------------------------------
(* Pieces of a step: how the call r, whose locals are j, leaves the event  *)
(* loop.  `q` is the queue the lock is left with.                          *)

Return(r, j, result, q) ==
  /\ pc' = [pc EXCEPT ![r] = result]
  /\ job' = [job EXCEPT ![r] = [j EXCEPT !.forced = FALSE]]
  /\ holder' = None
  /\ waiters' = q

\* Mutant: the exception is swallowed and the call goes on without keys.
RaiseSwallowed(r, q) ==
  /\ pc' = pc
  /\ job' = [job EXCEPT ![r] = None]
  /\ waiters' = q

\* Mutant: a task that leaves by an exception stays in the lock's queue.
RaiseKeepsQueue(r, q) ==
  /\ pc' = [pc EXCEPT ![r] = "error"]
  /\ job' = [job EXCEPT ![r] = None]
  /\ waiters' = waiters

Raise(r, q) ==
  /\ pc' = [pc EXCEPT ![r] = "error"]
  /\ job' = [job EXCEPT ![r] = None]
  /\ waiters' = q

\* Suspend on the lock, as the holder h left it, behind the tasks of q.
Suspend(r, j, h, q) ==
  /\ pc' = [pc EXCEPT ![r] = "queued"]
  /\ job' = [job EXCEPT ![r] = j]
  /\ holder' = h
  /\ waiters' = Append(q, r)

\* self._http_client.get(jwks_uri), the lock held.
SendFetch(r, j, q) ==
  /\ pc' = [pc EXCEPT ![r] = "fetching"]
  /\ job' = [job EXCEPT ![r] = [j EXCEPT !.begun = now]]
  /\ holder' = r
  /\ waiters' = q
  /\ fetches' = [fetches EXCEPT ![j.uri] = @ + 1]
  /\ forcedAt' = IF j.forced THEN [forcedAt EXCEPT ![j.uri] = now] ELSE forcedAt
  /\ UNCHANGED failures

\* Mutant: a miss in the cached keys is final.
MissIsFinal(r, j, q) ==
  /\ Return(r, j, "nokey", q)
  /\ UNCHANGED <<lastForced, traffic>>

\* Lines 114-120 for a call that missed, the lock taken and its queue q: without
\* its key during the cooldown, else the refresh is recorded, then sent.
ForcedSection(r, j, q) ==
  \/ /\ Cooling(j.uri)
     /\ Return(r, j, "nokey", q)
     /\ UNCHANGED <<lastForced, traffic>>
  \/ /\ ~Cooling(j.uri)
     /\ lastForced' = [lastForced EXCEPT ![j.uri] = now]
     /\ SendFetch(r, [j EXCEPT !.forced = TRUE], q)

\* Lines 93 and 110: the lock, when it was just released by r itself, is only
\* had at once if nobody waits.
ForceAfterRelease(r, j, q) ==
  \/ /\ q # <<>>
     /\ Suspend(r, [j EXCEPT !.forced = TRUE], None, q)
     /\ UNCHANGED <<lastForced, traffic>>
  \/ /\ q = <<>>
     /\ ForcedSection(r, j, q)

-----------------------------------------------------------------------------
(* The call.                                                               *)

Init ==
  /\ now = 0
  /\ published \in [Uris -> SUBSET Keys]
  /\ epoch = [u \in Uris |-> 0]
  /\ removedAt = [u \in Uris |-> [k \in Keys |-> 0]]
  /\ cache = [u \in Uris |-> None]
  /\ lastForced = [u \in Uris |-> None]
  /\ holder = None
  /\ waiters = <<>>
  /\ pc = [r \in Requests |-> "idle"]
  /\ job = [r \in Requests |-> None]
  /\ reply = [r \in Requests |-> None]
  /\ fetches = [u \in Uris |-> 0]
  /\ failures = [u \in Uris |-> 0]
  /\ forcedAt = [u \in Uris |-> None]

NewJob(u, k) ==
  [uri |-> u, key |-> k, forced |-> FALSE, absent |-> k \notin published[u],
   begun |-> 0]

\* A slot is free for a new request once its last call returned.
Idle(r) == pc[r] \in {"idle"} \cup Returned

\* Lines 72-87: a malformed header, an algorithm or a URI that is not
\* accepted ends the call before any shared state is read.
RejectHeader(r) ==
  /\ Idle(r)
  /\ Raise(r, waiters)
  /\ UNCHANGED <<now, providerVars, cache, lastForced, holder, reply, traffic>>

\* Lines 88-93 with a fresh cache: the key is there, or the call goes on to
\* the forced refresh.
BeginCached(r, u, k) ==
  /\ Idle(r)
  /\ Fresh(u)
  /\ \/ /\ k \in cache[u].keys
        /\ pc' = [pc EXCEPT ![r] = "accepted"]
        /\ job' = [job EXCEPT ![r] = NewJob(u, k)]
        /\ UNCHANGED <<lastForced, lockVars, traffic>>
     \/ /\ k \notin cache[u].keys /\ ~LockFree
        /\ Suspend(r, [NewJob(u, k) EXCEPT !.forced = TRUE], holder, waiters)
        /\ UNCHANGED <<lastForced, traffic>>
     \/ /\ k \notin cache[u].keys /\ LockFree
        /\ ForcedSection(r, NewJob(u, k), <<>>)
  /\ UNCHANGED <<now, providerVars, cache, reply>>

\* Line 88 with nothing cached, or an expired entry.
BeginCold(r, u, k) ==
  /\ Idle(r)
  /\ ~Fresh(u)
  /\ \/ /\ ~LockFree
        /\ Suspend(r, NewJob(u, k), holder, waiters)
        /\ UNCHANGED traffic
     \/ /\ LockFree
        /\ SendFetch(r, NewJob(u, k), <<>>)
  /\ UNCHANGED <<now, providerVars, cache, lastForced, reply>>

\* Mutant: no second look at the cache once the lock is taken.
ResumeWithoutRecheck(r) ==
  /\ pc[r] = "queued" /\ holder = None
  /\ waiters # <<>> /\ Head(waiters) = r
  /\ SendFetch(r, job[r], Tail(waiters))
  /\ UNCHANGED <<now, providerVars, cache, lastForced, reply>>

\* Lines 111-122: the first waiter is handed the lock and looks again.  A forced
\* call is only given the cached keys during the cooldown: outside it the call
\* fetches, even if its key has arrived while it waited.
Resume(r) ==
  /\ pc[r] = "queued" /\ holder = None
  /\ waiters # <<>> /\ Head(waiters) = r
  /\ LET u == job[r].uri
         hit == job[r].key \in cache[u].keys
         rest == Tail(waiters)
     IN  \/ /\ Fresh(u) /\ hit
            /\ job[r].forced => Cooling(u)
            /\ Return(r, job[r], "accepted", rest)
            /\ UNCHANGED <<lastForced, traffic>>
         \/ /\ Fresh(u) /\ ~hit /\ ~job[r].forced
            /\ ForceAfterRelease(r, job[r], rest)
         \/ /\ Fresh(u) /\ job[r].forced
            /\ hit => ~Cooling(u)
            /\ ForcedSection(r, job[r], rest)
         \/ /\ ~Fresh(u)
            /\ SendFetch(r, job[r], rest)
            /\ UNCHANGED lastForced
  /\ UNCHANGED <<now, providerVars, cache, reply>>

\* The provider answers with the keys it publishes at this moment; the
\* document still has to travel.
Respond(r) ==
  /\ pc[r] = "fetching"
  /\ pc' = [pc EXCEPT ![r] = "replied"]
  /\ reply' = [reply EXCEPT ![r] = [keys  |-> published[job[r].uri],
                                    epoch |-> epoch[job[r].uri]]]
  /\ UNCHANGED <<now, providerVars, cache, lastForced, lockVars, job, traffic>>

\* Lines 120-122 and what resolve() does with the keys: a hit, the end of a
\* forced refresh, or the first miss, which becomes a forced refresh.
Store(r) ==
  /\ pc[r] = "replied"
  /\ LET u == job[r].uri
         hit == job[r].key \in reply[r].keys
         j == [job[r] EXCEPT !.begun = 0]
     IN  /\ cache' = [cache EXCEPT ![u] = [keys  |-> reply[r].keys,
                                           epoch |-> reply[r].epoch,
                                           begun |-> job[r].begun,
                                           at    |-> now]]
         /\ \/ /\ hit \/ job[r].forced
               /\ Return(r, j, IF hit THEN "accepted" ELSE "nokey", waiters)
               /\ UNCHANGED <<lastForced, traffic>>
            \/ /\ ~hit /\ ~job[r].forced
               /\ ForceAfterRelease(r, j, waiters)
  /\ reply' = [reply EXCEPT ![r] = None]
  /\ UNCHANGED <<now, providerVars>>

\* Lines 139-140: a network error, a status, a media type or a document that
\* is refused; or the server cancels the task.  The lock is released and
\* nothing is cached.
FetchFail(r) ==
  /\ pc[r] \in {"fetching", "replied"}
  /\ failures[job[r].uri] < MaxFailures
  /\ Raise(r, waiters)
  /\ holder' = None
  /\ reply' = [reply EXCEPT ![r] = None]
  /\ failures' = [failures EXCEPT ![job[r].uri] = @ + 1]
  /\ UNCHANGED <<now, providerVars, cache, lastForced, fetches, forcedAt>>

\* The server cancels a task that waits for the lock: it leaves the queue,
\* wherever it stands.
CancelWaiter(r) ==
  /\ pc[r] = "queued"
  /\ \E i \in DOMAIN waiters :
       /\ waiters[i] = r
       /\ Raise(r, SubSeq(waiters, 1, i - 1) \o SubSeq(waiters, i + 1, Len(waiters)))
  /\ UNCHANGED <<now, providerVars, cache, lastForced, holder, reply, traffic>>

-----------------------------------------------------------------------------
(* The environment.                                                        *)

\* The provider replaces the keys behind a URI.
Rotate(u) ==
  /\ epoch[u] < MaxRotations
  /\ epoch' = [epoch EXCEPT ![u] = @ + 1]
  /\ \E ks \in (SUBSET Keys) \ {published[u]} :
       /\ published' = [published EXCEPT ![u] = ks]
       /\ removedAt' = [removedAt EXCEPT ![u] =
            [k \in Keys |-> IF k \in ks THEN 0
                            ELSE IF k \in published[u] THEN now ELSE @[k]]]
       /\ job' = [r \in Requests |->
            IF pc[r] \in Waiting /\ job[r].uri = u /\ job[r].key \notin ks
              THEN [job[r] EXCEPT !.absent = TRUE]
              ELSE job[r]]
  /\ UNCHANGED <<now, cache, lastForced, lockVars, pc, reply, traffic>>

Tick ==
  /\ now < MaxTime
  /\ now' = now + 1
  /\ UNCHANGED <<providerVars, cache, lastForced, lockVars, callVars, traffic>>

Next ==
  \/ \E r \in Requests :
       \/ RejectHeader(r)
       \/ \E u \in Uris, k \in Keys : BeginCached(r, u, k) \/ BeginCold(r, u, k)
       \/ Resume(r) \/ Respond(r) \/ Store(r) \/ FetchFail(r)
       \/ CancelWaiter(r)
  \/ \E u \in Uris : Rotate(u)
  \/ Tick

Spec == Init /\ [][Next]_vars

\* The event loop runs every task that can run, and the per-operation
\* timeouts of the HTTP client end every request.  Nothing makes the provider
\* rotate, the clock advance or a caller begin.
Fairness ==
  \A r \in Requests :
    /\ WF_vars(Resume(r))
    /\ WF_vars(Respond(r) \/ FetchFail(r))
    /\ WF_vars(Store(r) \/ FetchFail(r))

FairSpec == Spec /\ Fairness

-----------------------------------------------------------------------------
(* Properties.                                                             *)

\* Every variable keeps its type.
TypeOK ==
  /\ now \in Nat
  /\ published \in [Uris -> SUBSET Keys]
  /\ epoch \in [Uris -> Nat]
  /\ removedAt \in [Uris -> [Keys -> Nat]]
  /\ cache \in [Uris -> Entry \cup {None}]
  /\ lastForced \in [Uris -> Nat \cup {None}]
  /\ holder \in Requests \cup {None}
  /\ waiters \in Seq(Requests)
  /\ pc \in [Requests -> {"idle"} \cup Waiting \cup Returned]
  /\ job \in [Requests -> Job \cup {None}]
  /\ reply \in [Requests -> Reply \cup {None}]
  /\ fetches \in [Uris -> Nat] /\ failures \in [Uris -> Nat]
  /\ forcedAt \in [Uris -> Nat \cup {None}]
  /\ \A r \in Requests :
       /\ pc[r] \in Waiting \cup {"accepted", "nokey"} => job[r] \in Job
       /\ pc[r] = "replied" => reply[r] \in Reply

\* The lock is held exactly while its holder fetches, so at most one request
\* to the provider is in flight and no error path keeps the lock.
SingleFlight ==
  \A r \in Requests : pc[r] \in {"fetching", "replied"} <=> holder = r

\* Whatever kids the callers name and however they interleave, the traffic to
\* a provider that answers is bounded by time alone: one fetch per lifespan of
\* the cache and one forced refresh per cooldown.  Each failure allows one
\* more, for nothing remembers it.
OutboundBounded ==
  \A u \in Uris :
    fetches[u] <=
      failures[u] + (now \div Ttl + 1) + (now \div Cooldown + 1)

\* A cached document is only ever replaced by one the provider published
\* later or at the same time: a slow answer never brings withdrawn keys back.
CacheNeverGoesBack ==
  [][\A u \in Uris : cache[u] # None =>
       cache'[u] # None /\ cache'[u].epoch >= cache[u].epoch]_cache

\* A step of r that ends its call with a key, or without one.
Accepts(r) == pc'[r] = "accepted" /\ (pc[r] # "accepted" \/ job'[r] # job[r])
Misses(r)  == pc'[r] = "nokey" /\ (pc[r] # "nokey" \/ job'[r] # job[r])

\* A token is only accepted with a key the provider still publishes, or
\* withdrew less than the cache's lifespan, plus the time the fetch took, ago.
RevokedKeyExpires ==
  [][\A r \in Requests : Accepts(r) =>
       LET u == job'[r].uri
           k == job'[r].key
           latency == cache'[u].at - cache'[u].begun
       IN  /\ k \in cache'[u].keys
           /\ \/ k \in published[u]
              \/ now - removedAt[u][k] < Ttl + latency]_vars

\* A key the provider published during the whole call is only reported
\* missing while the cooldown of an earlier forced refresh lasts: rotation
\* costs a client at most that long, and an expired cache costs it nothing.
RotatedKeyWaitsAtMostCooldown ==
  [][\A r \in Requests : Misses(r) =>
       LET last == lastForced[job'[r].uri]
       IN  job'[r].absent \/ (last # None /\ now - last < Cooldown)]_vars

\* Every call returns: the lock is handed on after success, failure and
\* cancellation, and a call that queues twice is not overtaken forever.
EveryCallReturns ==
  \A r \in Requests : pc[r] \in Waiting ~> pc[r] \in Returned

-----------------------------------------------------------------------------
(* What callers may rely on, whatever goes on between them.                *)

\* A call as KeySource sees it: one that fails says nothing.
Calls ==
  [r \in Requests |->
     IF pc[r] \in Waiting \cup {"accepted", "nokey"}
       THEN [uri    |-> job[r].uri,
             key    |-> job[r].key,
             absent |-> job[r].absent,
             missed |-> job[r].forced,
             answer |-> IF pc[r] \in Waiting THEN "pending" ELSE pc[r]]
       ELSE [answer |-> "none"]]

KS == INSTANCE KeySource WITH view <- cache, refreshed <- lastForced, call <- Calls

\* The resolver is a key source.  Its documents come in the order in which it
\* asked for them, one after the other; a key is found, or missed, in a
\* document that is recent enough; a miss has a reason the caller can wait
\* for; only a call that missed makes it ask before the entry expires.
SourceSafe == KS!Spec

\* ADR-0007 (docs/adr/0007-...): forced refreshes of one JWKS are rate-limited
\* by the cooldown.  Not so: a forced call that finds the entry expired once
\* it has the lock fetches without looking at, or recording, the time of the
\* last forced refresh.
ForcedRefreshesSpaced ==
  [][\A u \in Uris :
       /\ forcedAt[u] # None
       /\ \E r \in Requests : /\ pc'[r] = "fetching" /\ pc[r] # "fetching"
                              /\ job'[r].uri = u /\ job'[r].forced
       => now - forcedAt[u] >= Cooldown]_vars
=============================================================================
