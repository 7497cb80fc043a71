---------------------------- MODULE OidcTransport ----------------------------
(***************************************************************************)
(* adapters/oidc_http_security.py: the trust policy and                    *)
(* PinnedOidcAsyncTransport, through which all discovery and JWKS requests *)
(* leave the process.  A request is judged by its URL, its host is         *)
(* resolved, the answers are judged, and the connection is made to the     *)
(* address that was judged, out of a pool that belongs to the URL's        *)
(* origin.  DNS may answer differently every time.                         *)
(*                                                                         *)
(* A request can suspend in the name lookup, until the response begins,    *)
(* and between chunks of the body.  _transport_for never suspends: nobody  *)
(* holds its lock across an await.  URLs are parsed into origin and kind   *)
(* beforehand; a URL that _parse_url refuses is one of an untrusted origin.*)
(* The child transports (httpx over httpcore) are external: each keeps the *)
(* connections that can be used again and knows them by address alone.     *)
(***************************************************************************)
EXTENDS Integers, Sequences, FiniteSets

CONSTANTS
  Requests,        \* concurrent requests of the shared client
  Origins,         \* records with fields scheme and host
  Issuer,          \* the origin of the configured issuer
  AllowedOrigins,  \* jwks_allowed_origins
  AllowLoopback,   \* allow_insecure_loopback
  Addresses,       \* IP addresses
  Class,           \* what ipaddress says of each, unmapped from IPv6
  Literal,         \* the address a host spells out, or None, per origin
  Answers,         \* what the resolver may return: sequences of addresses
  DiscoveryMax,    \* discovery_max_bytes, in units of one chunk byte
  JwksMax,         \* jwks_max_bytes
  MaxHosts,        \* max_hosts
  None

\* A URL is its origin and whether it is exactly the discovery URL.
Url == [origin : Origins, discovery : BOOLEAN]

\* What the constructors enforce.
ASSUME TransportAssumption ==
  /\ IsFiniteSet(Requests)
  /\ Issuer \in Origins /\ AllowedOrigins \subseteq Origins /\ IsFiniteSet(AllowedOrigins)
  /\ AllowLoopback \in BOOLEAN
  /\ ~AllowLoopback => \A o \in {Issuer} \cup AllowedOrigins : o.scheme = "https"
  /\ Class \in [Addresses -> {"global", "loopback", "private"}]
  /\ Literal \in [Origins -> Addresses \cup {None}]
  /\ Answers \subseteq Seq(Addresses)
  /\ DiscoveryMax \in Nat \ {0} /\ JwksMax \in Nat \ {0} /\ MaxHosts \in Nat \ {0}

VARIABLES
  client,      \* httpx.AsyncClient: "open", "closing" or "closed"
  transports,  \* _transports: the pool of each origin, or None
  pools,       \* every pool there is or was, None if it was never created
  toClose,     \* the rest of the list aclose() goes through
  closeFailed, \* history: closing a pool raised
  overlap,     \* history: requests that ran, uncancelled, when aclose() began
  req,         \* each request's locals, None when there is none
  cancelled,   \* the requests whose task was cancelled
  outcome      \* the request that ended in the last step, if one did

closeVars == <<client, toClose, closeFailed, overlap>>
vars == <<closeVars, transports, pools, req, cancelled, outcome>>

\* A connection, and the host whose certificate it was opened with.
Connection == [ip : Addresses, host : {o.host : o \in Origins}]

\* An origin has at most one pool before aclose() empties the table, and one
\* after.
PoolIds == Origins \X {"early", "late"}

\* A child transport: `busy` counts the connections in use, `idle` holds those
\* kept alive, `by` is the request a late one was created for.
Pool == [open : BOOLEAN, busy : Nat, idle : SUBSET Connection,
         by : Requests \cup {None}]

\* Locals of handle_async_request and of the bounded stream it returns:
\* `answers` is what its own lookup returned, `total` the bytes read.
Request == [url : Url, stage : {"resolving", "connecting", "streaming"},
            answers : Seq(Addresses), pool : PoolIds \cup {None}, conn : Connection \cup {None},
            total : Nat]

\* How a request ended: with a body, by a check, for want of a host slot, or
\* by the network, a timeout or a cancellation.
Outcome == [url : Url, result : {"ok", "refused", "budget", "failed"}, total : Nat]

\* Nothing else is None.
ASSUME TransportNoneAssumption ==
  None \notin Addresses \cup Requests \cup Connection \cup Pool \cup PoolIds
                 \cup Request \cup Outcome

-----------------------------------------------------------------------------
(* The policy.                                                             *)

TrustedOrigins == {Issuer} \cup AllowedOrigins

\* request_kind: the discovery URL, or a JWKS URL of a trusted origin.
Trusted(url) == url.discovery \/ url.origin \in TrustedOrigins

\* response_limit_for.
Limit(url) == IF url.discovery THEN DiscoveryMax ELSE JwksMax

AddressesOf(answers) == {answers[i] : i \in DOMAIN answers}

\* Mutant: one acceptable answer is enough.
SomeAcceptable(origin, answers) ==
  /\ answers # <<>>
  /\ \/ AllowLoopback /\ \E a \in AddressesOf(answers) : Class[a] = "loopback"
     \/ origin.scheme = "https" /\ \E a \in AddressesOf(answers) : Class[a] = "global"

\* resolve(): every answer is loopback, where that is allowed, or every answer
\* is global and the scheme is HTTPS.
Acceptable(origin, answers) ==
  /\ answers # <<>>
  /\ \/ AllowLoopback /\ \A a \in AddressesOf(answers) : Class[a] = "loopback"
     \/ origin.scheme = "https" /\ \A a \in AddressesOf(answers) : Class[a] = "global"

Created == {p \in PoolIds : pools[p] # None}

-----------------------------------------------------------------------------
(* Pieces of a step.                                                       *)

Continue(r, q) == req' = [req EXCEPT ![r] = q] /\ outcome' = None

\* Mutant: a cancellation is charged to the next request of that task.
EndKeepsCancelled(r, url, result, total) ==
  /\ req' = [req EXCEPT ![r] = None]
  /\ outcome' = [url |-> url, result |-> result, total |-> total]
  /\ cancelled' = cancelled

End(r, url, result, total) ==
  /\ req' = [req EXCEPT ![r] = None]
  /\ outcome' = [url |-> url, result |-> result, total |-> total]
  /\ cancelled' = cancelled \ {r}

\* The child's connections, when the request r, whose locals are q, is done with
\* its own: it is kept if the response was read to its end.
Released(q, kept) ==
  IF q.conn = None \/ ~pools[q.pool].open THEN pools
  ELSE [pools EXCEPT ![q.pool].busy = @ - 1,
                     ![q.pool].idle = IF kept THEN @ \cup {q.conn} ELSE @]

\* The child takes a connection it keeps to that address, or opens one to the
\* host named in the SNI extension.
Connect(r, q, p, pool) ==
  LET ip == q.answers[1]
      kept == {c \in pool.idle : c.ip = ip}
      fresh == [ip |-> ip, host |-> q.url.origin.host]
  IN  \E c \in (IF kept = {} THEN {fresh} ELSE kept) :
        /\ Continue(r, [q EXCEPT !.stage = "connecting", !.pool = p, !.conn = c])
        /\ pools' = [pools EXCEPT ![p] =
             [pool EXCEPT !.busy = @ + 1, !.idle = @ \ {c}]]

\* Mutant: pools are shared by whoever reaches the same address.
PoolKeyByAddress(q) ==
  {p \in Created : \E c \in pools[p].idle : c.ip = q.answers[1]}

\* _transport_for looks the pool up by the origin.
PoolKey(q) == {transports[q.url.origin]} \ {None}

\* Mutant: `>` for `>=`, counting the new pool.
BudgetLeftButOne ==
  Cardinality({o \in Origins : transports[o] # None}) + 1 < MaxHosts

BudgetLeft == Cardinality({o \in Origins : transports[o] # None}) < MaxHosts

\* The answers q carries are judged; then a pool is found, refused or created.
Vet(r, q) ==
  LET o == q.url.origin
      p == <<o, IF client = "open" THEN "early" ELSE "late">>
      new == [open |-> TRUE, busy |-> 0, idle |-> {},
              by |-> IF client = "open" THEN None ELSE r]
  IN  \/ /\ ~Acceptable(o, q.answers)
         /\ End(r, q.url, "refused", 0)
         /\ UNCHANGED <<transports, pools>>
      \/ /\ Acceptable(o, q.answers) /\ PoolKey(q) # {}
         /\ \E found \in PoolKey(q) : Connect(r, q, found, pools[found])
         /\ UNCHANGED <<transports, cancelled>>
      \/ /\ Acceptable(o, q.answers) /\ PoolKey(q) = {} /\ ~BudgetLeft
         /\ End(r, q.url, "budget", 0)
         /\ UNCHANGED <<transports, pools>>
      \/ /\ Acceptable(o, q.answers) /\ PoolKey(q) = {} /\ BudgetLeft
         /\ transports' = [transports EXCEPT ![o] = p]
         /\ Connect(r, q, p, new)
         /\ UNCHANGED cancelled

-----------------------------------------------------------------------------
(* A request.                                                              *)

Init ==
  /\ client = "open"
  /\ transports = [o \in Origins |-> None]
  /\ pools = [p \in PoolIds |-> None]
  /\ toClose = {} /\ closeFailed = FALSE /\ overlap = {}
  /\ req = [r \in Requests |-> None]
  /\ cancelled = {}
  /\ outcome = None

NewRequest(url) ==
  [url |-> url, stage |-> "resolving", answers |-> <<>>, pool |-> None,
   conn |-> None, total |-> 0]

\* Up to the name lookup: another method than GET, a credential header or an
\* untrusted URL ends it; a literal address needs no lookup.
Begin(r) ==
  /\ req[r] = None /\ client = "open"
  /\ \E url \in Url :
       /\ url.discovery => url.origin = Issuer
       /\ \/ /\ End(r, url, "refused", 0)
             /\ UNCHANGED <<transports, pools>>
          \/ /\ Trusted(url) /\ Literal[url.origin] = None
             /\ Continue(r, NewRequest(url))
             /\ UNCHANGED <<transports, pools, cancelled>>
          \/ /\ Trusted(url) /\ Literal[url.origin] # None
             /\ Vet(r, [NewRequest(url) EXCEPT !.answers = <<Literal[url.origin]>>])
  /\ UNCHANGED closeVars

\* r is in this stage and its task may go on.
Running(r, stage) == req[r] # None /\ req[r].stage = stage /\ r \notin cancelled

\* The lookup returns.
Resolved(r) ==
  /\ Running(r, "resolving")
  /\ \E answers \in Answers : Vet(r, [req[r] EXCEPT !.answers = answers])
  /\ UNCHANGED closeVars

\* Mutant: the response that is refused is not closed.
RefuseUnread(r) ==
  /\ End(r, req[r].url, "refused", 0)
  /\ UNCHANGED pools

\* A response is closed before the error is raised, its connection with it.
Refuse(r) ==
  /\ End(r, req[r].url, "refused", 0)
  /\ pools' = Released(req[r], FALSE)

\* The response begins: a redirect, an encoding or a length that is not
\* accepted, or a body to read.
Respond(r) ==
  /\ Running(r, "connecting") /\ pools[req[r].pool].open
  /\ \/ Refuse(r)
     \/ /\ Continue(r, [req[r] EXCEPT !.stage = "streaming"])
        /\ UNCHANGED <<pools, cancelled>>
  /\ UNCHANGED <<closeVars, transports>>

\* Mutant: the chunk, not the body so far, is compared with the limit.
ChunkAlone(r) ==
  /\ Running(r, "streaming") /\ pools[req[r].pool].open
  /\ \E n \in 1..(Limit(req[r].url) + 1) :
       \/ /\ n <= Limit(req[r].url)
          /\ Continue(r, [req[r] EXCEPT !.total = n])
          /\ UNCHANGED <<pools, cancelled>>
       \/ /\ n > Limit(req[r].url)
          /\ Refuse(r)
  /\ UNCHANGED <<closeVars, transports>>

\* _BoundedAsyncByteStream: n more bytes, or one chunk too many.
Chunk(r) ==
  /\ Running(r, "streaming") /\ pools[req[r].pool].open
  /\ \E n \in 1..(Limit(req[r].url) + 1) :
       \/ /\ req[r].total + n <= Limit(req[r].url)
          /\ Continue(r, [req[r] EXCEPT !.total = @ + n])
          /\ UNCHANGED <<pools, cancelled>>
       \/ /\ req[r].total + n > Limit(req[r].url)
          /\ Refuse(r)
  /\ UNCHANGED <<closeVars, transports>>

\* The body ends.
Finish(r) ==
  /\ Running(r, "streaming") /\ pools[req[r].pool].open
  /\ End(r, req[r].url, "ok", req[r].total)
  /\ pools' = Released(req[r], TRUE)
  /\ UNCHANGED <<closeVars, transports>>

\* The lookup, the connection or the response fails or times out, or the task
\* was cancelled.
Fail(r) ==
  /\ req[r] # None
  /\ End(r, req[r].url, "failed", 0)
  /\ pools' = Released(req[r], FALSE)
  /\ UNCHANGED <<closeVars, transports>>

-----------------------------------------------------------------------------
(* The client's end, and the environment.                                  *)

\* Mutant: the table is cleared before the list is taken.
CloseBeginCleared ==
  /\ client = "open"
  /\ client' = "closing"
  /\ toClose' = {}
  /\ transports' = [o \in Origins |-> None]
  /\ overlap' = {r \in Requests : req[r] # None} \ cancelled
  /\ outcome' = None
  /\ UNCHANGED <<closeFailed, pools, req, cancelled>>

\* aclose() up to its first await; the client takes no more requests, those
\* under way go on.
CloseBegin ==
  /\ client = "open"
  /\ client' = "closing"
  /\ toClose' = {transports[o] : o \in Origins} \ {None}
  /\ transports' = [o \in Origins |-> None]
  /\ overlap' = {r \in Requests : req[r] # None} \ cancelled
  /\ outcome' = None
  /\ UNCHANGED <<closeFailed, pools, req, cancelled>>

\* One pool of the list is closed, its connections with it.
ClosePool ==
  /\ client = "closing"
  /\ \E p \in toClose :
       /\ toClose' = toClose \ {p}
       /\ pools' = [pools EXCEPT ![p].open = FALSE, ![p].busy = 0, ![p].idle = {}]
  /\ outcome' = None
  /\ UNCHANGED <<client, closeFailed, overlap, transports, req, cancelled>>

\* Closing a pool raises: the rest of the list is left.
ClosePoolFails ==
  /\ client = "closing" /\ toClose # {}
  /\ client' = "closed" /\ closeFailed' = TRUE /\ toClose' = {}
  /\ outcome' = None
  /\ UNCHANGED <<overlap, transports, pools, req, cancelled>>

CloseEnd ==
  /\ client = "closing" /\ toClose = {}
  /\ client' = "closed"
  /\ outcome' = None
  /\ UNCHANGED <<toClose, closeFailed, overlap, transports, pools, req, cancelled>>

\* The server cancels the task of r.
Cancel(r) ==
  /\ req[r] # None /\ r \notin cancelled
  /\ cancelled' = cancelled \cup {r}
  /\ outcome' = None
  /\ UNCHANGED <<closeVars, transports, pools, req>>

\* A connection kept alive is dropped.
Expire ==
  /\ \E p \in Created : \E c \in pools[p].idle :
       pools' = [pools EXCEPT ![p].idle = @ \ {c}]
  /\ outcome' = None
  /\ UNCHANGED <<closeVars, transports, req, cancelled>>

Next ==
  \/ \E r \in Requests :
       \/ Begin(r) \/ Resolved(r) \/ Respond(r) \/ Chunk(r) \/ Finish(r)
       \/ Fail(r) \/ Cancel(r)
  \/ CloseBegin \/ ClosePool \/ ClosePoolFails \/ CloseEnd
  \/ Expire

Spec == Init /\ [][Next]_vars

\* Each operation of a request has a timeout: it goes on or fails.
Fairness ==
  \A r \in Requests :
    WF_vars(Resolved(r) \/ Respond(r) \/ Chunk(r) \/ Finish(r) \/ Fail(r))

FairSpec == Spec /\ Fairness

-----------------------------------------------------------------------------
(* Properties.                                                             *)

\* Every variable keeps its type.
TypeOK ==
  /\ client \in {"open", "closing", "closed"}
  /\ transports \in [Origins -> PoolIds \cup {None}]
  /\ pools \in [PoolIds -> Pool \cup {None}]
  /\ toClose \subseteq Created
  /\ closeFailed \in BOOLEAN /\ overlap \subseteq Requests
  /\ req \in [Requests -> Request \cup {None}]
  /\ cancelled \subseteq {r \in Requests : req[r] # None}
  /\ outcome \in Outcome \cup {None}

Connected(r) == req[r] # None /\ req[r].stage \in {"connecting", "streaming"}

\* Whatever DNS answers to others, before or later, a request is connected to an
\* address of its own lookup, all of whose answers were acceptable; and nothing
\* that is kept alive goes anywhere a request might not.
OnlyVettedConnections ==
  /\ \A r \in Requests : Connected(r) =>
       LET a == AddressesOf(req[r].answers)
       IN  /\ req[r].conn.ip \in a
           /\ \/ AllowLoopback /\ {Class[x] : x \in a} = {"loopback"}
              \/ req[r].url.origin.scheme = "https" /\ {Class[x] : x \in a} = {"global"}
  /\ \A p \in Created : \A c \in pools[p].idle :
       Class[c.ip] = "global" \/ (AllowLoopback /\ Class[c.ip] = "loopback")

\* Origins that share an address do not share connections: a request only uses
\* a connection that was opened for the certificate of its own host.
IdentityKept ==
  \A r \in Requests : Connected(r) => req[r].conn.host = req[r].url.origin.host

\* A pool counts exactly the requests that use it: no refusal, error or
\* cancellation leaves a connection in use for ever.
ConnectionsExact ==
  \A p \in Created : pools[p].open =>
    pools[p].busy = Cardinality({r \in Requests : Connected(r) /\ req[r].pool = p})

\* The pools are never given up, but only trusted origins get one: if those fit
\* into the budget, no request is ever refused for it.
BudgetSuffices ==
  Cardinality(TrustedOrigins) <= MaxHosts =>
    (outcome # None => outcome.result # "budget")

\* Once aclose() has returned, a pool is only open if the request that created
\* it ran, uncancelled, when closing began.  Worker!NoUseAfterClose shows that
\* there is no such request, so nothing stays open.
NoOrphanPools ==
  client = "closed" /\ ~closeFailed =>
    \A p \in Created : pools[p].open => p[2] = "late" /\ pools[p].by \in overlap

\* Every request ends: a peer that sends a byte at a time runs into the limit,
\* one that sends nothing into a timeout.
EveryRequestEnds == \A r \in Requests : req[r] # None ~> req[r] = None
=============================================================================
