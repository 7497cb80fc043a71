------------------------- MODULE OidcTransportProofs -------------------------
(***************************************************************************)
(* Proofs about OidcTransport, for any origins, addresses, resolver and    *)
(* number of requests: connections go where their own lookup was vetted,   *)
(* keep the identity they were opened with and are counted exactly.        *)
(***************************************************************************)
EXTENDS OidcTransport, FiniteSetTheorems, TLAPS

\* The pools of the client before aclose() emptied the table, and after.
Era == IF client = "open" THEN "early" ELSE "late"

\* The table knows each pool of its era, under the origin it was created for.
TableInv ==
  \A o \in Origins :
    /\ transports[o] \in {None, <<o, Era>>}
    /\ transports[o] = None <=> pools[<<o, Era>>] = None
    /\ client = "open" => pools[<<o, "late">>] = None

\* An address a request may be connected to.
Reachable(ip) == Class[ip] = "global" \/ (AllowLoopback /\ Class[ip] = "loopback")

\* What is kept alive is reachable and was opened for the pool's own origin.
IdleInv ==
  \A p \in Created : \A c \in pools[p].idle : c.host = p[1].host /\ Reachable(c.ip)

\* Locals of a request that has a connection: it goes to the first of its own
\* answers, all of which were accepted, in the pool and for the host of its
\* origin.
Placed(q) ==
  /\ q.pool \in PoolIds /\ q.pool[1] = q.url.origin
  /\ q.conn \in Connection /\ q.conn.host = q.url.origin.host
  /\ Acceptable(q.url.origin, q.answers) /\ q.conn.ip = q.answers[1]

Unplaced(q) == q.stage = "resolving" /\ q.pool = None /\ q.conn = None

RequestInv ==
  \A r \in Requests : req[r] # None =>
    \/ Unplaced(req[r])
    \/ Connected(r) /\ Placed(req[r]) /\ req[r].pool \in Created

\* The requests that use a pool.
Users(p) == {r \in Requests : Connected(r) /\ req[r].pool = p}

Core == TableInv /\ IdleInv /\ RequestInv /\ ConnectionsExact

IInv == TypeOK /\ Core

----------------------------------------------------------------------------
\* Users of a pool are finitely many.
LEMMA UsersFinite ==
  ASSUME NEW p
  PROVE  IsFiniteSet(Users(p)) /\ Cardinality(Users(p)) \in Nat
<1>1. Users(p) \subseteq Requests
  BY DEF Users
<1> QED
  BY <1>1, TransportAssumption, FS_Subset, FS_CardinalityType

\* A step that replaces the locals of one request changes the users of its
\* pools in that request only.
LEMMA UsersChange ==
  ASSUME TypeOK, NEW r \in Requests, NEW q \in Request \cup {None},
         req' = [req EXCEPT ![r] = q], NEW p
  PROVE  /\ (q # None /\ q.stage \in {"connecting", "streaming"} /\ q.pool = p) =>
              Users(p)' = Users(p) \cup {r}
         /\ ~(q # None /\ q.stage \in {"connecting", "streaming"} /\ q.pool = p) =>
              Users(p)' = Users(p) \ {r}
<1>1. \A s \in Requests : req'[s] = IF s = r THEN q ELSE req[s]
  BY DEF TypeOK
<1>2. \A s \in Requests : s # r => (Connected(s)' <=> Connected(s)) /\ req'[s] = req[s]
  BY <1>1 DEF Connected
<1>3. Connected(r)' <=> q # None /\ q.stage \in {"connecting", "streaming"}
  BY <1>1 DEF Connected
<1> QED
  BY <1>1, <1>2, <1>3 DEF Users

\* A request that has its connection is a user of its pool and of no other.
LEMMA ConnectedUser ==
  ASSUME TypeOK, NEW r \in Requests, NEW q \in Request,
         q.stage \in {"connecting", "streaming"}, req' = [req EXCEPT ![r] = q]
  PROVE  /\ Users(q.pool)' = Users(q.pool) \cup {r}
         /\ \A p : p # q.pool => Users(p)' = Users(p) \ {r}
<1>1. q \in Request \cup {None} /\ q # None
  BY TransportNoneAssumption
<1>2. Users(q.pool)' = Users(q.pool) \cup {r}
  BY <1>1, UsersChange
<1>3. ASSUME NEW p, p # q.pool PROVE Users(p)' = Users(p) \ {r}
  BY <1>1, <1>3, UsersChange
<1> QED
  BY <1>2, <1>3

\* An address of acceptable answers is reachable.
LEMMA FirstAnswer ==
  ASSUME NEW o \in Origins, NEW answers \in Seq(Addresses), Acceptable(o, answers)
  PROVE  /\ answers[1] \in AddressesOf(answers) /\ answers[1] \in Addresses
         /\ Reachable(answers[1])
<1>1. 1 \in DOMAIN answers
  BY DEF Acceptable
<1>2. answers[1] \in AddressesOf(answers) /\ answers[1] \in Addresses
  BY <1>1 DEF AddressesOf
<1> QED
  BY <1>2 DEF Acceptable, Reachable

----------------------------------------------------------------------------
\* Every initial state satisfies the invariant.
LEMMA InitInvariant == Init => IInv
<1> SUFFICES ASSUME Init PROVE IInv
  OBVIOUS
<1>1. TypeOK
  BY DEF Init, TypeOK, Created
<1>2. TableInv
  BY DEF Init, TableInv, PoolIds, Era
<1>3. Created = {}
  BY DEF Init, Created
<1>4. IdleInv /\ ConnectionsExact
  BY <1>3 DEF IdleInv, ConnectionsExact
<1>5. RequestInv
  BY DEF Init, RequestInv
<1> QED
  BY <1>1, <1>2, <1>4, <1>5 DEF IInv, Core

----------------------------------------------------------------------------
\* A request that ends gives its connection back.
LEMMA ReleaseKeepsCore ==
  ASSUME IInv, NEW r \in Requests, req[r] # None, NEW kept \in BOOLEAN,
         req' = [req EXCEPT ![r] = None], pools' = Released(req[r], kept),
         UNCHANGED <<client, transports>>
  PROVE  Core' /\ pools' \in [PoolIds -> Pool \cup {None}] /\ Created' = Created
<1> DEFINE q == req[r]
           P == q.pool
<1>0. /\ TypeOK /\ TableInv /\ IdleInv /\ RequestInv /\ ConnectionsExact
      /\ q \in Request
  BY DEF IInv, Core, TypeOK
<1>1. \A s \in Requests : req'[s] = IF s = r THEN None ELSE req[s]
  BY <1>0 DEF TypeOK
<1>2. \A p \in PoolIds : Users(p)' = Users(p) \ {r}
  BY <1>0, UsersChange
<1>3. \A s \in Requests : req'[s] # None =>
        s # r /\ req'[s] = req[s] /\ (Connected(s)' <=> Connected(s))
  BY <1>1 DEF Connected
<1>4. CASE q.conn = None \/ ~pools[P].open
  <2>1. pools' = pools /\ Created' = Created
    BY <1>4 DEF Released, Created
  <2>2. TableInv' /\ IdleInv'
    BY <1>0, <2>1 DEF TableInv, IdleInv, Era
  <2>3. RequestInv'
    BY <1>0, <1>3, <2>1 DEF RequestInv
  <2>4. ASSUME NEW p \in Created, pools[p].open
        PROVE  pools[p].busy = Cardinality(Users(p)')
    <3>1. r \notin Users(p)
      BY <1>0, <1>4, <2>4, TransportNoneAssumption
         DEF RequestInv, Users, Unplaced, Placed, Connected
    <3>2. Users(p)' = Users(p)
      BY <1>2, <3>1 DEF Created
    <3> QED
      BY <1>0, <2>4, <3>2 DEF ConnectionsExact, Users
  <2>5. ConnectionsExact'
    BY <2>1, <2>4 DEF ConnectionsExact, Users
  <2> QED
    BY <1>0, <2>1, <2>2, <2>3, <2>5 DEF Core, TypeOK
<1>5. CASE q.conn # None /\ pools[P].open
  <2>1. Connected(r) /\ Placed(q) /\ P \in Created
    BY <1>0, <1>5 DEF RequestInv, Unplaced
  <2>2. P \in PoolIds /\ pools[P] \in Pool /\ q.conn \in Connection
    BY <1>0, <2>1 DEF TypeOK, Created, Placed
  <2>3. PICK new \in Pool :
          /\ pools' = [pools EXCEPT ![P] = new]
          /\ new.open = pools[P].open /\ new.busy = pools[P].busy - 1
          /\ new.idle \subseteq pools[P].idle \cup {q.conn}
    <3>1. /\ r \in Users(P) /\ Cardinality(Users(P)) \in Nat /\ Users(P) # {}
          /\ pools[P].busy = Cardinality(Users(P))
          /\ Cardinality(Users(P) \ {r}) = Cardinality(Users(P)) - 1
          /\ Cardinality(Users(P) \ {r}) \in Nat
      <4>1. r \in Users(P) /\ pools[P].busy = Cardinality(Users(P))
        BY <1>0, <1>5, <2>1 DEF Users, ConnectionsExact
      <4>2. IsFiniteSet(Users(P)) /\ IsFiniteSet(Users(P) \ {r})
        BY UsersFinite, FS_RemoveElement
      <4> QED
        BY <4>1, <4>2, FS_RemoveElement, FS_CardinalityType
    <3> DEFINE n == [pools[P] EXCEPT !.busy = @ - 1,
                       !.idle = IF kept THEN @ \cup {q.conn} ELSE @]
    <3>2. n \in Pool
      BY <2>2, <3>1 DEF Pool
    <3>3. /\ n.open = pools[P].open /\ n.busy = pools[P].busy - 1
          /\ n.idle \subseteq pools[P].idle \cup {q.conn}
      BY <2>2 DEF Pool
    <3>4. pools' = [pools EXCEPT ![P] = n]
      BY <1>0, <1>5, <2>2 DEF Released, TypeOK, Pool
    <3> QED
      BY <3>2, <3>3, <3>4
  <2>4. /\ pools' \in [PoolIds -> Pool \cup {None}] /\ Created' = Created
        /\ \A p \in PoolIds : pools'[p] = IF p = P THEN new ELSE pools[p]
    BY <1>0, <2>1, <2>2, <2>3, TransportNoneAssumption DEF TypeOK, Created
  <2>5. \A p \in PoolIds : pools'[p] = None <=> pools[p] = None
    BY <2>4 DEF Created
  <2>6. TableInv'
    BY <1>0, <2>5 DEF TableInv, Era, PoolIds
  <2>7. q.conn.host = P[1].host /\ Reachable(q.conn.ip)
    BY <1>0, <2>1, FirstAnswer DEF Placed, Request, Url
  <2>8. IdleInv'
    BY <1>0, <2>1, <2>3, <2>4, <2>7 DEF IdleInv, Created, Reachable
  <2>9. RequestInv'
    BY <1>0, <1>3, <2>4 DEF RequestInv
  <2>10. ASSUME NEW p \in Created, pools'[p].open
         PROVE  pools'[p].busy = Cardinality(Users(p)')
    <3>1. p \in PoolIds /\ Users(p)' = Users(p) \ {r}
      BY <1>2 DEF Created
    <3>2. CASE p = P
      <4>1. r \in Users(p) /\ pools[p].busy = Cardinality(Users(p))
        BY <1>0, <1>5, <2>1, <3>2 DEF Users, ConnectionsExact
      <4>2. Cardinality(Users(p) \ {r}) = Cardinality(Users(p)) - 1
        BY <4>1, UsersFinite, FS_RemoveElement
      <4> QED
        BY <2>3, <2>4, <3>1, <3>2, <4>1, <4>2
    <3>3. CASE p # P
      <4>1. Users(p)' = Users(p)
        <5>1. r \notin Users(p)
          BY <3>3 DEF Users
        <5> QED
          BY <3>1, <5>1
      <4>2. pools'[p] = pools[p]
        BY <2>4, <3>1, <3>3
      <4>3. pools[p].busy = Cardinality(Users(p))
        BY <1>0, <2>10, <4>2 DEF ConnectionsExact, Users
      <4> QED
        BY <4>1, <4>2, <4>3
    <3> QED
      BY <3>2, <3>3
  <2>11. ConnectionsExact'
    BY <2>4, <2>10 DEF ConnectionsExact, Users
  <2> QED
    BY <2>4, <2>6, <2>8, <2>9, <2>11 DEF Core
<1> QED
  BY <1>4, <1>5

\* What taking a connection makes of a pool.
LEMMA PoolWithOneMore ==
  ASSUME NEW pool \in Pool, NEW c
  PROVE  LET n == [pool EXCEPT !.busy = @ + 1, !.idle = @ \ {c}]
         IN  /\ n \in Pool /\ n.open = pool.open /\ n.busy = pool.busy + 1
             /\ n.idle \subseteq pool.idle
<1>1. pool.busy + 1 \in Nat /\ pool.idle \ {c} \in SUBSET Connection
  BY DEF Pool
<1>2. ASSUME NEW b \in Nat, NEW i \in SUBSET Connection
      PROVE  LET n == [pool EXCEPT !.busy = b, !.idle = i]
             IN  n \in Pool /\ n.open = pool.open /\ n.busy = b /\ n.idle = i
  BY DEF Pool
<1> DEFINE b == pool.busy + 1
           i == pool.idle \ {c}
           n == [pool EXCEPT !.busy = b, !.idle = i]
<1>3. b \in Nat /\ i \in SUBSET Connection /\ i \subseteq pool.idle
  BY <1>1
<1>4. n \in Pool /\ n.open = pool.open /\ n.busy = b /\ n.idle = i
  <2> HIDE DEF b, i
  <2> QED
    BY <1>2, <1>3
<1>5. n \in Pool /\ n.open = pool.open /\ n.busy = b /\ n.idle \subseteq pool.idle
  <2> HIDE DEF n, b, i
  <2> QED
    BY <1>3, <1>4
<1> QED
  BY <1>5

\* A vetted request takes a connection of a pool that was found or created.
LEMMA ConnectKeepsCore ==
  ASSUME IInv, NEW r \in Requests, NEW q \in Request,
         req[r] = None \/ Unplaced(req[r]),
         Acceptable(q.url.origin, q.answers),
         NEW p \in PoolIds, p[1] = q.url.origin, NEW pool \in Pool,
         \/ p \in Created /\ pool = pools[p] /\ transports' = transports
         \/ /\ pools[p] = None /\ p[2] = Era
            /\ pool.open /\ pool.busy = 0 /\ pool.idle = {}
            /\ transports' = [transports EXCEPT ![q.url.origin] = p],
         Connect(r, q, p, pool), client' = client
  PROVE  /\ Core' /\ pools' \in [PoolIds -> Pool \cup {None}] /\ Created' = Created \cup {p}
         /\ req' \in [Requests -> Request \cup {None}] /\ req'[r] # None
         /\ transports' \in [Origins -> PoolIds \cup {None}]
<1> DEFINE o == q.url.origin
<1>0. /\ TypeOK /\ TableInv /\ IdleInv /\ RequestInv /\ ConnectionsExact
      /\ o \in Origins /\ q.answers \in Seq(Addresses) /\ p[1] = o
  BY DEF IInv, Core, Request, Url
<1>1. PICK c \in Connection, q2 \in Request, n \in Pool :
        /\ req' = [req EXCEPT ![r] = q2] /\ pools' = [pools EXCEPT ![p] = n]
        /\ q2.url = q.url /\ q2.answers = q.answers /\ q2.stage = "connecting"
        /\ q2.pool = p /\ q2.conn = c
        /\ c.ip = q.answers[1] /\ c.host = o.host
        /\ n.open = pool.open /\ n.busy = pool.busy + 1 /\ n.idle \subseteq pool.idle
  <2> DEFINE kept  == {d \in pool.idle : d.ip = q.answers[1]}
             fresh == [ip |-> q.answers[1], host |-> o.host]
  <2>1. PICK c \in (IF kept = {} THEN {fresh} ELSE kept) :
          /\ Continue(r, [q EXCEPT !.stage = "connecting", !.pool = p, !.conn = c])
          /\ pools' = [pools EXCEPT ![p] = [pool EXCEPT !.busy = @ + 1, !.idle = @ \ {c}]]
    BY DEF Connect
  <2>2. c \in Connection /\ c.ip = q.answers[1] /\ c.host = o.host
    <3>1. CASE kept = {}
      <4>1. q.answers[1] \in Addresses
        BY <1>0, FirstAnswer
      <4> QED
        BY <1>0, <2>1, <3>1, <4>1 DEF Connection
    <3>2. CASE kept # {}
      <4>1. c \in pool.idle /\ c.ip = q.answers[1] /\ pool.idle \subseteq Connection
        BY <2>1, <3>2 DEF Pool
      <4>2. p \in Created /\ pool = pools[p]
        BY <4>1
      <4> QED
        BY <1>0, <4>1, <4>2 DEF IdleInv
    <3> QED
      BY <3>1, <3>2
  <2> DEFINE q2 == [q EXCEPT !.stage = "connecting", !.pool = p, !.conn = c]
             n  == [pool EXCEPT !.busy = @ + 1, !.idle = @ \ {c}]
  <2>3. /\ q2 \in Request
        /\ q2.url = q.url /\ q2.answers = q.answers /\ q2.stage = "connecting"
        /\ q2.pool = p /\ q2.conn = c
    BY <2>2 DEF Request
  <2>4. n \in Pool /\ n.open = pool.open /\ n.busy = pool.busy + 1 /\ n.idle \subseteq pool.idle
    BY PoolWithOneMore
  <2>5. req' = [req EXCEPT ![r] = q2] /\ pools' = [pools EXCEPT ![p] = n]
    BY <2>1 DEF Continue
  <2> HIDE DEF q2, n
  <2> QED
    BY <2>2, <2>3, <2>4, <2>5
<1>2. /\ req' \in [Requests -> Request \cup {None}]
      /\ \A s \in Requests : req'[s] = IF s = r THEN q2 ELSE req[s]
  BY <1>0, <1>1 DEF TypeOK
<1>3. /\ pools' \in [PoolIds -> Pool \cup {None}]
      /\ \A x \in PoolIds : pools'[x] = IF x = p THEN n ELSE pools[x]
  BY <1>0, <1>1 DEF TypeOK
<1>4. n # None /\ q2 # None /\ c # None /\ p # None
  BY <1>1, TransportNoneAssumption
<1>5. Created' = Created \cup {p}
  BY <1>3, <1>4 DEF Created
<1>6. transports' \in [Origins -> PoolIds \cup {None}] /\ TableInv'
  <2>1. CASE p \in Created /\ transports' = transports
    <3>1. \A x \in PoolIds : pools'[x] = None <=> pools[x] = None
      BY <1>3, <1>4, <2>1 DEF Created
    <3> QED
      BY <1>0, <2>1, <3>1 DEF TableInv, TypeOK, Era, PoolIds
  <2>2. CASE /\ pools[p] = None /\ p[2] = Era
             /\ transports' = [transports EXCEPT ![o] = p]
    <3>1. p = <<o, Era>>
      BY <1>0, <2>2 DEF PoolIds
    <3>2. /\ transports' \in [Origins -> PoolIds \cup {None}]
          /\ \A y \in Origins : transports'[y] = IF y = o THEN p ELSE transports[y]
      BY <1>0, <2>2 DEF TypeOK
    <3>3. ASSUME NEW y \in Origins
          PROVE  /\ transports'[y] \in {None, <<y, Era>>}
                 /\ transports'[y] = None <=> pools'[<<y, Era>>] = None
      <4>1. <<y, Era>> \in PoolIds
        BY DEF PoolIds, Era
      <4>2. pools'[<<y, Era>>] = IF <<y, Era>> = p THEN n ELSE pools[<<y, Era>>]
        BY <1>3, <4>1
      <4>3. <<y, Era>> = p <=> y = o
        BY <3>1
      <4>4. transports'[y] = IF y = o THEN p ELSE transports[y]
        BY <3>2
      <4>5. /\ transports[y] \in {None, <<y, Era>>}
            /\ transports[y] = None <=> pools[<<y, Era>>] = None
        BY <1>0 DEF TableInv
      <4> QED
        BY <1>4, <3>1, <4>2, <4>3, <4>4, <4>5
    <3>4. ASSUME NEW y \in Origins, client = "open"
          PROVE  pools'[<<y, "late">>] = None
      <4>1. <<y, "late">> \in PoolIds /\ <<y, "late">> # p
        BY <3>1, <3>4 DEF PoolIds, Era
      <4> QED
        BY <1>0, <1>3, <3>4, <4>1 DEF TableInv
    <3> QED
      BY <3>2, <3>3, <3>4 DEF TableInv, Era
  <2> QED
    BY <2>1, <2>2
<1>7. IdleInv'
  <2>1. \A d \in n.idle : d.host = p[1].host /\ Reachable(d.ip)
    BY <1>0, <1>1 DEF IdleInv
  <2> QED
    BY <1>0, <1>3, <1>5, <2>1 DEF IdleInv, Created, Reachable
<1>8. RequestInv'
  <2>1. Placed(q2) /\ q2.stage = "connecting"
    BY <1>0, <1>1 DEF Placed
  <2>2. ASSUME NEW s \in Requests, req'[s] # None
        PROVE  \/ Unplaced(req'[s])
               \/ Connected(s)' /\ Placed(req'[s]) /\ req'[s].pool \in Created'
    BY <1>0, <1>1, <1>2, <1>4, <1>5, <2>1, <2>2 DEF RequestInv, Connected
  <2> QED
    BY <2>2 DEF RequestInv, Placed, Unplaced
<1>9. ConnectionsExact'
  <2>0. /\ Users(p)' = Users(p) \cup {r}
        /\ \A x : x # p => Users(x)' = Users(x) \ {r}
    <3>1. TypeOK
      BY <1>0
    <3>2. q2.stage \in {"connecting", "streaming"} /\ q2.pool = p
      BY <1>1
    <3>3. req' = [req EXCEPT ![r] = q2]
      BY <1>1
    <3>4. /\ Users(q2.pool)' = Users(q2.pool) \cup {r}
          /\ \A x : x # q2.pool => Users(x)' = Users(x) \ {r}
      BY <3>1, <3>2, <3>3, ConnectedUser
    <3> QED
      BY <3>2, <3>4
  <2>1. r \notin Users(p)
    BY <1>0 DEF Users, Connected, Unplaced
  <2>2. ASSUME NEW x \in Created', pools'[x].open
        PROVE  pools'[x].busy = Cardinality(Users(x)')
    <3>1. CASE x = p
      <4>1. Users(p)' = Users(p) \cup {r}
        BY <2>0
      <4>2. Cardinality(Users(p) \cup {r}) = Cardinality(Users(p)) + 1
        BY <2>1, UsersFinite, FS_AddElement
      <4>3. pool.busy = Cardinality(Users(p))
        <5>1. CASE p \in Created /\ pool = pools[p]
          BY <1>0, <1>1, <1>3, <2>2, <3>1, <5>1 DEF ConnectionsExact, Users
        <5>2. CASE pools[p] = None /\ pool.busy = 0
          <6>1. Users(p) = {}
            BY <1>0, <5>2 DEF Users, RequestInv, Created, Unplaced, Connected
          <6> QED
            BY <5>2, <6>1, FS_EmptySet
        <5> QED
          BY <5>1, <5>2
      <4> QED
        BY <1>1, <1>3, <3>1, <4>1, <4>2, <4>3
    <3>2. CASE x # p
      <4>1. x \in Created /\ x \in PoolIds /\ pools'[x] = pools[x]
        BY <1>3, <1>5, <2>2, <3>2 DEF Created
      <4>2. Users(x)' = Users(x)
        <5>1. Users(x)' = Users(x) \ {r}
          BY <2>0, <3>2
        <5>2. r \notin Users(x)
          BY <1>0 DEF Users, Connected, Unplaced
        <5> QED
          BY <5>1, <5>2
      <4>3. pools[x].busy = Cardinality(Users(x))
        BY <1>0, <2>2, <4>1 DEF ConnectionsExact, Users
      <4> QED
        BY <4>1, <4>2, <4>3
    <3> QED
      BY <3>1, <3>2
  <2> QED
    BY <2>2 DEF ConnectionsExact, Users
<1>10. req'[r] # None
  BY <1>2, <1>4
<1> QED
  BY <1>2, <1>3, <1>5, <1>6, <1>7, <1>8, <1>9, <1>10 DEF Core

\* A request that goes on with its connection keeps its place.
LEMMA StayKeepsCore ==
  ASSUME IInv, NEW r \in Requests, Connected(r), NEW q \in Request,
         q.stage = "streaming", q.url = req[r].url, q.answers = req[r].answers,
         q.pool = req[r].pool, q.conn = req[r].conn,
         req' = [req EXCEPT ![r] = q], UNCHANGED <<client, transports, pools>>
  PROVE  Core' /\ req' \in [Requests -> Request \cup {None}] /\ req'[r] # None
<1>0. /\ TypeOK /\ TableInv /\ IdleInv /\ RequestInv /\ ConnectionsExact
      /\ q # None /\ req[r] # None /\ Created' = Created
  BY TransportNoneAssumption DEF IInv, Core, Connected, Created
<1>1. /\ req' \in [Requests -> Request \cup {None}]
      /\ \A s \in Requests : req'[s] = IF s = r THEN q ELSE req[s]
  BY <1>0 DEF TypeOK
<1>2. TableInv' /\ IdleInv'
  BY <1>0 DEF TableInv, IdleInv, Era
<1>3. ASSUME NEW s \in Requests, req'[s] # None
      PROVE  \/ Unplaced(req'[s])
             \/ Connected(s)' /\ Placed(req'[s]) /\ req'[s].pool \in Created'
  <2>1. Placed(req[r]) /\ req[r].pool \in Created
    BY <1>0 DEF RequestInv, Connected, Unplaced
  <2>2. Placed(q) /\ q.pool \in Created
    BY <2>1 DEF Placed
  <2> QED
    BY <1>0, <1>1, <1>3, <2>2 DEF RequestInv, Connected
<1>4. RequestInv'
  BY <1>3 DEF RequestInv, Unplaced, Placed
<1>5. ASSUME NEW p PROVE Users(p)' = Users(p)
  <2>1. q.pool = p <=> r \in Users(p)
    BY DEF Users
  <2>2. /\ Users(q.pool)' = Users(q.pool) \cup {r}
        /\ \A x : x # q.pool => Users(x)' = Users(x) \ {r}
    <3>1. TypeOK
      BY <1>0
    <3> QED
      BY <3>1, ConnectedUser
  <2> QED
    BY <2>1, <2>2
<1>6. ConnectionsExact'
  <2>1. \A p \in Created : pools[p].open => pools[p].busy = Cardinality(Users(p))
    BY <1>0 DEF ConnectionsExact, Users
  <2>2. \A p \in Created' : pools'[p].open => pools'[p].busy = Cardinality(Users(p)')
    BY <1>0, <1>5, <2>1
  <2> QED
    BY <2>2 DEF ConnectionsExact, Users
<1> QED
  BY <1>0, <1>1, <1>2, <1>4, <1>6 DEF Core

\* A request that ends, with or without a connection, keeps the invariant.
LEMMA EndInvariant ==
  ASSUME IInv, NEW r \in Requests, NEW url \in Url, NEW total \in Nat,
         NEW result \in {"ok", "refused", "budget", "failed"},
         End(r, url, result, total), UNCHANGED <<closeVars, transports>>,
         \/ req[r] # None /\ \E kept \in BOOLEAN : pools' = Released(req[r], kept)
         \/ (req[r] = None \/ Unplaced(req[r])) /\ pools' = pools
  PROVE  IInv'
<1>0. TypeOK /\ Core /\ req' = [req EXCEPT ![r] = None] /\ client' = client
  BY DEF IInv, End, closeVars
<1>1. Core' /\ pools' \in [PoolIds -> Pool \cup {None}] /\ Created' = Created
  <2>1. CASE req[r] # None /\ \E kept \in BOOLEAN : pools' = Released(req[r], kept)
    BY <1>0, <2>1, ReleaseKeepsCore
  <2>2. CASE req[r] # None /\ Unplaced(req[r]) /\ pools' = pools
    <3>1. pools' = Released(req[r], FALSE)
      BY <2>2 DEF Released, Unplaced
    <3> QED
      BY <1>0, <2>2, <3>1, ReleaseKeepsCore
  <2>3. CASE req[r] = None /\ pools' = pools
    <3>1. req' = req
      BY <1>0, <2>3 DEF TypeOK
    <3> QED
      BY <1>0, <2>3, <3>1 DEF Core, TableInv, IdleInv, RequestInv, ConnectionsExact, TypeOK,
         Created, Connected, Era
  <2> QED
    BY <2>1, <2>2, <2>3
<1>2. TypeOK'
  <2>1. /\ req' \in [Requests -> Request \cup {None}]
        /\ cancelled' \subseteq {s \in Requests : req'[s] # None}
    BY <1>0 DEF End, TypeOK
  <2>2. outcome' \in Outcome
    BY DEF End, Outcome
  <2> QED
    BY <1>0, <1>1, <2>1, <2>2 DEF TypeOK, closeVars
<1> QED
  BY <1>1, <1>2 DEF IInv

\* Judging the answers and finding, refusing or creating a pool.
LEMMA VetInvariant ==
  ASSUME IInv, NEW r \in Requests, NEW q \in Request,
         req[r] = None \/ Unplaced(req[r]), Vet(r, q), UNCHANGED closeVars
  PROVE  IInv'
<1> DEFINE o == q.url.origin
           p == <<o, IF client = "open" THEN "early" ELSE "late">>
           new == [open |-> TRUE, busy |-> 0, idle |-> {},
                   by |-> IF client = "open" THEN None ELSE r]
<1>0. /\ TypeOK /\ TableInv /\ q.url \in Url /\ o \in Origins
      /\ client' = client
  BY DEF IInv, Core, Request, Url, closeVars
<1>1. ASSUME NEW result \in {"refused", "budget"}, End(r, q.url, result, 0),
             UNCHANGED <<transports, pools>>
      PROVE  IInv'
  BY <1>0, <1>1, EndInvariant
<1>2. ASSUME Core', pools' \in [PoolIds -> Pool \cup {None}], NEW x, Created' = Created \cup {x},
             req' \in [Requests -> Request \cup {None}], req'[r] # None,
             \A s \in Requests : s # r => req'[s] = req[s],
             transports' \in [Origins -> PoolIds \cup {None}],
             outcome' = None, cancelled' = cancelled
      PROVE  IInv'
  <2>1. cancelled' \subseteq {s \in Requests : req'[s] # None}
    BY <1>0, <1>2 DEF TypeOK
  <2> QED
    BY <1>0, <1>2, <2>1 DEF IInv, TypeOK, closeVars
<1>3. ASSUME NEW x \in PoolIds, NEW pool, Connect(r, q, x, pool)
      PROVE  /\ outcome' = None /\ \A s \in Requests : s # r => req'[s] = req[s]
  BY <1>0, <1>3 DEF Connect, Continue, TypeOK
<1>4. CASE /\ Acceptable(o, q.answers) /\ PoolKey(q) # {}
           /\ \E found \in PoolKey(q) : Connect(r, q, found, pools[found])
           /\ UNCHANGED <<transports, cancelled>>
  <2>1. PICK x \in PoolKey(q) : Connect(r, q, x, pools[x])
    BY <1>4
  <2>2. x \in PoolIds /\ x[1] = o /\ x \in Created /\ pools[x] \in Pool
    <3>1. x = transports[o] /\ x # None
      BY <2>1 DEF PoolKey
    <3>2. x = <<o, Era>> /\ pools[<<o, Era>>] # None
      BY <1>0, <3>1 DEF TableInv
    <3>3. x \in PoolIds
      BY <1>0, <3>2 DEF PoolIds, Era
    <3>4. pools[x] \in Pool
      BY <1>0, <3>2, <3>3 DEF TypeOK
    <3> QED
      BY <3>2, <3>3, <3>4 DEF Created
  <2>3. /\ Core' /\ pools' \in [PoolIds -> Pool \cup {None}] /\ Created' = Created \cup {x}
        /\ req' \in [Requests -> Request \cup {None}] /\ req'[r] # None
        /\ transports' \in [Origins -> PoolIds \cup {None}]
    BY <1>0, <1>4, <2>1, <2>2, ConnectKeepsCore
  <2> QED
    BY <1>2, <1>3, <1>4, <2>1, <2>2, <2>3
<1>5. CASE /\ Acceptable(o, q.answers) /\ PoolKey(q) = {}
           /\ transports' = [transports EXCEPT ![o] = p]
           /\ Connect(r, q, p, new)
           /\ UNCHANGED cancelled
  <2>1. p \in PoolIds /\ p[1] = o /\ p[2] = Era
    BY <1>0 DEF PoolIds, Era
  <2>2. pools[p] = None
    BY <1>0, <1>5 DEF PoolKey, TableInv, Era
  <2>3. new \in Pool /\ new.open /\ new.busy = 0 /\ new.idle = {}
    BY DEF Pool
  <2> HIDE DEF p, new
  <2>4. /\ Core' /\ pools' \in [PoolIds -> Pool \cup {None}] /\ Created' = Created \cup {p}
        /\ req' \in [Requests -> Request \cup {None}] /\ req'[r] # None
        /\ transports' \in [Origins -> PoolIds \cup {None}]
    BY <1>0, <1>5, <2>1, <2>2, <2>3, ConnectKeepsCore
  <2> QED
    BY <1>2, <1>3, <1>5, <2>1, <2>4
<1> QED
  BY <1>1, <1>4, <1>5 DEF Vet

----------------------------------------------------------------------------
\* A request that begins is a request.
LEMMA NewRequestType ==
  ASSUME NEW url \in Url
  PROVE  NewRequest(url) \in Request /\ Unplaced(NewRequest(url))
BY DEF NewRequest, Request, Unplaced

\* Steps of a request keep the invariant.
LEMMA RequestInvariant ==
  ASSUME IInv, NEW r \in Requests,
         Begin(r) \/ Resolved(r) \/ Respond(r) \/ Chunk(r) \/ Finish(r) \/ Fail(r) \/ Cancel(r)
  PROVE  IInv'
<1> DEFINE q == req[r]
<1>0. /\ TypeOK /\ Core /\ RequestInv
      /\ q # None => q \in Request /\ q.url \in Url /\ q.total \in Nat
  BY DEF IInv, Core, TypeOK, Request
<1>1. CASE Begin(r)
  <2>1. PICK url \in Url :
          \/ End(r, url, "refused", 0) /\ UNCHANGED <<transports, pools>>
          \/ /\ Continue(r, NewRequest(url))
             /\ UNCHANGED <<transports, pools, cancelled>>
          \/ /\ Literal[url.origin] # None
             /\ Vet(r, [NewRequest(url) EXCEPT !.answers = <<Literal[url.origin]>>])
    BY <1>1 DEF Begin
  <2>2. req[r] = None /\ UNCHANGED closeVars
    BY <1>1 DEF Begin
  <2>3. CASE End(r, url, "refused", 0) /\ UNCHANGED <<transports, pools>>
    BY <2>2, <2>3, EndInvariant
  <2>4. CASE Continue(r, NewRequest(url)) /\ UNCHANGED <<transports, pools, cancelled>>
    <3> DEFINE new == NewRequest(url)
    <3>1. new \in Request /\ Unplaced(new) /\ new # None
      BY NewRequestType, TransportNoneAssumption
    <3>2. /\ req' = [req EXCEPT ![r] = new] /\ outcome' = None
          /\ Created' = Created /\ client' = client
      BY <2>2, <2>4 DEF Continue, Created, closeVars
    <3> HIDE DEF new
    <3>3. \A s \in Requests : req'[s] = IF s = r THEN new ELSE req[s]
      BY <1>0, <3>2 DEF TypeOK
    <3>4. TypeOK'
      <4>1. req' \in [Requests -> Request \cup {None}]
        BY <1>0, <3>1, <3>2 DEF TypeOK
      <4>2. cancelled' \subseteq {s \in Requests : req'[s] # None}
        BY <1>0, <2>4, <3>1, <3>3 DEF TypeOK
      <4> QED
        BY <1>0, <2>2, <2>4, <3>2, <4>1, <4>2 DEF TypeOK, closeVars
    <3>5. TableInv' /\ IdleInv'
      BY <1>0, <2>4, <3>2 DEF Core, TableInv, IdleInv, Era
    <3>6. RequestInv'
      <4>1. ASSUME NEW s \in Requests, req'[s] # None
            PROVE  \/ Unplaced(req'[s])
                   \/ Connected(s)' /\ Placed(req'[s]) /\ req'[s].pool \in Created'
        <5>1. CASE s = r
          BY <3>1, <3>3, <5>1
        <5>2. CASE s # r
          <6>1. req'[s] = req[s] /\ (Connected(s)' <=> Connected(s))
            BY <3>3, <5>2 DEF Connected
          <6> QED
            BY <1>0, <3>2, <4>1, <6>1 DEF RequestInv
        <5> QED
          BY <5>1, <5>2
      <4> QED
        BY <4>1 DEF RequestInv, Unplaced, Placed
    <3>7. ASSUME NEW p PROVE Users(p)' = Users(p)
      <4>1. r \notin Users(p)
        BY <2>2 DEF Users, Connected
      <4>2. Users(p)' = Users(p) \ {r}
        BY <1>0, <3>1, <3>2, UsersChange DEF Unplaced
      <4> QED
        BY <4>1, <4>2
    <3>8. ConnectionsExact'
      <4>1. \A p \in Created : pools[p].open => pools[p].busy = Cardinality(Users(p))
        BY <1>0 DEF Core, ConnectionsExact, Users
      <4>2. \A p \in Created' : pools'[p].open => pools'[p].busy = Cardinality(Users(p)')
        BY <2>4, <3>2, <3>7, <4>1
      <4> QED
        BY <4>2 DEF ConnectionsExact, Users
    <3> QED
      BY <3>4, <3>5, <3>6, <3>8 DEF IInv, Core
  <2>5. CASE /\ Literal[url.origin] # None
             /\ Vet(r, [NewRequest(url) EXCEPT !.answers = <<Literal[url.origin]>>])
    <3> DEFINE new == [NewRequest(url) EXCEPT !.answers = <<Literal[url.origin]>>]
    <3>1. <<Literal[url.origin]>> \in Seq(Addresses)
      BY <2>5, TransportAssumption DEF Url
    <3>2. new \in Request
      <4> DEFINE first == NewRequest(url)
                 a     == <<Literal[url.origin]>>
      <4>1. first \in Request /\ a \in Seq(Addresses)
        BY <3>1, NewRequestType
      <4>2. new = [first EXCEPT !.answers = a]
        OBVIOUS
      <4> HIDE DEF first, a, new
      <4> QED
        BY <4>1, <4>2 DEF Request
    <3> HIDE DEF new
    <3> QED
      BY <2>2, <2>5, <3>2, VetInvariant DEF new
  <2> QED
    BY <2>1, <2>3, <2>4, <2>5
<1>2. CASE Resolved(r)
  <2>1. PICK answers \in Answers : Vet(r, [q EXCEPT !.answers = answers])
    BY <1>2 DEF Resolved
  <2>2. UNCHANGED closeVars /\ q # None /\ Unplaced(q)
    BY <1>0, <1>2 DEF Resolved, Running, RequestInv, Connected
  <2> DEFINE new == [q EXCEPT !.answers = answers]
  <2>3. new \in Request
    BY <1>0, <2>1, <2>2, TransportAssumption DEF Request
  <2> HIDE DEF new
  <2> QED
    BY <2>1, <2>2, <2>3, VetInvariant DEF new
<1>3. ASSUME Refuse(r), q # None, UNCHANGED <<closeVars, transports>>
      PROVE  IInv'
  BY <1>0, <1>3, EndInvariant DEF Refuse
<1>4. ASSUME NEW new \in Request, Continue(r, new), Connected(r),
             new.stage = "streaming", new.url = q.url, new.answers = q.answers,
             new.pool = q.pool, new.conn = q.conn,
             UNCHANGED <<closeVars, transports, pools, cancelled>>
      PROVE  IInv'
  <2>1. Core' /\ req' \in [Requests -> Request \cup {None}] /\ req'[r] # None
    BY <1>4, StayKeepsCore DEF Continue, closeVars
  <2>2. cancelled' \subseteq {s \in Requests : req'[s] # None}
    BY <1>0, <1>4, <2>1 DEF TypeOK, Continue
  <2>3. TypeOK'
    BY <1>0, <1>4, <2>1, <2>2 DEF TypeOK, Continue, closeVars, Created
  <2> QED
    BY <2>1, <2>3 DEF IInv
<1>5. CASE Respond(r)
  <2>1. q # None /\ Connected(r) /\ UNCHANGED <<closeVars, transports>>
    BY <1>5 DEF Respond, Running, Connected
  <2> DEFINE new == [q EXCEPT !.stage = "streaming"]
  <2>2. CASE Continue(r, new) /\ UNCHANGED <<pools, cancelled>>
    <3>1. /\ new \in Request /\ new.stage = "streaming" /\ new.url = q.url
          /\ new.answers = q.answers /\ new.pool = q.pool /\ new.conn = q.conn
      BY <1>0, <2>1 DEF Request
    <3> HIDE DEF new
    <3> QED
      BY <1>4, <2>1, <2>2, <3>1
  <2> QED
    BY <1>3, <1>5, <2>1, <2>2 DEF Respond
<1>6. CASE Chunk(r)
  <2>1. q # None /\ Connected(r) /\ q.stage = "streaming" /\ UNCHANGED <<closeVars, transports>>
    BY <1>6 DEF Chunk, Running, Connected
  <2>2. PICK n \in 1..(Limit(q.url) + 1) :
          \/ Continue(r, [q EXCEPT !.total = @ + n]) /\ UNCHANGED <<pools, cancelled>>
          \/ Refuse(r)
    BY <1>6 DEF Chunk
  <2> DEFINE new == [q EXCEPT !.total = @ + n]
  <2>3. CASE Continue(r, new) /\ UNCHANGED <<pools, cancelled>>
    <3>1. /\ new \in Request /\ new.stage = "streaming" /\ new.url = q.url
          /\ new.answers = q.answers /\ new.pool = q.pool /\ new.conn = q.conn
      BY <1>0, <2>1 DEF Request
    <3> HIDE DEF new
    <3> QED
      BY <1>4, <2>1, <2>3, <3>1
  <2> QED
    BY <1>3, <2>1, <2>2, <2>3
<1>7. CASE Finish(r)
  BY <1>0, <1>7, EndInvariant DEF Finish, Running
<1>8. CASE Fail(r)
  BY <1>0, <1>8, EndInvariant DEF Fail
<1>9. CASE Cancel(r)
  <2>1. TypeOK'
    BY <1>0, <1>9 DEF TypeOK, Cancel, closeVars, Created
  <2>2. Core'
    BY <1>0, <1>9 DEF Core, TableInv, IdleInv, RequestInv, ConnectionsExact, Cancel, closeVars,
       Created, Connected, Era
  <2> QED
    BY <2>1, <2>2 DEF IInv
<1> QED
  BY <1>1, <1>2, <1>5, <1>6, <1>7, <1>8, <1>9

----------------------------------------------------------------------------
\* Closing a pool, or dropping a connection it keeps, changes nobody's locals:
\* a pool that stays open keeps its count.
LEMMA PoolStepKeepsCore ==
  ASSUME IInv, NEW p \in Created, NEW new \in Pool,
         pools' = [pools EXCEPT ![p] = new], new.idle \subseteq pools[p].idle,
         new.open => pools[p].open /\ new.busy = pools[p].busy,
         UNCHANGED <<client, transports, req>>
  PROVE  Core' /\ pools' \in [PoolIds -> Pool \cup {None}] /\ Created' = Created
<1>0. /\ TypeOK /\ TableInv /\ IdleInv /\ RequestInv /\ ConnectionsExact
      /\ p \in PoolIds /\ pools[p] # None /\ new # None
  BY TransportNoneAssumption DEF IInv, Core, Created
<1>1. /\ pools' \in [PoolIds -> Pool \cup {None}]
      /\ \A x \in PoolIds : pools'[x] = IF x = p THEN new ELSE pools[x]
  BY <1>0 DEF TypeOK
<1>2. \A x \in PoolIds : pools'[x] = None <=> pools[x] = None
  BY <1>0, <1>1
<1>3. Created' = Created
  BY <1>2 DEF Created
<1>4. TableInv'
  <2>1. Era' = Era /\ client' = client /\ transports' = transports
    BY DEF Era
  <2>2. ASSUME NEW o \in Origins
        PROVE  /\ pools'[<<o, Era>>] = None <=> pools[<<o, Era>>] = None
               /\ pools'[<<o, "late">>] = None <=> pools[<<o, "late">>] = None
    <3>1. <<o, Era>> \in PoolIds /\ <<o, "late">> \in PoolIds
      BY DEF PoolIds, Era
    <3> QED
      BY <1>2, <3>1
  <2> QED
    BY <1>0, <2>1, <2>2 DEF TableInv
<1>5. IdleInv'
  <2>1. ASSUME NEW x \in Created, NEW c \in pools'[x].idle
        PROVE  c \in pools[x].idle
    BY <1>1, <2>1 DEF Created
  <2> QED
    BY <1>0, <1>3, <2>1 DEF IdleInv, Reachable
<1>6. RequestInv'
  BY <1>0, <1>3 DEF RequestInv, Connected, Unplaced, Placed
<1>7. ConnectionsExact'
  <2>1. ASSUME NEW x \in Created, pools'[x].open
        PROVE  pools[x].open /\ pools'[x].busy = pools[x].busy
    BY <1>1, <2>1 DEF Created
  <2> QED
    BY <1>0, <1>3, <2>1 DEF ConnectionsExact, Connected
<1> QED
  BY <1>1, <1>3, <1>4, <1>5, <1>6, <1>7 DEF Core

\* Steps of aclose() and of the pools keep the invariant.
LEMMA ProcessInvariant ==
  ASSUME IInv, CloseBegin \/ ClosePool \/ ClosePoolFails \/ CloseEnd \/ Expire
  PROVE  IInv'
<1>0. TypeOK /\ Core /\ TableInv /\ IdleInv /\ RequestInv /\ ConnectionsExact
  BY DEF IInv, Core
<1>1. ASSUME CloseBegin PROVE IInv'
  <2>1. /\ client = "open" /\ Era = "early" /\ Era' = "late"
        /\ transports' = [o \in Origins |-> None]
        /\ Created' = Created /\ UNCHANGED <<pools, req, cancelled>>
    BY <1>1 DEF CloseBegin, Era, Created
  <2>2. toClose' \subseteq Created
    <3>1. ASSUME NEW o \in Origins, transports[o] # None
          PROVE  transports[o] \in Created
      <4>1. transports[o] = <<o, Era>> /\ pools[<<o, Era>>] # None /\ <<o, Era>> \in PoolIds
        BY <1>0, <3>1 DEF TableInv, PoolIds, Era
      <4> QED
        BY <4>1 DEF Created
    <3>2. toClose' = {transports[o] : o \in Origins} \ {None}
      BY <1>1 DEF CloseBegin
    <3> QED
      BY <3>1, <3>2
  <2>3. TypeOK'
    BY <1>0, <1>1, <2>1, <2>2 DEF TypeOK, CloseBegin
  <2>4. TableInv'
    <3>1. \A o \in Origins : pools[<<o, "late">>] = None
      BY <1>0, <2>1 DEF TableInv
    <3>2. client' # "open"
      BY <1>1 DEF CloseBegin
    <3> QED
      BY <2>1, <3>1, <3>2 DEF TableInv
  <2>5. IdleInv' /\ RequestInv' /\ ConnectionsExact'
    BY <1>0, <2>1 DEF IdleInv, Reachable, RequestInv, ConnectionsExact, Connected, Unplaced, Placed
  <2> QED
    BY <2>3, <2>4, <2>5 DEF IInv, Core
<1>2. ASSUME ClosePool PROVE IInv'
  <2>1. PICK p \in toClose :
          /\ toClose' = toClose \ {p}
          /\ pools' = [pools EXCEPT ![p].open = FALSE, ![p].busy = 0, ![p].idle = {}]
    BY <1>2 DEF ClosePool
  <2>2. p \in Created /\ p \in PoolIds /\ pools[p] \in Pool
    BY <1>0, <2>1 DEF TypeOK, Created
  <2> DEFINE new == [pools[p] EXCEPT !.open = FALSE, !.busy = 0, !.idle = {}]
  <2>3. new \in Pool /\ new.open = FALSE /\ new.idle = {}
    BY <2>2 DEF Pool
  <2>4. pools' = [pools EXCEPT ![p] = new]
    BY <1>0, <2>1, <2>2 DEF TypeOK, Pool
  <2> HIDE DEF new
  <2>5. UNCHANGED <<client, transports, req>>
    BY <1>2 DEF ClosePool
  <2>6. Core' /\ pools' \in [PoolIds -> Pool \cup {None}] /\ Created' = Created
    BY <2>2, <2>3, <2>4, <2>5, PoolStepKeepsCore
  <2>7. TypeOK'
    BY <1>0, <1>2, <2>1, <2>6 DEF TypeOK, ClosePool
  <2> QED
    BY <2>6, <2>7 DEF IInv
<1>3. ASSUME ClosePoolFails \/ CloseEnd PROVE IInv'
  <2>1. /\ Era' = Era /\ client # "open" /\ client' # "open" /\ Created' = Created
        /\ UNCHANGED <<transports, pools, req, cancelled>>
    BY <1>3 DEF ClosePoolFails, CloseEnd, Era, Created
  <2>2. TypeOK'
    BY <1>0, <1>3, <2>1 DEF TypeOK, ClosePoolFails, CloseEnd
  <2>3. TableInv' /\ IdleInv' /\ RequestInv' /\ ConnectionsExact'
    BY <1>0, <2>1
       DEF TableInv, IdleInv, Reachable, RequestInv, ConnectionsExact, Connected, Unplaced, Placed
  <2> QED
    BY <2>2, <2>3 DEF IInv, Core
<1>4. ASSUME Expire PROVE IInv'
  <2>1. PICK p \in Created : \E c \in pools[p].idle :
          pools' = [pools EXCEPT ![p].idle = @ \ {c}]
    BY <1>4 DEF Expire
  <2>2. PICK c \in pools[p].idle : pools' = [pools EXCEPT ![p].idle = @ \ {c}]
    BY <2>1
  <2>3. p \in PoolIds /\ pools[p] \in Pool
    BY <1>0 DEF TypeOK, Created
  <2> DEFINE new == [pools[p] EXCEPT !.idle = @ \ {c}]
  <2>4. /\ new \in Pool /\ new.idle \subseteq pools[p].idle
        /\ new.open = pools[p].open /\ new.busy = pools[p].busy
    BY <2>3 DEF Pool
  <2>5. pools' = [pools EXCEPT ![p] = new]
    BY <2>2
  <2> HIDE DEF new
  <2>6. UNCHANGED <<client, transports, req>>
    BY <1>4 DEF Expire, closeVars
  <2>7. Core' /\ pools' \in [PoolIds -> Pool \cup {None}] /\ Created' = Created
    BY <2>4, <2>5, <2>6, PoolStepKeepsCore
  <2>8. TypeOK'
    BY <1>0, <1>4, <2>7 DEF TypeOK, Expire, closeVars
  <2> QED
    BY <2>7, <2>8 DEF IInv
<1> QED
  BY <1>1, <1>2, <1>3, <1>4

\* Every step keeps the invariant.
LEMMA NextInvariant == IInv /\ [Next]_vars => IInv'
<1> SUFFICES ASSUME IInv, [Next]_vars PROVE IInv'
  OBVIOUS
<1>1. ASSUME NEW r \in Requests,
             Begin(r) \/ Resolved(r) \/ Respond(r) \/ Chunk(r) \/ Finish(r) \/ Fail(r) \/ Cancel(r)
      PROVE  IInv'
  BY <1>1, RequestInvariant
<1>2. CASE CloseBegin \/ ClosePool \/ ClosePoolFails \/ CloseEnd \/ Expire
  BY <1>2, ProcessInvariant
<1>3. CASE UNCHANGED vars
  BY <1>3 DEF vars, closeVars, IInv, Core, TypeOK, TableInv, IdleInv, RequestInv,
     ConnectionsExact, Created, Connected, Era, Unplaced, Placed, Reachable
<1> QED
  BY <1>1, <1>2, <1>3 DEF Next

LEMMA InvariantHolds == Spec => []IInv
BY InitInvariant, NextInvariant, PTL DEF Spec

----------------------------------------------------------------------------
\* Every variable keeps its type; in particular aclose() only closes pools that
\* exist, and only a task that runs can be cancelled.
THEOREM TypeCorrect == Spec => []TypeOK
<1>1. IInv => TypeOK
  BY DEF IInv
<1> QED
  BY <1>1, InvariantHolds, PTL

\* PinnedOidcAsyncTransport connects a request only to an address of its own
\* lookup, all of whose answers the policy accepted, whatever DNS answers to
\* others and whichever connection of the pool is used again.
THEOREM ConnectionsVetted == Spec => []OnlyVettedConnections
<1>1. ASSUME IInv PROVE OnlyVettedConnections
  <2>0. TypeOK /\ IdleInv /\ RequestInv
    BY <1>1 DEF IInv, Core
  <2>1. ASSUME NEW r \in Requests, Connected(r)
        PROVE  LET a == AddressesOf(req[r].answers)
               IN  /\ req[r].conn.ip \in a
                   /\ \/ AllowLoopback /\ {Class[x] : x \in a} = {"loopback"}
                      \/ /\ req[r].url.origin.scheme = "https"
                         /\ {Class[x] : x \in a} = {"global"}
    <3> DEFINE q == req[r]
               o == q.url.origin
               a == AddressesOf(q.answers)
    <3>1. Placed(q) /\ q \in Request
      BY <2>0, <2>1 DEF RequestInv, Connected, Unplaced, TypeOK
    <3>2. o \in Origins /\ q.answers \in Seq(Addresses)
      BY <3>1 DEF Request, Url
    <3>3. q.conn.ip \in a /\ a # {}
      BY <3>1, <3>2, FirstAnswer DEF Placed
    <3>4. \/ AllowLoopback /\ \A x \in a : Class[x] = "loopback"
          \/ o.scheme = "https" /\ \A x \in a : Class[x] = "global"
      BY <3>1 DEF Placed, Acceptable
    <3> HIDE DEF a
    <3>5. \/ AllowLoopback /\ {Class[x] : x \in a} = {"loopback"}
          \/ o.scheme = "https" /\ {Class[x] : x \in a} = {"global"}
      BY <3>3, <3>4
    <3> QED
      BY <3>3, <3>5 DEF a
  <2>2. \A p \in Created : \A c \in pools[p].idle :
          Class[c.ip] = "global" \/ (AllowLoopback /\ Class[c.ip] = "loopback")
    BY <2>0 DEF IdleInv, Reachable
  <2> QED
    BY <2>1, <2>2 DEF OnlyVettedConnections
<1> QED
  BY <1>1, InvariantHolds, PTL

\* Because _transport_for keeps a pool per origin, a request never uses a
\* connection that was opened for the certificate of another host, although the
\* pools know connections by address alone.
THEOREM IdentitiesKept == Spec => []IdentityKept
<1>1. ASSUME IInv PROVE IdentityKept
  BY <1>1 DEF IInv, Core, RequestInv, IdentityKept, Connected, Unplaced, Placed
<1> QED
  BY <1>1, InvariantHolds, PTL

\* Every way a request can end gives its connection back exactly once: the pool
\* counts the requests that use it, however many there are.
THEOREM CountsExact == Spec => []ConnectionsExact
<1>1. IInv => ConnectionsExact
  BY DEF IInv, Core
<1> QED
  BY <1>1, InvariantHolds, PTL

----------------------------------------------------------------------------
(* The budget, and what closing leaves open.                               *)

\* What a step of the request r for this URL may change: a pool keeps its
\* creator, is not closed by it, and is only created by a task that was not
\* cancelled; only the URL's origin can gain a pool.
PoolEffect(r) ==
  \A p \in PoolIds : pools'[p] # None =>
    \/ p \in Created /\ pools'[p].by = pools[p].by /\ pools'[p].open = pools[p].open
    \/ /\ p \notin Created /\ p[2] = Era /\ r \notin cancelled
       /\ client # "open" => pools'[p].by = r

Effect(r, url) ==
  /\ UNCHANGED closeVars
  /\ \A s \in Requests : s # r => req'[s] = req[s]
  /\ cancelled \ {r} \subseteq cancelled'
  /\ req'[r] # None => req'[r].url = url /\ cancelled \subseteq cancelled'
  /\ PoolEffect(r)
  /\ \A o \in Origins : transports'[o] # None => transports[o] # None \/ o = url.origin
  /\ outcome' # None /\ outcome'.result = "budget" =>
       transports[url.origin] = None /\ ~BudgetLeft

\* Requests are for trusted origins, and only those have pools.
TrustInv ==
  /\ \A r \in Requests : req[r] # None => req[r].url.origin \in TrustedOrigins
  /\ \A o \in Origins : transports[o] # None => o \in TrustedOrigins
  /\ BudgetSuffices

\* Once closing began, whoever still runs uncancelled ran when it began; early
\* pools are closed or about to be, and late ones belong to such a request.
ClosingInv ==
  /\ client = "closed" => toClose = {}
  /\ client # "open" =>
       /\ \A r \in Requests : req[r] # None => r \in overlap \cup cancelled
       /\ \A p \in Created : p[2] = "late" => pools[p].by \in overlap
       /\ ~closeFailed =>
            \A p \in Created : p[2] = "early" /\ pools[p].open => p \in toClose

FullInv == IInv /\ TrustInv /\ ClosingInv

\* A request that ends leaves its pool as open as it was.
LEMMA ReleaseEffect ==
  ASSUME IInv, NEW r \in Requests, req[r] # None, NEW kept \in BOOLEAN,
         pools' = Released(req[r], kept)
  PROVE  PoolEffect(r)
<1> DEFINE q == req[r]
           P == q.pool
<1>1. TypeOK /\ RequestInv
  BY DEF IInv, Core
<1>2. CASE q.conn = None \/ ~pools[P].open
  BY <1>2 DEF Released, PoolEffect, Created
<1>3. CASE q.conn # None /\ pools[P].open
  <2>1. P \in PoolIds /\ P \in Created /\ pools[P] \in Pool
    BY <1>1, <1>3 DEF RequestInv, Unplaced, Placed, TypeOK, Created
  <2> DEFINE n == [pools[P] EXCEPT !.busy = @ - 1,
                     !.idle = IF kept THEN @ \cup {q.conn} ELSE @]
  <2>2. n.open = pools[P].open /\ n.by = pools[P].by
    BY <2>1 DEF Pool
  <2>3. pools' = [pools EXCEPT ![P] = n]
    BY <1>1, <1>3, <2>1 DEF Released, TypeOK, Pool
  <2> HIDE DEF n
  <2>4. \A p \in PoolIds : pools'[p] = IF p = P THEN n ELSE pools[p]
    BY <1>1, <2>3 DEF TypeOK
  <2> QED
    BY <2>1, <2>2, <2>4 DEF PoolEffect, Created
<1> QED
  BY <1>2, <1>3

\* A request that ends.
LEMMA EndEffect ==
  ASSUME IInv, NEW r \in Requests, NEW url \in Url, NEW total,
         NEW result \in {"ok", "refused", "failed"},
         End(r, url, result, total), UNCHANGED <<closeVars, transports>>,
         \/ req[r] # None /\ \E kept \in BOOLEAN : pools' = Released(req[r], kept)
         \/ pools' = pools,
         NEW for \in Url
  PROVE  Effect(r, for)
<1>1. PoolEffect(r)
  <2>1. CASE pools' = pools
    BY <2>1 DEF PoolEffect, Created
  <2> QED
    BY <2>1, ReleaseEffect
<1>2. \A s \in Requests : s # r => req'[s] = req[s]
  BY DEF End, IInv, TypeOK
<1>3. req'[r] = None
  BY DEF End, IInv, TypeOK
<1>4. outcome'.result = result /\ cancelled' = cancelled \ {r}
  BY DEF End
<1> QED
  BY <1>1, <1>2, <1>3, <1>4 DEF Effect

\* A vetted request takes a connection.
LEMMA ConnectEffect ==
  ASSUME IInv, NEW r \in Requests, r \notin cancelled, NEW q \in Request,
         NEW p \in PoolIds, NEW pool \in Pool,
         \/ p \in Created /\ pool = pools[p] /\ transports' = transports
         \/ /\ p \notin Created /\ p[2] = Era /\ (client # "open" => pool.by = r)
            /\ transports' = [transports EXCEPT ![q.url.origin] = p],
         Connect(r, q, p, pool), UNCHANGED <<closeVars, cancelled>>
  PROVE  Effect(r, q.url)
<1>1. TypeOK
  BY DEF IInv
<1>2. PICK c : /\ Continue(r, [q EXCEPT !.stage = "connecting", !.pool = p, !.conn = c])
               /\ pools' = [pools EXCEPT ![p] = [pool EXCEPT !.busy = @ + 1, !.idle = @ \ {c}]]
  BY DEF Connect
<1> DEFINE q2 == [q EXCEPT !.stage = "connecting", !.pool = p, !.conn = c]
           n  == [pool EXCEPT !.busy = @ + 1, !.idle = @ \ {c}]
<1>3. q2.url = q.url
  BY DEF Request
<1>4. n.open = pool.open /\ n.by = pool.by
  BY DEF Pool
<1>5. req' = [req EXCEPT ![r] = q2] /\ pools' = [pools EXCEPT ![p] = n] /\ outcome' = None
  BY <1>2 DEF Continue
<1> HIDE DEF q2, n
<1>6. \A s \in Requests : req'[s] = IF s = r THEN q2 ELSE req[s]
  BY <1>1, <1>5 DEF TypeOK
<1>7. \A x \in PoolIds : pools'[x] = IF x = p THEN n ELSE pools[x]
  BY <1>1, <1>5 DEF TypeOK
<1>8. PoolEffect(r)
  BY <1>4, <1>7 DEF PoolEffect, Created
<1>9. \A o \in Origins : transports'[o] # None => transports[o] # None \/ o = q.url.origin
  BY <1>1 DEF TypeOK
<1> QED
  BY <1>3, <1>5, <1>6, <1>8, <1>9 DEF Effect

\* Judging the answers.
LEMMA VetEffect ==
  ASSUME IInv, NEW r \in Requests, r \notin cancelled, NEW q \in Request,
         Vet(r, q), UNCHANGED closeVars
  PROVE  Effect(r, q.url)
<1> DEFINE o == q.url.origin
           p == <<o, IF client = "open" THEN "early" ELSE "late">>
           new == [open |-> TRUE, busy |-> 0, idle |-> {},
                   by |-> IF client = "open" THEN None ELSE r]
<1>0. TypeOK /\ TableInv /\ q.url \in Url /\ o \in Origins
  BY DEF IInv, Core, Request, Url
<1>1. ASSUME End(r, q.url, "refused", 0), UNCHANGED <<transports, pools>>
      PROVE  Effect(r, q.url)
  BY <1>0, <1>1, EndEffect
<1>2. ASSUME End(r, q.url, "budget", 0), UNCHANGED <<transports, pools>>,
             PoolKey(q) = {}, ~BudgetLeft
      PROVE  Effect(r, q.url)
  <2>1. transports[o] = None
    BY <1>2 DEF PoolKey
  <2>2. /\ req' = [req EXCEPT ![r] = None] /\ cancelled' = cancelled \ {r}
    BY <1>2 DEF End
  <2>3. PoolEffect(r)
    BY <1>2 DEF PoolEffect, Created
  <2> QED
    BY <1>0, <1>2, <2>1, <2>2, <2>3 DEF Effect, TypeOK
<1>3. ASSUME PoolKey(q) # {}, \E found \in PoolKey(q) : Connect(r, q, found, pools[found]),
             UNCHANGED <<transports, cancelled>>
      PROVE  Effect(r, q.url)
  <2>1. PICK x \in PoolKey(q) : Connect(r, q, x, pools[x])
    BY <1>3
  <2>2. x \in PoolIds /\ x \in Created /\ pools[x] \in Pool
    <3>1. x = transports[o] /\ x # None
      BY <2>1 DEF PoolKey
    <3>2. x = <<o, Era>> /\ pools[<<o, Era>>] # None
      BY <1>0, <3>1 DEF TableInv
    <3>3. x \in PoolIds
      BY <1>0, <3>2 DEF PoolIds, Era
    <3>4. pools[x] \in Pool
      BY <1>0, <3>2, <3>3 DEF TypeOK
    <3> QED
      BY <3>2, <3>3, <3>4 DEF Created
  <2> QED
    BY <1>3, <2>1, <2>2, ConnectEffect
<1>4. ASSUME PoolKey(q) = {}, transports' = [transports EXCEPT ![o] = p],
             Connect(r, q, p, new), UNCHANGED cancelled
      PROVE  Effect(r, q.url)
  <2>1. p \in PoolIds /\ p[2] = Era
    BY <1>0 DEF PoolIds, Era
  <2>2. p \notin Created
    BY <1>0, <1>4 DEF PoolKey, TableInv, Era, Created
  <2>3. new \in Pool /\ (client # "open" => new.by = r)
    BY DEF Pool
  <2> HIDE DEF p, new
  <2> QED
    BY <1>4, <2>1, <2>2, <2>3, ConnectEffect
<1> QED
  BY <1>1, <1>2, <1>3, <1>4 DEF Vet

\* Every step of a request has such an effect, for its own URL, or, while the
\* client is open, for a trusted one.
LEMMA RequestEffect ==
  ASSUME IInv, NEW r \in Requests,
         Begin(r) \/ Resolved(r) \/ Respond(r) \/ Chunk(r) \/ Finish(r) \/ Fail(r) \/ Cancel(r)
  PROVE  \E url \in Url :
           /\ Effect(r, url)
           /\ IF req[r] = None THEN client = "open" /\ url.origin \in TrustedOrigins
              ELSE url = req[r].url
<1> DEFINE q == req[r]
<1>0. /\ TypeOK
      /\ q # None => q \in Request /\ q.url \in Url
  BY DEF IInv, Core, TypeOK, Request
<1>1. CASE Begin(r)
  <2>0. req[r] = None /\ client = "open" /\ r \notin cancelled /\ UNCHANGED closeVars
    BY <1>0, <1>1 DEF Begin, TypeOK
  <2>1. PICK url \in Url :
          /\ url.discovery => url.origin = Issuer
          /\ \/ End(r, url, "refused", 0) /\ UNCHANGED <<transports, pools>>
             \/ /\ Trusted(url) /\ Continue(r, NewRequest(url))
                /\ UNCHANGED <<transports, pools, cancelled>>
             \/ /\ Trusted(url) /\ Literal[url.origin] # None
                /\ Vet(r, [NewRequest(url) EXCEPT !.answers = <<Literal[url.origin]>>])
    BY <1>1 DEF Begin
  <2>2. CASE End(r, url, "refused", 0) /\ UNCHANGED <<transports, pools>>
    <3> DEFINE some == [origin |-> Issuer, discovery |-> FALSE]
    <3>1. some \in Url /\ some.origin \in TrustedOrigins
      BY TransportAssumption DEF Url, TrustedOrigins
    <3> HIDE DEF some
    <3>2. Effect(r, some)
      BY <2>0, <2>2, <3>1, EndEffect
    <3> QED
      BY <2>0, <3>1, <3>2
  <2>3. ASSUME Trusted(url) PROVE url.origin \in TrustedOrigins
    BY <2>1, <2>3 DEF Trusted, TrustedOrigins
  <2>4. CASE /\ Trusted(url) /\ Continue(r, NewRequest(url))
             /\ UNCHANGED <<transports, pools, cancelled>>
    <3>1. PoolEffect(r)
      BY <2>4 DEF PoolEffect, Created
    <3>2. req' = [req EXCEPT ![r] = NewRequest(url)] /\ outcome' = None
      BY <2>4 DEF Continue
    <3>3. /\ NewRequest(url).url = url
          /\ \A s \in Requests : s # r => req'[s] = req[s]
          /\ req'[r] = NewRequest(url)
      BY <1>0, <3>2 DEF NewRequest, TypeOK
    <3>4. Effect(r, url)
      BY <2>0, <2>4, <3>1, <3>2, <3>3 DEF Effect
    <3> QED
      BY <2>0, <2>3, <2>4, <3>4
  <2>5. CASE /\ Trusted(url) /\ Literal[url.origin] # None
             /\ Vet(r, [NewRequest(url) EXCEPT !.answers = <<Literal[url.origin]>>])
    <3> DEFINE new == [NewRequest(url) EXCEPT !.answers = <<Literal[url.origin]>>]
    <3>1. <<Literal[url.origin]>> \in Seq(Addresses)
      BY <2>5, TransportAssumption DEF Url
    <3>2. new \in Request /\ new.url = url
      <4> DEFINE first == NewRequest(url)
                 a     == <<Literal[url.origin]>>
      <4>1. first \in Request /\ first.url = url /\ a \in Seq(Addresses)
        BY <3>1, NewRequestType DEF NewRequest
      <4>2. new = [first EXCEPT !.answers = a]
        OBVIOUS
      <4> HIDE DEF first, a, new
      <4> QED
        BY <4>1, <4>2 DEF Request
    <3> HIDE DEF new
    <3>3. Effect(r, url)
      BY <2>0, <2>5, <3>2, VetEffect DEF new
    <3> QED
      BY <2>0, <2>3, <2>5, <3>3
  <2> QED
    BY <2>1, <2>2, <2>4, <2>5
<1>2. CASE Resolved(r)
  <2>1. PICK answers \in Answers : Vet(r, [q EXCEPT !.answers = answers])
    BY <1>2 DEF Resolved
  <2>2. UNCHANGED closeVars /\ q # None /\ r \notin cancelled
    BY <1>2 DEF Resolved, Running
  <2> DEFINE new == [q EXCEPT !.answers = answers]
  <2>3. new \in Request /\ new.url = q.url
    BY <1>0, <2>1, <2>2, TransportAssumption DEF Request
  <2> HIDE DEF new
  <2>4. Effect(r, q.url)
    BY <2>1, <2>2, <2>3, VetEffect DEF new
  <2> QED
    BY <1>0, <2>2, <2>4
<1>3. ASSUME Refuse(r), q # None, UNCHANGED <<closeVars, transports>>
      PROVE  Effect(r, q.url)
  BY <1>0, <1>3, EndEffect DEF Refuse
<1>4. ASSUME NEW new, new.url = q.url, Continue(r, new),
             UNCHANGED <<closeVars, transports, pools, cancelled>>
      PROVE  Effect(r, q.url)
  <2>1. PoolEffect(r)
    BY <1>4 DEF PoolEffect, Created
  <2>2. /\ \A s \in Requests : s # r => req'[s] = req[s]
        /\ req'[r] = new /\ outcome' = None
    BY <1>0, <1>4 DEF Continue, TypeOK
  <2> QED
    BY <1>4, <2>1, <2>2 DEF Effect
<1>5. CASE Respond(r) \/ Chunk(r)
  <2>1. q # None /\ UNCHANGED <<closeVars, transports>>
    BY <1>5 DEF Respond, Chunk, Running
  <2>2. CASE Refuse(r)
    BY <1>0, <1>3, <2>1, <2>2
  <2>3. CASE /\ Continue(r, [q EXCEPT !.stage = "streaming"])
             /\ UNCHANGED <<pools, cancelled>>
    <3>1. [q EXCEPT !.stage = "streaming"].url = q.url
      BY <1>0, <2>1 DEF Request
    <3> QED
      BY <1>0, <1>4, <2>1, <2>3, <3>1
  <2>4. CASE \E n \in 1..(Limit(q.url) + 1) :
               /\ Continue(r, [q EXCEPT !.total = @ + n])
               /\ UNCHANGED <<pools, cancelled>>
    <3>1. PICK n : Continue(r, [q EXCEPT !.total = @ + n]) /\ UNCHANGED <<pools, cancelled>>
      BY <2>4
    <3>2. [q EXCEPT !.total = @ + n].url = q.url
      BY <1>0, <2>1 DEF Request
    <3> QED
      BY <1>0, <1>4, <2>1, <3>1, <3>2
  <2> QED
    BY <1>5, <2>2, <2>3, <2>4 DEF Respond, Chunk
<1>6. CASE Finish(r) \/ Fail(r)
  <2>1. /\ q # None /\ UNCHANGED <<closeVars, transports>>
        /\ \E kept \in BOOLEAN : pools' = Released(req[r], kept)
        /\ \E result \in {"ok", "refused", "failed"}, total \in {0, q.total} :
             End(r, q.url, result, total)
    BY <1>6 DEF Finish, Fail, Running
  <2>2. Effect(r, q.url)
    BY <1>0, <2>1, EndEffect
  <2> QED
    BY <1>0, <2>1, <2>2
<1>7. CASE Cancel(r)
  <2>1. PoolEffect(r)
    BY <1>7 DEF PoolEffect, Created, Cancel
  <2> QED
    BY <1>0, <1>7, <2>1 DEF Effect, Cancel
<1> QED
  BY <1>1, <1>2, <1>5, <1>6, <1>7

\* A trusted origin without a pool leaves one slot free for it.
LEMMA BudgetLeftForTrusted ==
  ASSUME TrustInv, NEW o \in TrustedOrigins, transports[o] = None,
         Cardinality(TrustedOrigins) <= MaxHosts
  PROVE  BudgetLeft
<1> DEFINE used == {x \in Origins : transports[x] # None}
<1>1. IsFiniteSet(TrustedOrigins)
  <2>1. IsFiniteSet({Issuer})
    BY FS_Singleton
  <2> QED
    BY <2>1, TransportAssumption, FS_Union DEF TrustedOrigins
<1>2. used \subseteq TrustedOrigins \ {o}
  BY DEF TrustInv
<1>3. /\ IsFiniteSet(TrustedOrigins \ {o})
      /\ Cardinality(TrustedOrigins \ {o}) = Cardinality(TrustedOrigins) - 1
  BY <1>1, FS_RemoveElement
<1>4. Cardinality(used) <= Cardinality(TrustedOrigins \ {o}) /\ Cardinality(used) \in Nat
  BY <1>2, <1>3, FS_Subset, FS_CardinalityType
<1>5. Cardinality(used) < MaxHosts
  BY <1>1, <1>3, <1>4, TransportAssumption, FS_CardinalityType
<1> QED
  BY <1>5 DEF BudgetLeft

LEMMA FullInitInvariant == Init => FullInv
<1> SUFFICES ASSUME Init PROVE FullInv
  OBVIOUS
<1>1. TrustInv /\ ClosingInv
  BY DEF Init, TrustInv, ClosingInv, BudgetSuffices
<1> QED
  BY <1>1, InitInvariant DEF FullInv

\* Steps of a request keep both.
LEMMA RequestKeepsFull ==
  ASSUME FullInv, NEW r \in Requests,
         Begin(r) \/ Resolved(r) \/ Respond(r) \/ Chunk(r) \/ Finish(r) \/ Fail(r) \/ Cancel(r)
  PROVE  TrustInv' /\ ClosingInv'
<1>0. /\ TypeOK /\ TableInv /\ TrustInv /\ ClosingInv
  BY DEF FullInv, IInv, Core
<1>1. PICK url \in Url :
        /\ Effect(r, url)
        /\ IF req[r] = None THEN client = "open" /\ url.origin \in TrustedOrigins
           ELSE url = req[r].url
  BY RequestEffect DEF FullInv
<1>2. url.origin \in TrustedOrigins
  BY <1>0, <1>1 DEF TrustInv
<1>3. ASSUME NEW s \in Requests, req'[s] # None
      PROVE  req'[s].url.origin \in TrustedOrigins
  <2>1. CASE s = r
    BY <1>1, <1>2, <1>3, <2>1 DEF Effect
  <2>2. CASE s # r
    BY <1>0, <1>1, <1>3, <2>2 DEF Effect, TrustInv
  <2> QED
    BY <2>1, <2>2
<1>4. \A o \in Origins : transports'[o] # None => o \in TrustedOrigins
  BY <1>0, <1>1, <1>2 DEF Effect, TrustInv
<1>5. BudgetSuffices'
  <2>1. ASSUME Cardinality(TrustedOrigins) <= MaxHosts, outcome' # None,
               outcome'.result = "budget"
        PROVE  FALSE
    <3>1. transports[url.origin] = None /\ ~BudgetLeft
      BY <1>1, <2>1 DEF Effect
    <3> QED
      BY <1>0, <1>2, <2>1, <3>1, BudgetLeftForTrusted
  <2> QED
    BY <2>1 DEF BudgetSuffices, TrustedOrigins
<1>6. TrustInv'
  BY <1>3, <1>4, <1>5 DEF TrustInv, TrustedOrigins
<1>7. UNCHANGED <<client, toClose, closeFailed, overlap>>
  BY <1>1 DEF Effect, closeVars
<1>8. ASSUME client # "open", NEW s \in Requests, req'[s] # None
      PROVE  s \in overlap \cup cancelled'
  <2>1. CASE s = r
    <3>1. req[r] # None /\ cancelled \subseteq cancelled'
      BY <1>1, <1>8, <2>1 DEF Effect
    <3> QED
      BY <1>0, <1>8, <2>1, <3>1 DEF ClosingInv
  <2>2. CASE s # r
    BY <1>0, <1>1, <1>8, <2>2 DEF Effect, ClosingInv
  <2> QED
    BY <2>1, <2>2
<1>9. ASSUME client # "open", NEW p \in Created'
      PROVE  /\ p[2] = "late" => pools'[p].by \in overlap
             /\ ~closeFailed /\ p[2] = "early" /\ pools'[p].open => p \in toClose
  <2>0. p \in PoolIds /\ pools'[p] # None
    BY <1>9 DEF Created
  <2>1. CASE p \in Created /\ pools'[p].by = pools[p].by /\ pools'[p].open = pools[p].open
    BY <1>0, <1>9, <2>1 DEF ClosingInv
  <2>2. CASE p[2] = Era /\ r \notin cancelled /\ pools'[p].by = r
    <3>1. req[r] # None
      BY <1>1, <1>9
    <3>2. r \in overlap /\ p[2] = "late"
      BY <1>0, <1>9, <2>2, <3>1 DEF ClosingInv, Era
    <3> QED
      BY <2>2, <3>2
  <2> QED
    BY <1>1, <1>9, <2>0, <2>1, <2>2 DEF Effect, PoolEffect
<1>10. ClosingInv'
  BY <1>0, <1>7, <1>8, <1>9 DEF ClosingInv
<1> QED
  BY <1>6, <1>10

\* Steps of aclose() and of the pools keep both.
LEMMA ProcessKeepsFull ==
  ASSUME FullInv, CloseBegin \/ ClosePool \/ ClosePoolFails \/ CloseEnd \/ Expire
  PROVE  TrustInv' /\ ClosingInv'
<1>0. TypeOK /\ TableInv /\ TrustInv /\ ClosingInv
  BY DEF FullInv, IInv, Core
<1>1. /\ UNCHANGED <<req, cancelled>> /\ outcome' = None
      /\ \/ transports' = transports
         \/ transports' = [o \in Origins |-> None]
  BY DEF CloseBegin, ClosePool, ClosePoolFails, CloseEnd, Expire, closeVars
<1>2. TrustInv'
  BY <1>0, <1>1 DEF TrustInv, BudgetSuffices, TrustedOrigins
<1>3. CASE CloseBegin
  <2>1. /\ client = "open" /\ toClose' = {transports[o] : o \in Origins} \ {None}
        /\ overlap' = {s \in Requests : req[s] # None} \ cancelled
        /\ client' = "closing" /\ Created' = Created /\ pools' = pools
    BY <1>3 DEF CloseBegin, Created
  <2>2. \A s \in Requests : req'[s] # None => s \in overlap' \cup cancelled'
    BY <1>1, <2>1
  <2>3. ASSUME NEW p \in Created
        PROVE  p[2] # "late" /\ p \in toClose'
    <3>1. PICK o \in Origins : p = <<o, "early">> \/ p = <<o, "late">>
      BY DEF Created, PoolIds
    <3>2. p = <<o, "early">>
      BY <1>0, <2>1, <3>1 DEF TableInv, Created
    <3>3. transports[o] = p /\ p # None
      BY <1>0, <2>1, <3>2 DEF TableInv, Era, Created
    <3> QED
      BY <2>1, <3>2, <3>3
  <2> QED
    BY <1>2, <2>1, <2>2, <2>3 DEF ClosingInv
<1>4. CASE ClosePool
  <2>1. PICK p \in toClose :
          /\ toClose' = toClose \ {p}
          /\ pools' = [pools EXCEPT ![p].open = FALSE, ![p].busy = 0, ![p].idle = {}]
    BY <1>4 DEF ClosePool
  <2>2. p \in PoolIds /\ p \in Created /\ pools[p] \in Pool
    BY <1>0, <2>1 DEF TypeOK, Created
  <2> DEFINE new == [pools[p] EXCEPT !.open = FALSE, !.busy = 0, !.idle = {}]
  <2>3. new.open = FALSE /\ new.by = pools[p].by
    BY <2>2 DEF Pool
  <2>4. pools' = [pools EXCEPT ![p] = new]
    BY <1>0, <2>1, <2>2 DEF TypeOK, Pool
  <2> HIDE DEF new
  <2>5. \A x \in PoolIds : pools'[x] = IF x = p THEN new ELSE pools[x]
    BY <1>0, <2>4 DEF TypeOK
  <2>6. client = "closing" /\ UNCHANGED <<client, closeFailed, overlap>>
    BY <1>4 DEF ClosePool
  <2>7. ASSUME NEW x \in Created'
        PROVE  /\ x \in Created /\ pools'[x].by = pools[x].by
               /\ pools'[x].open => pools[x].open /\ x # p
    BY <2>2, <2>3, <2>5, <2>7 DEF Created
  <2>8. ASSUME ~closeFailed, NEW x \in Created', x[2] = "early", pools'[x].open
        PROVE  x \in toClose'
    BY <1>0, <2>1, <2>6, <2>7, <2>8 DEF ClosingInv
  <2>9. \A x \in Created' : x[2] = "late" => pools'[x].by \in overlap'
    BY <1>0, <2>6, <2>7 DEF ClosingInv
  <2>10. \A s \in Requests : req'[s] # None => s \in overlap' \cup cancelled'
    BY <1>0, <1>1, <2>6 DEF ClosingInv
  <2> QED
    BY <1>2, <2>6, <2>8, <2>9, <2>10 DEF ClosingInv
<1>5. CASE ClosePoolFails \/ CloseEnd
  <2>1. /\ client = "closing" /\ client' = "closed" /\ toClose' = {}
        /\ Created' = Created /\ UNCHANGED <<pools, overlap>>
        /\ closeFailed' \/ (closeFailed' = closeFailed /\ toClose = {})
    BY <1>5 DEF ClosePoolFails, CloseEnd, Created
  <2> QED
    BY <1>0, <1>1, <1>2, <2>1 DEF ClosingInv
<1>6. CASE Expire
  <2>1. PICK p \in Created : \E c \in pools[p].idle :
          pools' = [pools EXCEPT ![p].idle = @ \ {c}]
    BY <1>6 DEF Expire
  <2>2. PICK c \in pools[p].idle : pools' = [pools EXCEPT ![p].idle = @ \ {c}]
    BY <2>1
  <2>3. p \in PoolIds /\ pools[p] \in Pool
    BY <1>0 DEF TypeOK, Created
  <2> DEFINE new == [pools[p] EXCEPT !.idle = @ \ {c}]
  <2>4. new.open = pools[p].open /\ new.by = pools[p].by
    BY <2>3 DEF Pool
  <2>5. pools' = [pools EXCEPT ![p] = new]
    BY <2>2
  <2> HIDE DEF new
  <2>6. \A x \in PoolIds : pools'[x] = IF x = p THEN new ELSE pools[x]
    BY <1>0, <2>5 DEF TypeOK
  <2>7. UNCHANGED <<client, toClose, closeFailed, overlap>>
    BY <1>6 DEF Expire, closeVars
  <2>8. \A x \in Created' :
          x \in Created /\ pools'[x].by = pools[x].by /\ pools'[x].open = pools[x].open
    BY <2>4, <2>6 DEF Created
  <2> QED
    BY <1>0, <1>1, <1>2, <2>7, <2>8 DEF ClosingInv
<1> QED
  BY <1>3, <1>4, <1>5, <1>6

LEMMA FullNextInvariant == FullInv /\ [Next]_vars => FullInv'
<1> SUFFICES ASSUME FullInv, [Next]_vars PROVE FullInv'
  OBVIOUS
<1>1. IInv'
  BY NextInvariant DEF FullInv
<1>2. ASSUME NEW r \in Requests,
             Begin(r) \/ Resolved(r) \/ Respond(r) \/ Chunk(r) \/ Finish(r) \/ Fail(r) \/ Cancel(r)
      PROVE  TrustInv' /\ ClosingInv'
  BY <1>2, RequestKeepsFull
<1>3. ASSUME CloseBegin \/ ClosePool \/ ClosePoolFails \/ CloseEnd \/ Expire
      PROVE  TrustInv' /\ ClosingInv'
  BY <1>3, ProcessKeepsFull
<1>4. ASSUME UNCHANGED vars PROVE TrustInv' /\ ClosingInv'
  <2>1. /\ UNCHANGED <<client, toClose, closeFailed, overlap, transports, pools, req>>
        /\ UNCHANGED <<cancelled, outcome>> /\ Created' = Created
    BY <1>4 DEF vars, closeVars, Created
  <2>2. TrustInv'
    BY <2>1 DEF FullInv, TrustInv, BudgetSuffices, TrustedOrigins
  <2>3. ClosingInv'
    BY <2>1 DEF FullInv, ClosingInv
  <2> QED
    BY <2>2, <2>3
<1>5. TrustInv' /\ ClosingInv'
  BY <1>2, <1>3, <1>4 DEF Next
<1> QED
  BY <1>1, <1>5 DEF FullInv

LEMMA FullInvariantHolds == Spec => []FullInv
BY FullInitInvariant, FullNextInvariant, PTL DEF Spec

\* max_hosts pools are never given back, but since request_kind lets only
\* trusted origins through, no request is refused for want of a pool when the
\* issuer and the allowlist fit into the budget.
THEOREM BudgetIsEnough == Spec => []BudgetSuffices
<1>1. FullInv => BudgetSuffices
  BY DEF FullInv, TrustInv
<1> QED
  BY <1>1, FullInvariantHolds, PTL

\* When aclose() has returned without an error, whatever raced it, only a pool
\* that an uncancelled request created after the table was emptied is open.
THEOREM NothingOrphaned == Spec => []NoOrphanPools
<1>1. ASSUME FullInv PROVE NoOrphanPools
  <2>1. ASSUME client = "closed", ~closeFailed, NEW p \in Created, pools[p].open
        PROVE  p[2] = "late" /\ pools[p].by \in overlap
    <3>1. p[2] \in {"early", "late"}
      BY DEF Created, PoolIds
    <3> QED
      BY <1>1, <2>1, <3>1 DEF FullInv, ClosingInv
  <2> QED
    BY <2>1 DEF NoOrphanPools
<1> QED
  BY <1>1, FullInvariantHolds, PTL
=============================================================================
