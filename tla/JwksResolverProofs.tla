------------------------- MODULE JwksResolverProofs -------------------------
(***************************************************************************)
(* Proofs about JwksResolver, for any number of calls, URIs and keys, any  *)
(* lifespan and any cooldown; the last part is about JwksDocument.         *)
(***************************************************************************)
EXTENDS JwksResolver, SetInduction, TLAPS

-----------------------------------------------------------------------------
(* What a step of the call r does to the state calls share: everything it  *)
(* writes keeps its type, and only r moves.  It never ends in "replied",   *)
(* which only the provider's answer sets.                                  *)

TypedStep(r) ==
  /\ pc' \in [Requests -> {"idle"} \cup Waiting \cup Returned]
  /\ job' \in [Requests -> Job \cup {None}]
  /\ holder' \in Requests \cup {None}
  /\ waiters' \in Seq(Requests)
  /\ pc'[r] # "replied"
  /\ pc'[r] # "error" => job'[r] \in Job
  /\ \A s \in Requests \ {r} : pc'[s] = pc[s] /\ job'[s] = job[s]

TypedTables ==
  /\ lastForced' \in [Uris -> Nat \cup {None}]
  /\ fetches' \in [Uris -> Nat] /\ failures' \in [Uris -> Nat]
  /\ forcedAt' \in [Uris -> Nat \cup {None}]

\* The locals of a call keep their type under every update resolve() makes.
LEMMA JobUpdates ==
  ASSUME NEW j \in Job, NEW b \in BOOLEAN, NEW n \in Nat
  PROVE  /\ [j EXCEPT !.forced = b] \in Job
         /\ [j EXCEPT !.begun = n] \in Job
         /\ [j EXCEPT !.forced = b].uri = j.uri
         /\ [j EXCEPT !.forced = b].key = j.key
         /\ [j EXCEPT !.forced = b].absent = j.absent
         /\ [j EXCEPT !.begun = n].uri = j.uri
         /\ [j EXCEPT !.begun = n].forced = j.forced
         /\ j.uri \in Uris
BY DEF Job

\* A new call starts with well-typed locals.
LEMMA NewJobType ==
  ASSUME NEW u \in Uris, NEW k \in Keys
  PROVE  NewJob(u, k) \in Job /\ NewJob(u, k).uri = u /\ NewJob(u, k).key = k
BY DEF NewJob, Job

\* Returning a key, or none, is a typed step.
LEMMA ReturnTyped ==
  ASSUME TypeOK, NEW r \in Requests, NEW j \in Job,
         NEW q \in Seq(Requests), NEW result \in {"accepted", "nokey"},
         Return(r, j, result, q)
  PROVE  TypedStep(r)
<1>1. [j EXCEPT !.forced = FALSE] \in Job
  BY JobUpdates
<1> QED
  BY <1>1 DEF TypeOK, Return, TypedStep, Waiting, Returned

\* Raising SigningKeyError is a typed step.
LEMMA RaiseTyped ==
  ASSUME TypeOK, NEW r \in Requests, NEW q \in Seq(Requests), Raise(r, q),
         holder' \in Requests \cup {None}
  PROVE  TypedStep(r)
BY DEF TypeOK, Raise, TypedStep, Waiting, Returned

\* Suspending on the lock is a typed step.
LEMMA SuspendTyped ==
  ASSUME TypeOK, NEW r \in Requests, NEW j \in Job, NEW h \in Requests \cup {None},
         NEW q \in Seq(Requests), Suspend(r, j, h, q)
  PROVE  TypedStep(r)
BY DEF TypeOK, Suspend, TypedStep, Waiting, Returned

\* Sending a fetch is a typed step, and counts it.
LEMMA SendFetchTyped ==
  ASSUME TypeOK, NEW r \in Requests, NEW j \in Job, NEW q \in Seq(Requests),
         SendFetch(r, j, q), lastForced' \in [Uris -> Nat \cup {None}]
  PROVE  TypedStep(r) /\ TypedTables
<1>1. now \in Nat /\ [j EXCEPT !.begun = now] \in Job /\ j.uri \in Uris
  BY JobUpdates DEF TypeOK
<1>2. TypedStep(r)
  <2> DEFINE j2 == [j EXCEPT !.begun = now]
  <2>1. j2 \in Job /\ job' = [job EXCEPT ![r] = j2]
    BY <1>1 DEF SendFetch
  <2> HIDE DEF j2
  <2> QED
    BY <2>1 DEF TypeOK, SendFetch, TypedStep, Waiting, Returned
<1>3. TypedTables
  <2>1. /\ fetches' = [fetches EXCEPT ![j.uri] = @ + 1]
        /\ forcedAt' = IF j.forced THEN [forcedAt EXCEPT ![j.uri] = now] ELSE forcedAt
        /\ failures' = failures
    BY DEF SendFetch
  <2> QED
    BY <1>1, <2>1 DEF TypeOK, TypedTables
<1> QED
  BY <1>2, <1>3

\* The forced branch of _keys_for, whatever it decides.
LEMMA ForcedSectionTyped ==
  ASSUME TypeOK, NEW r \in Requests, NEW j \in Job, NEW q \in Seq(Requests),
         ForcedSection(r, j, q)
  PROVE  TypedStep(r) /\ TypedTables
<1>1. CASE Return(r, j, "nokey", q) /\ UNCHANGED <<lastForced, traffic>>
  BY <1>1, ReturnTyped DEF TypeOK, TypedTables, traffic
<1>2. CASE /\ lastForced' = [lastForced EXCEPT ![j.uri] = now]
           /\ SendFetch(r, [j EXCEPT !.forced = TRUE], q)
  <2>1. [j EXCEPT !.forced = TRUE] \in Job
    BY JobUpdates
  <2>2. lastForced' \in [Uris -> Nat \cup {None}]
    BY <1>2 DEF TypeOK
  <2> QED
    BY <1>2, <2>1, <2>2, SendFetchTyped
<1> QED
  BY <1>1, <1>2 DEF ForcedSection

\* A first miss that becomes a forced refresh.
LEMMA ForceAfterReleaseTyped ==
  ASSUME TypeOK, NEW r \in Requests, NEW j \in Job, NEW q \in Seq(Requests),
         ForceAfterRelease(r, j, q)
  PROVE  TypedStep(r) /\ TypedTables
<1>1. CASE /\ Suspend(r, [j EXCEPT !.forced = TRUE], None, q)
           /\ UNCHANGED <<lastForced, traffic>>
  <2>1. [j EXCEPT !.forced = TRUE] \in Job
    BY JobUpdates
  <2> QED
    BY <1>1, <2>1, SuspendTyped DEF TypeOK, TypedTables, traffic
<1>2. CASE ForcedSection(r, j, q)
  BY <1>2, ForcedSectionTyped
<1> QED
  BY <1>1, <1>2 DEF ForceAfterRelease

\* The queue without its first waiter is a queue.
LEMMA TailTyped ==
  ASSUME NEW q \in Seq(Requests), q # <<>>
  PROVE  Tail(q) \in Seq(Requests)
OBVIOUS

\* The queue without the waiter at position i is a queue.
LEMMA RemovalTyped ==
  ASSUME NEW q \in Seq(Requests), NEW i \in DOMAIN q
  PROVE  SubSeq(q, 1, i - 1) \o SubSeq(q, i + 1, Len(q)) \in Seq(Requests)
<1>1. i \in Nat /\ i >= 1 /\ i <= Len(q) /\ Len(q) \in Nat
  OBVIOUS
<1>2. SubSeq(q, 1, i - 1) \in Seq(Requests)
  BY <1>1
<1>3. SubSeq(q, i + 1, Len(q)) \in Seq(Requests)
  BY <1>1
<1> QED
  BY <1>2, <1>3

-----------------------------------------------------------------------------
(* Type correctness, action by action.                                     *)

\* A typed step of r is all TypeOK needs when r leaves no reply pending, and
\* the tables the provider and the cache write are typed.
LEMMA TypeFromStep ==
  ASSUME TypeOK, NEW r \in Requests, TypedStep(r), TypedTables,
         now' \in Nat,
         published' \in [Uris -> SUBSET Keys],
         epoch' \in [Uris -> Nat],
         removedAt' \in [Uris -> [Keys -> Nat]],
         cache' \in [Uris -> Entry \cup {None}],
         reply' \in [Requests -> Reply \cup {None}],
         \A s \in Requests \ {r} : reply'[s] = reply[s]
  PROVE  TypeOK'
<1>1. \A s \in Requests : /\ pc'[s] \in Waiting \cup {"accepted", "nokey"} => job'[s] \in Job
                          /\ pc'[s] = "replied" => reply'[s] \in Reply
  <2> TAKE s \in Requests
  <2>1. CASE s = r
    BY <2>1 DEF TypedStep, Waiting
  <2>2. CASE s # r
    BY <2>2 DEF TypedStep, TypeOK
  <2> QED
    BY <2>1, <2>2
<1> QED
  BY <1>1 DEF TypeOK, TypedStep, TypedTables

\* Every state of JwksResolver is well typed at the start.
LEMMA TypeInit == Init => TypeOK
<1> SUFFICES ASSUME Init PROVE TypeOK
  OBVIOUS
<1>1. job \in [Requests -> Job \cup {None}] /\ reply \in [Requests -> Reply \cup {None}]
  BY DEF Init
<1>2. pc \in [Requests -> {"idle"} \cup Waiting \cup Returned]
      /\ \A r \in Requests : pc[r] \notin Waiting \cup {"accepted", "nokey"}
                             /\ pc[r] # "replied"
  BY DEF Init, Waiting, Returned
<1> QED
  BY <1>1, <1>2 DEF Init, TypeOK

\* Every step preserves the types.
LEMMA TypeStep == TypeOK /\ [Next]_vars => TypeOK'
<1> SUFFICES ASSUME TypeOK, [Next]_vars PROVE TypeOK'
  OBVIOUS
<1> USE DEF providerVars, lockVars, traffic
<1>1. ASSUME NEW r \in Requests, RejectHeader(r) PROVE TypeOK'
  <2>1. waiters \in Seq(Requests) /\ holder' \in Requests \cup {None}
        /\ Raise(r, waiters)
    BY <1>1 DEF RejectHeader, TypeOK
  <2> QED
    BY <1>1, <2>1, RaiseTyped, TypeFromStep DEF RejectHeader, TypeOK, TypedTables
<1>2. ASSUME NEW r \in Requests, NEW u \in Uris, NEW k \in Keys, BeginCached(r, u, k)
      PROVE TypeOK'
  <2> DEFINE j == NewJob(u, k)
  <2>1. j \in Job /\ [j EXCEPT !.forced = TRUE] \in Job
    BY NewJobType, JobUpdates
  <2>2. waiters \in Seq(Requests) /\ holder \in Requests \cup {None} /\ <<>> \in Seq(Requests)
    BY DEF TypeOK
  <2> HIDE DEF j
  <2>3. CASE /\ pc' = [pc EXCEPT ![r] = "accepted"]
             /\ job' = [job EXCEPT ![r] = j]
             /\ UNCHANGED <<lastForced, lockVars, traffic>>
    <3>1. TypedStep(r) /\ TypedTables
      BY <2>1, <2>3 DEF TypeOK, TypedStep, TypedTables, Waiting, Returned
    <3> QED
      BY <1>2, <3>1, TypeFromStep DEF BeginCached, TypeOK
  <2>4. CASE /\ Suspend(r, [j EXCEPT !.forced = TRUE], holder, waiters)
             /\ UNCHANGED <<lastForced, traffic>>
    <3>1. TypedStep(r) /\ TypedTables
      BY <2>1, <2>2, <2>4, SuspendTyped DEF TypeOK, TypedTables
    <3> QED
      BY <1>2, <3>1, TypeFromStep DEF BeginCached, TypeOK
  <2>5. CASE ForcedSection(r, j, <<>>)
    <3>1. TypedStep(r) /\ TypedTables
      BY <2>1, <2>2, <2>5, ForcedSectionTyped
    <3> QED
      BY <1>2, <3>1, TypeFromStep DEF BeginCached, TypeOK
  <2> QED
    BY <1>2, <2>3, <2>4, <2>5 DEF BeginCached, j
<1>3. ASSUME NEW r \in Requests, NEW u \in Uris, NEW k \in Keys, BeginCold(r, u, k)
      PROVE TypeOK'
  <2> DEFINE j == NewJob(u, k)
  <2>1. j \in Job
    BY NewJobType
  <2>2. /\ waiters \in Seq(Requests) /\ holder \in Requests \cup {None} /\ <<>> \in Seq(Requests)
        /\ lastForced' \in [Uris -> Nat \cup {None}]
    BY <1>3 DEF TypeOK, BeginCold
  <2> HIDE DEF j
  <2>3. CASE Suspend(r, j, holder, waiters) /\ UNCHANGED traffic
    <3>1. TypedStep(r) /\ TypedTables
      BY <2>1, <2>2, <2>3, SuspendTyped DEF TypeOK, TypedTables
    <3> QED
      BY <1>3, <3>1, TypeFromStep DEF BeginCold, TypeOK
  <2>4. CASE SendFetch(r, j, <<>>)
    <3>1. TypedStep(r) /\ TypedTables
      BY <2>1, <2>2, <2>4, SendFetchTyped
    <3> QED
      BY <1>3, <3>1, TypeFromStep DEF BeginCold, TypeOK
  <2> QED
    BY <1>3, <2>3, <2>4 DEF BeginCold, j
<1>4. ASSUME NEW r \in Requests, Resume(r) PROVE TypeOK'
  <2>1. job[r] \in Job
    BY <1>4 DEF Resume, TypeOK, Waiting
  <2>2. Tail(waiters) \in Seq(Requests)
    BY <1>4, TailTyped DEF Resume, TypeOK
  <2>3. TypedStep(r) /\ TypedTables
    <3>1. CASE Return(r, job[r], "accepted", Tail(waiters)) /\ UNCHANGED <<lastForced, traffic>>
      BY <2>1, <2>2, <3>1, ReturnTyped DEF TypeOK, TypedTables
    <3>2. CASE ForceAfterRelease(r, job[r], Tail(waiters))
      BY <2>1, <2>2, <3>2, ForceAfterReleaseTyped
    <3>3. CASE ForcedSection(r, job[r], Tail(waiters))
      BY <2>1, <2>2, <3>3, ForcedSectionTyped
    <3>4. CASE SendFetch(r, job[r], Tail(waiters)) /\ UNCHANGED lastForced
      <4>1. lastForced' \in [Uris -> Nat \cup {None}]
        BY <3>4 DEF TypeOK
      <4> QED
        BY <2>1, <2>2, <3>4, <4>1, SendFetchTyped
    <3> QED
      BY <1>4, <3>1, <3>2, <3>3, <3>4 DEF Resume
  <2> QED
    BY <1>4, <2>3, TypeFromStep DEF Resume, TypeOK
<1>5. ASSUME NEW r \in Requests, Respond(r) PROVE TypeOK'
  <2>1. job[r] \in Job /\ job[r].uri \in Uris
    BY <1>5, JobUpdates DEF Respond, TypeOK, Waiting
  <2> DEFINE answer == [keys |-> published[job[r].uri], epoch |-> epoch[job[r].uri]]
  <2>2. answer \in Reply
    BY <2>1 DEF TypeOK, Reply
  <2>3. reply' = [reply EXCEPT ![r] = answer] /\ pc' = [pc EXCEPT ![r] = "replied"]
    BY <1>5 DEF Respond
  <2> HIDE DEF answer
  <2>4. reply' \in [Requests -> Reply \cup {None}] /\ reply'[r] \in Reply
        /\ pc' \in [Requests -> {"idle"} \cup Waiting \cup Returned]
        /\ \A s \in Requests \ {r} : pc'[s] = pc[s] /\ reply'[s] = reply[s]
    BY <2>2, <2>3 DEF TypeOK, Waiting
  <2> QED
    BY <1>5, <2>1, <2>4 DEF Respond, TypeOK
<1>6. ASSUME NEW r \in Requests, Store(r) PROVE TypeOK'
  <2>1. job[r] \in Job /\ reply[r] \in Reply /\ waiters \in Seq(Requests)
    BY <1>6 DEF Store, TypeOK, Waiting
  <2> DEFINE j == [job[r] EXCEPT !.begun = 0]
             entry == [keys |-> reply[r].keys, epoch |-> reply[r].epoch,
                       begun |-> job[r].begun, at |-> now]
             result == IF job[r].key \in reply[r].keys THEN "accepted" ELSE "nokey"
  <2>2. j \in Job /\ job[r].uri \in Uris /\ entry \in Entry
        /\ result \in {"accepted", "nokey"}
    <3>1. job[r].uri \in Uris /\ job[r].begun \in Nat
      BY <2>1 DEF Job
    <3>2. reply[r].keys \in SUBSET Keys /\ reply[r].epoch \in Nat
      BY <2>1 DEF Reply
    <3> QED
      BY <2>1, <3>1, <3>2, JobUpdates DEF Entry, TypeOK
  <2>3. cache' = [cache EXCEPT ![job[r].uri] = entry] /\ reply' = [reply EXCEPT ![r] = None]
    BY <1>6 DEF Store
  <2>4. \/ Return(r, j, result, waiters) /\ UNCHANGED <<lastForced, traffic>>
        \/ ForceAfterRelease(r, j, waiters)
    BY <1>6 DEF Store
  <2> HIDE DEF j, entry, result
  <2>5. TypedStep(r) /\ TypedTables
    <3>1. CASE Return(r, j, result, waiters) /\ UNCHANGED <<lastForced, traffic>>
      BY <2>1, <2>2, <3>1, ReturnTyped DEF TypeOK, TypedTables
    <3>2. CASE ForceAfterRelease(r, j, waiters)
      BY <2>1, <2>2, <3>2, ForceAfterReleaseTyped
    <3> QED
      BY <2>4, <3>1, <3>2
  <2>6. cache' \in [Uris -> Entry \cup {None}] /\ reply' \in [Requests -> Reply \cup {None}]
        /\ \A s \in Requests \ {r} : reply'[s] = reply[s]
    BY <2>2, <2>3 DEF TypeOK
  <2>7. UNCHANGED <<now, published, epoch, removedAt>>
    BY <1>6 DEF Store
  <2> QED
    BY <2>5, <2>6, <2>7, TypeFromStep DEF TypeOK
<1>7. ASSUME NEW r \in Requests, FetchFail(r) PROVE TypeOK'
  <2>1. job[r] \in Job /\ job[r].uri \in Uris
    BY <1>7, JobUpdates DEF FetchFail, TypeOK, Waiting
  <2>2. Raise(r, waiters) /\ waiters \in Seq(Requests) /\ holder' \in Requests \cup {None}
    BY <1>7 DEF FetchFail, TypeOK
  <2>3. TypedTables
    BY <1>7, <2>1 DEF FetchFail, TypeOK, TypedTables
  <2> QED
    BY <1>7, <2>2, <2>3, RaiseTyped, TypeFromStep DEF FetchFail, TypeOK
<1>8. ASSUME NEW r \in Requests, CancelWaiter(r) PROVE TypeOK'
  <2>1. PICK q \in Seq(Requests) : Raise(r, q)
    BY <1>8, RemovalTyped DEF CancelWaiter, TypeOK
  <2>2. TypedStep(r)
    BY <1>8, <2>1, RaiseTyped DEF CancelWaiter, TypeOK
  <2> QED
    BY <1>8, <2>2, TypeFromStep DEF CancelWaiter, TypeOK, TypedTables
<1>9. ASSUME NEW u \in Uris, Rotate(u) PROVE TypeOK'
  <2>1. PICK ks \in SUBSET Keys :
          /\ published' = [published EXCEPT ![u] = ks]
          /\ removedAt' = [removedAt EXCEPT ![u] =
               [k \in Keys |-> IF k \in ks THEN 0
                               ELSE IF k \in published[u] THEN now ELSE removedAt[u][k]]]
          /\ job' = [r \in Requests |->
               IF pc[r] \in Waiting /\ job[r].uri = u /\ job[r].key \notin ks
                 THEN [job[r] EXCEPT !.absent = TRUE]
                 ELSE job[r]]
    BY <1>9 DEF Rotate
  <2>2. \A r \in Requests : /\ pc[r] \in Waiting => job'[r] \in Job
                            /\ pc[r] \notin Waiting => job'[r] = job[r]
    <3> TAKE r \in Requests
    <3>1. CASE pc[r] \in Waiting
      <4>1. job[r] \in Job
        BY <3>1 DEF TypeOK
      <4>2. [job[r] EXCEPT !.absent = TRUE] \in Job
        BY <4>1 DEF Job
      <4> QED
        BY <2>1, <4>1, <4>2
    <3> QED
      BY <2>1, <3>1
  <2>3. job' \in [Requests -> Job \cup {None}]
    BY <2>1, <2>2 DEF TypeOK
  <2>4. /\ published' \in [Uris -> SUBSET Keys]
        /\ removedAt' \in [Uris -> [Keys -> Nat]]
        /\ epoch' \in [Uris -> Nat]
    BY <1>9, <2>1 DEF Rotate, TypeOK
  <2> QED
    BY <1>9, <2>2, <2>3, <2>4 DEF Rotate, TypeOK
<1>10. ASSUME Tick PROVE TypeOK'
  BY <1>10 DEF Tick, callVars, TypeOK
<1>11. ASSUME UNCHANGED vars PROVE TypeOK'
  BY <1>11 DEF vars, callVars, TypeOK
<1> QED
  BY <1>1, <1>2, <1>3, <1>4, <1>5, <1>6, <1>7, <1>8, <1>9, <1>10, <1>11 DEF Next

\* Every reachable state of the resolver is well typed.
THEOREM TypeCorrect == Spec => []TypeOK
BY TypeInit, TypeStep, PTL DEF Spec
-----------------------------------------------------------------------------
(* The fetch lock.                                                         *)

\* How a call that may take the lock leaves it: held by itself, with a fetch
\* that begins now, or free and not fetching.
LockStep(r) ==
  /\ \A s \in Requests \ {r} : pc'[s] = pc[s] /\ job'[s] = job[s]
  /\ \/ pc'[r] = "fetching" /\ holder' = r /\ job'[r].begun = now
     \/ pc'[r] \in {"queued"} \cup Returned /\ holder' = None

\* The pieces of a step that take or release the lock do so: by a fetch,
LEMMA SendFetchLock ==
  ASSUME TypeOK, NEW r \in Requests, NEW j \in Job, NEW q, SendFetch(r, j, q)
  PROVE  LockStep(r)
<1> DEFINE j2 == [j EXCEPT !.begun = now]
<1>1. j2.begun = now /\ job' = [job EXCEPT ![r] = j2]
  BY DEF Job, SendFetch
<1> HIDE DEF j2
<1> QED
  BY <1>1 DEF SendFetch, LockStep, TypeOK

\* ... by returning,
LEMMA ReturnLock ==
  ASSUME TypeOK, NEW r \in Requests, NEW j, NEW q,
         NEW result \in {"accepted", "nokey"}, Return(r, j, result, q)
  PROVE  LockStep(r)
<1> DEFINE j2 == [j EXCEPT !.forced = FALSE]
<1>1. job' = [job EXCEPT ![r] = j2]
  BY DEF Return
<1> HIDE DEF j2
<1> QED
  BY <1>1 DEF Return, LockStep, TypeOK, Returned

\* ... by the decision on a forced refresh,
LEMMA ForcedSectionLock ==
  ASSUME TypeOK, NEW r \in Requests, NEW j \in Job, NEW q, ForcedSection(r, j, q)
  PROVE  LockStep(r)
<1>1. [j EXCEPT !.forced = TRUE] \in Job
  BY JobUpdates
<1> QED
  BY <1>1, SendFetchLock, ReturnLock DEF ForcedSection

\* ... by asking for the lock a second time.
LEMMA ForceAfterReleaseLock ==
  ASSUME TypeOK, NEW r \in Requests, NEW j \in Job, NEW q, ForceAfterRelease(r, j, q)
  PROVE  LockStep(r)
<1> DEFINE j2 == [j EXCEPT !.forced = TRUE]
<1>1. CASE Suspend(r, j2, None, q)
  <2> HIDE DEF j2
  <2> QED
    BY <1>1 DEF Suspend, LockStep, TypeOK
<1>2. CASE ForcedSection(r, j, q)
  BY <1>2, ForcedSectionLock
<1> QED
  BY <1>1, <1>2 DEF ForceAfterRelease

\* A call that held the lock, or found it free, keeps the lock single.
LEMMA LockFromStep ==
  ASSUME TypeOK, SingleFlight, NEW r \in Requests, holder \in {None, r}, LockStep(r)
  PROVE  SingleFlight'
BY NoneAssumption DEF SingleFlight, LockStep, Returned

\* A call that does not touch the lock, and neither starts nor ends a fetch.
LEMMA LockFromOther ==
  ASSUME TypeOK, SingleFlight, NEW r \in Requests,
         \A s \in Requests \ {r} : pc'[s] = pc[s],
         pc[r] \in {"fetching", "replied"} <=> pc'[r] \in {"fetching", "replied"},
         holder' = holder
  PROVE  SingleFlight'
BY DEF SingleFlight

\* Nothing is fetched when the resolver starts.
LEMMA LockInit == Init => SingleFlight
BY NoneAssumption DEF Init, SingleFlight

\* Every step keeps at most one fetch in flight, and the lock with it.
LEMMA LockPreserved == TypeOK /\ SingleFlight /\ [Next]_vars => SingleFlight'
<1> SUFFICES ASSUME TypeOK, SingleFlight, [Next]_vars PROVE SingleFlight'
  OBVIOUS
<1> USE DEF providerVars, lockVars, traffic
<1>1. ASSUME NEW r \in Requests, RejectHeader(r) PROVE SingleFlight'
  <2>1. pc[r] \notin {"fetching", "replied"} /\ pc' = [pc EXCEPT ![r] = "error"]
        /\ holder' = holder
    BY <1>1 DEF RejectHeader, Raise, Idle, Returned
  <2> QED
    BY <2>1, LockFromOther DEF TypeOK
<1>2. ASSUME NEW r \in Requests, NEW u \in Uris, NEW k \in Keys, BeginCached(r, u, k)
      PROVE SingleFlight'
  <2> DEFINE j == NewJob(u, k)
  <2>1. j \in Job /\ pc[r] \notin {"fetching", "replied"}
    BY <1>2, NewJobType DEF BeginCached, Idle, Returned
  <2> HIDE DEF j
  <2>2. CASE pc' = [pc EXCEPT ![r] = "accepted"] /\ UNCHANGED lockVars
    BY <2>1, <2>2, LockFromOther DEF TypeOK
  <2>3. CASE Suspend(r, [j EXCEPT !.forced = TRUE], holder, waiters)
    <3>1. pc' = [pc EXCEPT ![r] = "queued"] /\ holder' = holder
      BY <2>3 DEF Suspend
    <3> QED
      BY <2>1, <3>1, LockFromOther DEF TypeOK
  <2>4. CASE LockFree /\ ForcedSection(r, j, <<>>)
    BY <2>1, <2>4, ForcedSectionLock, LockFromStep DEF LockFree
  <2> QED
    BY <1>2, <2>2, <2>3, <2>4 DEF BeginCached, j
<1>3. ASSUME NEW r \in Requests, NEW u \in Uris, NEW k \in Keys, BeginCold(r, u, k)
      PROVE SingleFlight'
  <2> DEFINE j == NewJob(u, k)
  <2>1. j \in Job /\ pc[r] \notin {"fetching", "replied"}
    BY <1>3, NewJobType DEF BeginCold, Idle, Returned
  <2> HIDE DEF j
  <2>2. CASE Suspend(r, j, holder, waiters)
    <3>1. pc' = [pc EXCEPT ![r] = "queued"] /\ holder' = holder
      BY <2>2 DEF Suspend
    <3> QED
      BY <2>1, <3>1, LockFromOther DEF TypeOK
  <2>3. CASE LockFree /\ SendFetch(r, j, <<>>)
    BY <2>1, <2>3, SendFetchLock, LockFromStep DEF LockFree
  <2> QED
    BY <1>3, <2>2, <2>3 DEF BeginCold, j
<1>4. ASSUME NEW r \in Requests, Resume(r) PROVE SingleFlight'
  <2>1. job[r] \in Job /\ holder \in {None, r}
    BY <1>4 DEF Resume, TypeOK, Waiting
  <2>2. LockStep(r)
    BY <1>4, <2>1, ReturnLock, ForceAfterReleaseLock, ForcedSectionLock, SendFetchLock
       DEF Resume
  <2> QED
    BY <2>1, <2>2, LockFromStep
<1>5. ASSUME NEW r \in Requests, Respond(r) PROVE SingleFlight'
  <2>1. pc[r] = "fetching" /\ pc' = [pc EXCEPT ![r] = "replied"] /\ holder' = holder
    BY <1>5 DEF Respond
  <2> QED
    BY <2>1, LockFromOther DEF TypeOK
<1>6. ASSUME NEW r \in Requests, Store(r) PROVE SingleFlight'
  <2>1. [job[r] EXCEPT !.begun = 0] \in Job /\ holder \in {None, r}
    <3>1. job[r] \in Job /\ holder = r
      BY <1>6 DEF Store, TypeOK, Waiting, SingleFlight
    <3> QED
      BY <3>1, JobUpdates
  <2>2. LockStep(r)
    BY <1>6, <2>1, ReturnLock, ForceAfterReleaseLock DEF Store
  <2> QED
    BY <2>1, <2>2, LockFromStep
<1>7. ASSUME NEW r \in Requests, FetchFail(r) PROVE SingleFlight'
  <2>1. holder \in {None, r}
    BY <1>7 DEF FetchFail, SingleFlight
  <2>2. LockStep(r)
    BY <1>7 DEF FetchFail, Raise, LockStep, TypeOK, Returned
  <2> QED
    BY <2>1, <2>2, LockFromStep
<1>8. ASSUME NEW r \in Requests, CancelWaiter(r) PROVE SingleFlight'
  <2>1. pc[r] = "queued" /\ pc' = [pc EXCEPT ![r] = "error"] /\ holder' = holder
    BY <1>8 DEF CancelWaiter, Raise
  <2> QED
    BY <2>1, LockFromOther DEF TypeOK
<1>9. ASSUME NEW u \in Uris, Rotate(u) PROVE SingleFlight'
  BY <1>9 DEF Rotate, SingleFlight
<1>10. ASSUME Tick PROVE SingleFlight'
  BY <1>10 DEF Tick, callVars, SingleFlight
<1>11. ASSUME UNCHANGED vars PROVE SingleFlight'
  BY <1>11 DEF vars, callVars, SingleFlight
<1> QED
  BY <1>1, <1>2, <1>3, <1>4, <1>5, <1>6, <1>7, <1>8, <1>9, <1>10, <1>11 DEF Next

\* At most one request to the provider is in flight, whatever succeeds, fails
\* or is cancelled, and the lock is held for exactly as long.
THEOREM LockSafe == Spec => []SingleFlight
<1>1. Init => TypeOK /\ SingleFlight
  BY TypeInit, LockInit
<1>2. TypeOK /\ SingleFlight /\ [Next]_vars => (TypeOK /\ SingleFlight)'
  BY TypeStep, LockPreserved
<1> QED
  BY <1>1, <1>2, PTL DEF Spec
-----------------------------------------------------------------------------
(* The documents: what ties a cached or travelling document to the history *)
(* of the provider.  The two properties below are not inductive; this is   *)
(* the strengthening.                                                      *)

\* A cached document is no newer than the provider's present one, and any of
\* its keys the provider withdrew was withdrawn after its fetch began.
CacheSound(u) ==
  cache[u] # None =>
    /\ cache[u].epoch <= epoch[u]
    /\ cache[u].begun <= now
    /\ \A k \in cache[u].keys \ published[u] : removedAt[u][k] >= cache[u].begun

\* The same of a document that still travels, which is moreover no older than
\* the cached one: with one fetch in flight nothing can overtake it.
ReplySound(r) ==
  /\ pc[r] \in {"fetching", "replied"} => job[r].begun <= now
  /\ pc[r] = "replied" =>
       LET u == job[r].uri
       IN  /\ reply[r].epoch <= epoch[u]
           /\ cache[u] # None => cache[u].epoch <= reply[r].epoch
           /\ \A k \in reply[r].keys \ published[u] : removedAt[u][k] >= job[r].begun

DocumentsSound ==
  (\A u \in Uris : CacheSound(u)) /\ (\A r \in Requests : ReplySound(r))

IInv == TypeOK /\ SingleFlight /\ DocumentsSound

\* Nothing is cached or travels at the start.
LEMMA DocumentsInit == Init => DocumentsSound
BY DEF Init, DocumentsSound, CacheSound, ReplySound

\* A step of one call that neither stores nor is answered keeps every document
\* sound.
LEMMA DocumentsFromStep ==
  ASSUME TypeOK, DocumentsSound, NEW r \in Requests,
         \A s \in Requests \ {r} : pc'[s] = pc[s] /\ job'[s] = job[s] /\ reply'[s] = reply[s],
         pc'[r] # "replied",
         pc'[r] = "fetching" => job'[r].begun <= now,
         UNCHANGED <<now, published, epoch, removedAt, cache>>
  PROVE  DocumentsSound'
<1>1. ASSUME NEW u \in Uris PROVE CacheSound(u)'
  BY DEF DocumentsSound, CacheSound
<1>2. ASSUME NEW s \in Requests PROVE ReplySound(s)'
  <2>1. CASE s = r
    BY <2>1 DEF ReplySound
  <2>2. CASE s # r
    BY <2>2 DEF DocumentsSound, ReplySound
  <2> QED
    BY <2>1, <2>2
<1> QED
  BY <1>1, <1>2 DEF DocumentsSound

\* How every action of a call but the provider's answer leaves its position.
LEMMA StoreLock ==
  ASSUME TypeOK, SingleFlight, NEW r \in Requests, Store(r)
  PROVE  LockStep(r)
<1>1. [job[r] EXCEPT !.begun = 0] \in Job
  BY JobUpdates DEF Store, TypeOK, Waiting
<1> QED
  BY <1>1, ReturnLock, ForceAfterReleaseLock DEF Store

\* The same for a call handed the lock.
LEMMA ResumeLock ==
  ASSUME TypeOK, NEW r \in Requests, Resume(r)
  PROVE  LockStep(r)
<1>1. job[r] \in Job
  BY DEF Resume, TypeOK, Waiting
<1> QED
  BY <1>1, ReturnLock, ForceAfterReleaseLock, ForcedSectionLock, SendFetchLock DEF Resume

\* The same for a call that begins, unless the lock is busy and it suspends.
LEMMA BeginPosition ==
  ASSUME TypeOK, NEW r \in Requests, NEW u \in Uris, NEW k \in Keys,
         BeginCached(r, u, k) \/ BeginCold(r, u, k)
  PROVE  /\ \A s \in Requests \ {r} : pc'[s] = pc[s] /\ job'[s] = job[s]
         /\ pc'[r] # "replied"
         /\ pc'[r] = "fetching" => job'[r].begun <= now
<1> DEFINE j == NewJob(u, k)
           jf == [j EXCEPT !.forced = TRUE]
<1>1. j \in Job /\ now \in Nat
  BY NewJobType DEF TypeOK
<1>2. \/ pc' = [pc EXCEPT ![r] = "accepted"] /\ job' = [job EXCEPT ![r] = j]
      \/ Suspend(r, jf, holder, waiters)
      \/ Suspend(r, j, holder, waiters)
      \/ ForcedSection(r, j, <<>>)
      \/ SendFetch(r, j, <<>>)
  BY DEF BeginCached, BeginCold
<1> HIDE DEF j, jf
<1>3. CASE LockStep(r)
  BY <1>1, <1>3 DEF LockStep, Returned
<1>4. CASE pc' = [pc EXCEPT ![r] = "accepted"] /\ job' = [job EXCEPT ![r] = j]
  BY <1>4 DEF TypeOK
<1>5. CASE Suspend(r, jf, holder, waiters)
  BY <1>5 DEF Suspend, TypeOK
<1>6. CASE Suspend(r, j, holder, waiters)
  BY <1>6 DEF Suspend, TypeOK
<1> QED
  BY <1>1, <1>2, <1>3, <1>4, <1>5, <1>6, ForcedSectionLock, SendFetchLock

\* Every step keeps every document sound.
LEMMA DocumentsPreserved == IInv /\ [Next]_vars => DocumentsSound'
<1> SUFFICES ASSUME IInv, [Next]_vars PROVE DocumentsSound'
  OBVIOUS
<1>0. TypeOK /\ SingleFlight /\ DocumentsSound /\ now \in Nat
  BY DEF IInv, TypeOK
<1> USE DEF providerVars, lockVars, traffic
<1>1. ASSUME NEW r \in Requests, RejectHeader(r) PROVE DocumentsSound'
  BY <1>0, <1>1, DocumentsFromStep DEF RejectHeader, Raise, TypeOK
<1>2. ASSUME NEW r \in Requests, NEW u \in Uris, NEW k \in Keys,
             BeginCached(r, u, k) \/ BeginCold(r, u, k)
      PROVE DocumentsSound'
  <2>1. UNCHANGED <<now, published, epoch, removedAt, cache, reply>>
    BY <1>2 DEF BeginCached, BeginCold
  <2> QED
    BY <1>0, <1>2, <2>1, BeginPosition, DocumentsFromStep
<1>3. ASSUME NEW r \in Requests, Resume(r) PROVE DocumentsSound'
  <2>1. UNCHANGED <<now, published, epoch, removedAt, cache, reply>>
    BY <1>3 DEF Resume
  <2>2. LockStep(r)
    BY <1>0, <1>3, ResumeLock
  <2> QED
    BY <1>0, <2>1, <2>2, DocumentsFromStep DEF LockStep, Returned
<1>4. ASSUME NEW r \in Requests, Respond(r) PROVE DocumentsSound'
  <2>1. job[r] \in Job /\ job[r].uri \in Uris
    BY <1>0, <1>4, JobUpdates DEF Respond, TypeOK, Waiting
  <2>2. /\ pc[r] = "fetching" /\ pc' = [pc EXCEPT ![r] = "replied"]
        /\ reply'[r].keys = published[job[r].uri] /\ reply'[r].epoch = epoch[job[r].uri]
        /\ \A s \in Requests \ {r} : reply'[s] = reply[s]
        /\ UNCHANGED <<now, published, epoch, removedAt, cache, job>>
    BY <1>0, <1>4 DEF Respond, TypeOK
  <2>3. ASSUME NEW u \in Uris PROVE CacheSound(u)'
    BY <1>0, <2>2 DEF DocumentsSound, CacheSound
  <2>4. ASSUME NEW s \in Requests PROVE ReplySound(s)'
    <3>1. CASE s = r
      <4>1. CacheSound(job[r].uri) /\ ReplySound(r) /\ epoch[job[r].uri] \in Nat
        BY <1>0, <2>1 DEF DocumentsSound, TypeOK
      <4> QED
        BY <2>1, <2>2, <3>1, <4>1 DEF CacheSound, ReplySound
    <3>2. CASE s # r
      BY <1>0, <2>2, <3>2 DEF DocumentsSound, ReplySound, TypeOK
    <3> QED
      BY <3>1, <3>2
  <2> QED
    BY <2>3, <2>4 DEF DocumentsSound
<1>5. ASSUME NEW r \in Requests, Store(r) PROVE DocumentsSound'
  <2>1. /\ job[r] \in Job /\ job[r].uri \in Uris /\ pc[r] = "replied"
        /\ LockStep(r) /\ ReplySound(r)
        /\ \A s \in Requests \ {r} : pc[s] \notin {"fetching", "replied"}
    <3>1. job[r] \in Job
      BY <1>0, <1>5 DEF Store, TypeOK, Waiting
    <3> QED
      BY <1>0, <1>5, <3>1, JobUpdates, StoreLock DEF Store, SingleFlight, DocumentsSound
  <2>2. /\ cache'[job[r].uri] # None => /\ cache'[job[r].uri].epoch = reply[r].epoch
                                        /\ cache'[job[r].uri].begun = job[r].begun
                                        /\ cache'[job[r].uri].keys = reply[r].keys
        /\ \A v \in Uris \ {job[r].uri} : cache'[v] = cache[v]
        /\ UNCHANGED <<now, published, epoch, removedAt>>
    BY <1>0, <1>5, <2>1 DEF Store, TypeOK
  <2>3. ASSUME NEW u \in Uris PROVE CacheSound(u)'
    <3>1. CASE u = job[r].uri
      BY <2>1, <2>2, <3>1 DEF CacheSound, ReplySound
    <3>2. CASE u # job[r].uri
      BY <1>0, <2>2, <3>2 DEF DocumentsSound, CacheSound
    <3> QED
      BY <3>1, <3>2
  <2>4. ASSUME NEW s \in Requests PROVE ReplySound(s)'
    <3>1. pc'[s] # "replied" /\ (pc'[s] = "fetching" => job'[s].begun = now)
      BY <2>1 DEF LockStep, Returned
    <3> QED
      BY <1>0, <2>2, <3>1 DEF ReplySound
  <2> QED
    BY <2>3, <2>4 DEF DocumentsSound
<1>6. ASSUME NEW r \in Requests, FetchFail(r) PROVE DocumentsSound'
  BY <1>0, <1>6, DocumentsFromStep DEF FetchFail, Raise, TypeOK
<1>7. ASSUME NEW r \in Requests, CancelWaiter(r) PROVE DocumentsSound'
  BY <1>0, <1>7, DocumentsFromStep DEF CancelWaiter, Raise, TypeOK
<1>8. ASSUME NEW u \in Uris, Rotate(u) PROVE DocumentsSound'
  <2>1. /\ epoch'[u] = epoch[u] + 1
        /\ \A v \in Uris \ {u} : /\ epoch'[v] = epoch[v]
                                 /\ published'[v] = published[v]
                                 /\ removedAt'[v] = removedAt[v]
        /\ \A k \in Keys \ published'[u] :
             removedAt'[u][k] = IF k \in published[u] THEN now ELSE removedAt[u][k]
        /\ UNCHANGED <<now, cache, pc, reply>>
    BY <1>0, <1>8 DEF Rotate, TypeOK
  <2>2. \A r \in Requests : pc[r] \in {"fetching", "replied"} =>
          job'[r].begun = job[r].begun /\ job'[r].uri = job[r].uri
    <3> TAKE r \in Requests
    <3>1. PICK ks \in SUBSET Keys : job'[r] =
            IF pc[r] \in Waiting /\ job[r].uri = u /\ job[r].key \notin ks
              THEN [job[r] EXCEPT !.absent = TRUE] ELSE job[r]
      BY <1>8 DEF Rotate
    <3>2. pc[r] \in {"fetching", "replied"} => job[r] \in Job
      BY <1>0 DEF TypeOK, Waiting
    <3>3. job[r] \in Job => /\ [job[r] EXCEPT !.absent = TRUE].begun = job[r].begun
                            /\ [job[r] EXCEPT !.absent = TRUE].uri = job[r].uri
      BY DEF Job
    <3> QED
      BY <3>1, <3>2, <3>3
  <2>3. ASSUME NEW v \in Uris PROVE CacheSound(v)'
    <3>1. CASE cache[v] # None
      <4>1. /\ cache[v].keys \subseteq Keys /\ cache[v].epoch \in Nat
            /\ cache[v].begun \in Nat /\ epoch[v] \in Nat /\ cache'[v] = cache[v]
            /\ CacheSound(v)
        BY <1>0, <2>1, <3>1 DEF TypeOK, Entry, DocumentsSound
      <4>2. CASE v = u
        BY <1>0, <2>1, <3>1, <4>1, <4>2 DEF CacheSound
      <4>3. CASE v # u
        BY <1>0, <2>1, <3>1, <4>1, <4>3 DEF CacheSound
      <4> QED
        BY <4>2, <4>3
    <3> QED
      BY <2>1, <3>1 DEF CacheSound
  <2>4. ASSUME NEW r \in Requests PROVE ReplySound(r)'
    <3>1. ReplySound(r)
      BY <1>0 DEF DocumentsSound
    <3>2. CASE pc[r] = "replied"
      <4>1. /\ reply[r].keys \subseteq Keys /\ reply[r].epoch \in Nat
            /\ job[r].begun \in Nat /\ job[r].uri \in Uris /\ epoch[job[r].uri] \in Nat
            /\ job'[r].begun = job[r].begun /\ job'[r].uri = job[r].uri
        BY <1>0, <2>2, <3>2 DEF TypeOK, Reply, Job, Waiting
      <4>2. CASE job[r].uri = u
        BY <1>0, <2>1, <3>1, <3>2, <4>1, <4>2 DEF ReplySound
      <4>3. CASE job[r].uri # u
        BY <1>0, <2>1, <3>1, <3>2, <4>1, <4>3 DEF ReplySound
      <4> QED
        BY <4>2, <4>3
    <3>3. CASE pc[r] # "replied"
      BY <1>0, <2>1, <2>2, <3>1, <3>3 DEF ReplySound
    <3> QED
      BY <3>2, <3>3
  <2> QED
    BY <2>3, <2>4 DEF DocumentsSound
<1>9. ASSUME Tick PROVE DocumentsSound'
  <2>1. /\ now' = now + 1
        /\ UNCHANGED <<published, epoch, removedAt, cache, pc, job, reply>>
    BY <1>9 DEF Tick, callVars
  <2>2. ASSUME NEW u \in Uris PROVE CacheSound(u)'
    BY <1>0, <2>1 DEF DocumentsSound, CacheSound, TypeOK, Entry
  <2>3. ASSUME NEW r \in Requests PROVE ReplySound(r)'
    <3>1. pc[r] \in {"fetching", "replied"} => job[r].begun \in Nat
      BY <1>0 DEF TypeOK, Waiting, Job
    <3> QED
      BY <1>0, <2>1, <3>1 DEF DocumentsSound, ReplySound
  <2> QED
    BY <2>2, <2>3 DEF DocumentsSound
<1>10. ASSUME UNCHANGED vars PROVE DocumentsSound'
  BY <1>0, <1>10 DEF vars, callVars, DocumentsSound, CacheSound, ReplySound
<1> QED
  BY <1>1, <1>2, <1>3, <1>4, <1>5, <1>6, <1>7, <1>8, <1>9, <1>10 DEF Next

\* The inductive invariant holds in every reachable state.
THEOREM InvariantHolds == Spec => []IInv
<1>1. Init => IInv
  BY TypeInit, LockInit, DocumentsInit DEF IInv
<1>2. IInv /\ [Next]_vars => IInv'
  BY TypeStep, LockPreserved, DocumentsPreserved DEF IInv
<1> QED
  BY <1>1, <1>2, PTL DEF Spec

-----------------------------------------------------------------------------
(* What the documents mean for the callers.                                *)

\* Only Store writes the cache, for its own URI.
LEMMA CacheWriters ==
  ASSUME [Next]_vars, cache' # cache
  PROVE  \E r \in Requests : Store(r)
<1>1. ASSUME NEW r \in Requests, RejectHeader(r) \/ Resume(r) \/ Respond(r)
      PROVE  cache' = cache
  BY <1>1 DEF RejectHeader, Resume, Respond
<1>2. ASSUME NEW r \in Requests, FetchFail(r) \/ CancelWaiter(r)
      PROVE  cache' = cache
  BY <1>2 DEF FetchFail, CancelWaiter
<1>3. ASSUME NEW r \in Requests, NEW u \in Uris, NEW k \in Keys,
             BeginCached(r, u, k) \/ BeginCold(r, u, k)
      PROVE  cache' = cache
  BY <1>3 DEF BeginCached, BeginCold
<1>4. ASSUME (\E u \in Uris : Rotate(u)) \/ Tick \/ UNCHANGED vars
      PROVE  cache' = cache
  BY <1>4 DEF Rotate, Tick, vars
<1> QED
  BY <1>1, <1>2, <1>3, <1>4 DEF Next

\* One step replaces a cached document by one at least as new.
LEMMA CacheStep ==
  IInv /\ [Next]_vars =>
    [\A u \in Uris : cache[u] # None =>
       cache'[u] # None /\ cache'[u].epoch >= cache[u].epoch]_cache
<1> SUFFICES ASSUME IInv, [Next]_vars, cache' # cache, NEW u \in Uris, cache[u] # None
             PROVE  cache'[u] # None /\ cache'[u].epoch >= cache[u].epoch
  OBVIOUS
<1>1. PICK r \in Requests : Store(r)
  BY CacheWriters
<1>2. TypeOK /\ TypeOK' /\ ReplySound(r) /\ pc[r] = "replied"
  BY <1>1, TypeStep DEF IInv, DocumentsSound, Store
<1>3. job[r] \in Job /\ reply[r] \in Reply /\ job[r].uri \in Uris /\ reply[r].epoch \in Nat
  BY <1>2 DEF TypeOK, Waiting, Reply, Job
<1>4. cache[u] \in Entry /\ cache[u].epoch \in Nat
  BY <1>2 DEF TypeOK, Entry
<1> DEFINE entry == [keys |-> reply[r].keys, epoch |-> reply[r].epoch,
                     begun |-> job[r].begun, at |-> now]
<1>5. cache' = [cache EXCEPT ![job[r].uri] = entry]
  BY <1>1 DEF Store
<1>6. CASE u = job[r].uri
  <2>1. entry \in Entry
    BY <1>2, <1>3 DEF TypeOK, Entry, Job, Reply
  <2>2. cache'[u] = entry /\ entry.epoch = reply[r].epoch
    BY <1>2, <1>3, <1>5, <1>6 DEF TypeOK
  <2> HIDE DEF entry
  <2> QED
    BY <1>2, <1>3, <1>4, <1>6, <2>1, <2>2, NoneAssumption DEF ReplySound
<1>7. CASE u # job[r].uri
  <2> HIDE DEF entry
  <2> QED
    BY <1>2, <1>4, <1>5, <1>7 DEF TypeOK
<1> QED
  BY <1>6, <1>7

\* A cached document is never replaced by an older one: withdrawn keys do not
\* come back with a slow answer.
THEOREM CacheMonotone == Spec => CacheNeverGoesBack
BY InvariantHolds, CacheStep, PTL DEF Spec, CacheNeverGoesBack

\* A key found in a cached document that is still fresh is published, or was
\* withdrawn less than a lifespan and the latency of its fetch ago.
LEMMA HitSound ==
  ASSUME IInv, NEW u \in Uris, NEW k \in Keys, Fresh(u), k \in cache[u].keys
  PROVE  \/ k \in published[u]
         \/ now - removedAt[u][k] < Ttl + (cache[u].at - cache[u].begun)
<1>1. CacheSound(u) /\ cache[u] \in Entry /\ now \in Nat /\ removedAt[u][k] \in Nat
  BY DEF IInv, TypeOK, DocumentsSound, Fresh
<1>2. cache[u].at \in Nat /\ cache[u].begun \in Nat /\ now < cache[u].at + Ttl
  BY <1>1 DEF Entry, Fresh
<1> QED
  BY <1>1, <1>2, ParameterAssumption DEF CacheSound, Fresh

\* The pieces of a step that do not return a key.
LEMMA NoKey ==
  ASSUME TypeOK, NEW r \in Requests, NEW j, NEW q,
         \/ ForcedSection(r, j, q)
         \/ ForceAfterRelease(r, j, q)
         \/ \E jj, h : Suspend(r, jj, h, q)
         \/ SendFetch(r, j, q)
  PROVE  pc'[r] # "accepted"
BY DEF TypeOK, ForceAfterRelease, ForcedSection, Suspend, SendFetch, Return

\* What a call that is given a key was given it for.
GivenSoundly(r) ==
  LET u == job'[r].uri
      k == job'[r].key
      latency == cache'[u].at - cache'[u].begun
  IN  /\ k \in cache'[u].keys
      /\ k \in published[u] \/ now - removedAt[u][k] < Ttl + latency

\* Every step that gives a call a key gives it soundly.
LEMMA AcceptStep ==
  IInv /\ [Next]_vars => [\A r \in Requests : Accepts(r) => GivenSoundly(r)]_vars
<1> SUFFICES ASSUME IInv, Next, NEW r \in Requests, Accepts(r) PROVE GivenSoundly(r)
  OBVIOUS
<1>0. TypeOK /\ now \in Nat
  BY DEF IInv, TypeOK
<1> USE DEF providerVars, lockVars, traffic
<1>1. ASSUME NEW s \in Requests, RejectHeader(s) PROVE FALSE
  BY <1>0, <1>1 DEF RejectHeader, Raise, Accepts, TypeOK
<1>2. ASSUME NEW s \in Requests, NEW u \in Uris, NEW k \in Keys, BeginCached(s, u, k)
      PROVE GivenSoundly(r)
  <2>1. s = r
    BY <1>0, <1>2, BeginPosition DEF Accepts
  <2>2. /\ k \in cache[u].keys /\ Fresh(u)
        /\ job' = [job EXCEPT ![r] = NewJob(u, k)]
        /\ UNCHANGED cache
    BY <1>0, <1>2, <2>1, NoKey DEF BeginCached, Accepts
  <2>3. job'[r].uri = u /\ job'[r].key = k
    BY <1>0, <2>2, NewJobType DEF TypeOK
  <2> QED
    BY <2>2, <2>3, HitSound DEF GivenSoundly
<1>3. ASSUME NEW s \in Requests, NEW u \in Uris, NEW k \in Keys, BeginCold(s, u, k)
      PROVE FALSE
  <2>1. s = r
    BY <1>0, <1>3, BeginPosition DEF Accepts
  <2> QED
    BY <1>0, <1>3, <2>1, NoKey DEF BeginCold, Accepts
<1>4. ASSUME NEW s \in Requests, Resume(s) PROVE GivenSoundly(r)
  <2>1. s = r
    BY <1>0, <1>4, ResumeLock DEF LockStep, Accepts
  <2>2. job[r] \in Job
    BY <1>0, <1>4, <2>1 DEF Resume, TypeOK, Waiting
  <2> DEFINE u == job[r].uri
             k == job[r].key
  <2>3. /\ Fresh(u) /\ k \in cache[u].keys /\ UNCHANGED cache
        /\ Return(r, job[r], "accepted", Tail(waiters))
    BY <1>0, <1>4, <2>1, NoKey DEF Resume, Accepts
  <2>4. u \in Uris /\ k \in Keys
    BY <2>2 DEF Job
  <2>5. job'[r].uri = u /\ job'[r].key = k
    <3> DEFINE j == [job[r] EXCEPT !.forced = FALSE]
    <3>1. j.uri = u /\ j.key = k
      BY <2>2, JobUpdates
    <3>2. job' = [job EXCEPT ![r] = j]
      BY <2>3 DEF Return
    <3> HIDE DEF j
    <3> QED
      BY <1>0, <3>1, <3>2 DEF TypeOK
  <2> QED
    BY <2>3, <2>4, <2>5, HitSound DEF GivenSoundly
<1>5. ASSUME NEW s \in Requests, Respond(s) PROVE FALSE
  BY <1>0, <1>5 DEF Respond, Accepts, TypeOK
<1>6. ASSUME NEW s \in Requests, Store(s) PROVE GivenSoundly(r)
  <2>1. s = r
    BY <1>6, StoreLock DEF LockStep, Accepts, IInv
  <2>2. job[r] \in Job /\ reply[r] \in Reply /\ pc[r] = "replied" /\ ReplySound(r)
    BY <1>0, <1>6, <2>1 DEF Store, TypeOK, Waiting, IInv, DocumentsSound
  <2> DEFINE u == job[r].uri
             k == job[r].key
             hit == k \in reply[r].keys
             j == [job[r] EXCEPT !.begun = 0]
  <2>3. hit /\ Return(r, j, "accepted", waiters)
    <3>1. \/ (hit \/ job[r].forced) /\ Return(r, j, IF hit THEN "accepted" ELSE "nokey", waiters)
          \/ ForceAfterRelease(r, j, waiters)
      BY <1>6, <2>1 DEF Store
    <3>2. ~ForceAfterRelease(r, j, waiters)
      BY <1>0, NoKey DEF Accepts
    <3>3. ~hit => ~Return(r, j, "nokey", waiters)
      BY <1>0 DEF Return, Accepts, TypeOK
    <3> HIDE DEF hit, j
    <3> QED
      BY <3>1, <3>2, <3>3
  <2>4. /\ u \in Uris /\ k \in Keys /\ job[r].begun \in Nat
        /\ removedAt[u][k] \in Nat
    BY <1>0, <2>2 DEF Job, TypeOK
  <2>5. job'[r].uri = u /\ job'[r].key = k
    <3> DEFINE j2 == [j EXCEPT !.forced = FALSE]
    <3>1. j2.uri = u /\ j2.key = k
      BY <2>2 DEF Job
    <3>2. job' = [job EXCEPT ![r] = j2]
      BY <2>3 DEF Return
    <3> HIDE DEF j2, j
    <3> QED
      BY <1>0, <3>1, <3>2 DEF TypeOK
  <2>6. /\ cache'[u].keys = reply[r].keys /\ cache'[u].begun = job[r].begun
        /\ cache'[u].at = now
    BY <1>0, <1>6, <2>1, <2>4 DEF Store, TypeOK
  <2>7. k \in published[u] \/ removedAt[u][k] >= job[r].begun
    BY <2>2, <2>3 DEF ReplySound
  <2>8. k \in published[u] \/ now - removedAt[u][k] < Ttl + (now - job[r].begun)
    BY <1>0, <2>4, <2>7, ParameterAssumption
  <2> HIDE DEF j
  <2> QED
    BY <2>3, <2>5, <2>6, <2>8 DEF GivenSoundly
<1>7. ASSUME NEW s \in Requests, FetchFail(s) PROVE FALSE
  BY <1>0, <1>7 DEF FetchFail, Raise, Accepts, TypeOK
<1>8. ASSUME NEW s \in Requests, CancelWaiter(s) PROVE FALSE
  BY <1>0, <1>8 DEF CancelWaiter, Raise, Accepts, TypeOK
<1>9. ASSUME NEW u \in Uris, Rotate(u) PROVE FALSE
  <2>1. pc' = pc /\ (pc[r] \notin Waiting => job'[r] = job[r])
    BY <1>9 DEF Rotate
  <2> QED
    BY <2>1 DEF Accepts, Waiting
<1>10. ASSUME Tick PROVE FALSE
  BY <1>10 DEF Tick, callVars, Accepts
<1> QED
  BY <1>1, <1>2, <1>3, <1>4, <1>5, <1>6, <1>7, <1>8, <1>9, <1>10 DEF Next

\* No token is accepted with a key its provider withdrew longer ago than the
\* cache's lifespan and the latency of the fetch that brought it.
THEOREM RevocationBounded == Spec => RevokedKeyExpires
<1>1. (\A r \in Requests : Accepts(r) => GivenSoundly(r)) <=>
        \A r \in Requests : Accepts(r) =>
          LET u == job'[r].uri
              k == job'[r].key
              latency == cache'[u].at - cache'[u].begun
          IN  /\ k \in cache'[u].keys
              /\ \/ k \in published[u]
                 \/ now - removedAt[u][k] < Ttl + latency
  BY DEF GivenSoundly
<1> QED
  BY <1>1, InvariantHolds, AcceptStep, PTL DEF Spec, RevokedKeyExpires

-----------------------------------------------------------------------------
(* What a caller of resolve() sees of a step made for it, with the URI and *)
(* the key it asked for.                                                   *)

Serves(r, u, k) ==
  /\ UNCHANGED <<now, published, removedAt>>
  /\ \A s \in Requests \ {r} : pc'[s] = pc[s] /\ job'[s] = job[s]
  /\ pc'[r] \in Waiting \cup Returned
  /\ pc'[r] \in Waiting \cup {"accepted"} => job'[r].uri = u /\ job'[r].key = k
  /\ pc'[r] = "accepted" =>
       \/ k \in published[u]
       \/ now - removedAt[u][k] < Ttl + (cache'[u].at - cache'[u].begun)

\* A call goes on wanting what it wanted.
LEMMA StillWanted ==
  ASSUME TypeOK, NEW r \in Requests, NEW j \in Job, NEW q,
         \/ \E result : Return(r, j, result, q)
         \/ SendFetch(r, j, q)
         \/ ForcedSection(r, j, q)
         \/ ForceAfterRelease(r, j, q)
  PROVE  job'[r].uri = j.uri /\ job'[r].key = j.key /\ job'[r].absent = j.absent
<1> DEFINE forced(i) == [i EXCEPT !.forced = TRUE]
           plain(i)  == [i EXCEPT !.forced = FALSE]
           begun(i)  == [i EXCEPT !.begun = now]
<1>1. ASSUME NEW i \in Job
      PROVE  /\ forced(i).uri = i.uri /\ forced(i).key = i.key
             /\ plain(i).uri = i.uri /\ plain(i).key = i.key
             /\ begun(i).uri = i.uri /\ begun(i).key = i.key
             /\ forced(i).absent = i.absent /\ plain(i).absent = i.absent
             /\ begun(i).absent = i.absent /\ forced(i) \in Job
  BY DEF Job
<1>2. PICK i \in {j, forced(j)} :
        job' \in {[job EXCEPT ![r] = plain(j)], [job EXCEPT ![r] = begun(i)],
                  [job EXCEPT ![r] = forced(j)]}
  BY DEF Return, SendFetch, ForcedSection, ForceAfterRelease, Suspend
<1> HIDE DEF forced, plain, begun
<1>3. i \in Job /\ i.uri = j.uri /\ i.key = j.key /\ i.absent = j.absent
  BY <1>1
<1>4. job'[r] \in {plain(j), begun(i), forced(j)}
  BY <1>2 DEF TypeOK
<1> QED
  BY <1>1, <1>3, <1>4

\* A call that begins.
LEMMA BeginServes ==
  ASSUME IInv, NEW r \in Requests, NEW u \in Uris, NEW k \in Keys,
         BeginCached(r, u, k) \/ BeginCold(r, u, k)
  PROVE  Serves(r, u, k)
<1> DEFINE j == NewJob(u, k)
           jf == [j EXCEPT !.forced = TRUE]
<1>1. TypeOK /\ j \in Job /\ j.uri = u /\ j.key = k
  BY NewJobType DEF IInv
<1>2. jf \in Job /\ jf.uri = u /\ jf.key = k
  BY <1>1 DEF Job
<1>3. UNCHANGED <<now, published, removedAt>>
  BY DEF BeginCached, BeginCold, providerVars
<1>4. \A s \in Requests \ {r} : pc'[s] = pc[s] /\ job'[s] = job[s]
  BY <1>1, BeginPosition
<1>5. \/ /\ pc' = [pc EXCEPT ![r] = "accepted"] /\ job' = [job EXCEPT ![r] = j]
         /\ k \in cache[u].keys /\ Fresh(u) /\ cache' = cache
      \/ Suspend(r, jf, holder, waiters)
      \/ Suspend(r, j, holder, waiters)
      \/ ForcedSection(r, j, <<>>)
      \/ SendFetch(r, j, <<>>)
  BY DEF BeginCached, BeginCold
<1> HIDE DEF j, jf
<1>6. CASE /\ pc' = [pc EXCEPT ![r] = "accepted"] /\ job' = [job EXCEPT ![r] = j]
           /\ k \in cache[u].keys /\ Fresh(u) /\ cache' = cache
  <2>1. \/ k \in published[u]
        \/ now - removedAt[u][k] < Ttl + (cache[u].at - cache[u].begun)
    BY <1>6, HitSound
  <2>2. pc'[r] = "accepted" /\ job'[r] = j
    BY <1>1, <1>6 DEF TypeOK
  <2> QED
    BY <1>1, <1>3, <1>4, <1>6, <2>1, <2>2 DEF Serves, Returned
<1>7. CASE Suspend(r, jf, holder, waiters) \/ Suspend(r, j, holder, waiters)
  <2>1. pc'[r] = "queued" /\ job'[r] \in {j, jf}
    BY <1>1, <1>7 DEF Suspend, TypeOK
  <2> QED
    BY <1>1, <1>2, <1>3, <1>4, <2>1 DEF Serves, Waiting
<1>8. CASE ForcedSection(r, j, <<>>) \/ SendFetch(r, j, <<>>)
  <2>1. pc'[r] \in {"nokey", "fetching"}
    BY <1>1, <1>8 DEF ForcedSection, SendFetch, Return, TypeOK
  <2>2. job'[r].uri = u /\ job'[r].key = k
    BY <1>1, <1>8, StillWanted
  <2> QED
    BY <1>3, <1>4, <2>1, <2>2 DEF Serves, Waiting, Returned
<1> QED
  BY <1>5, <1>6, <1>7, <1>8

\* A call whose header is refused.
LEMMA RejectServes ==
  ASSUME IInv, NEW r \in Requests, NEW u, NEW k, RejectHeader(r)
  PROVE  Serves(r, u, k)
<1>1. /\ pc' = [pc EXCEPT ![r] = "error"] /\ job' = [job EXCEPT ![r] = None]
      /\ UNCHANGED <<now, published, removedAt>>
  BY DEF RejectHeader, Raise, providerVars
<1> QED
  BY <1>1 DEF IInv, TypeOK, Serves, Waiting, Returned

\* A call that is under way.
LEMMA StepServes ==
  ASSUME IInv, NEW r \in Requests,
         Resume(r) \/ Respond(r) \/ Store(r) \/ FetchFail(r) \/ CancelWaiter(r)
  PROVE  Serves(r, job[r].uri, job[r].key)
<1> DEFINE u == job[r].uri
           k == job[r].key
<1>1. TypeOK /\ SingleFlight
  BY DEF IInv
<1>2. pc[r] \in Waiting /\ job[r] \in Job
  BY <1>1 DEF TypeOK, Waiting, Resume, Respond, Store, FetchFail, CancelWaiter
<1>3. UNCHANGED <<now, published, removedAt>>
  BY DEF Resume, Respond, Store, FetchFail, CancelWaiter, providerVars
<1>4. ASSUME pc'[r] = "accepted", job'[r].uri = u, job'[r].key = k
      PROVE  \/ k \in published[u]
             \/ now - removedAt[u][k] < Ttl + (cache'[u].at - cache'[u].begun)
  <2>1. Next /\ Accepts(r)
    BY <1>2, <1>4 DEF Next, Accepts, Waiting
  <2>2. GivenSoundly(r)
    <3>1. pc' # pc
      BY <1>2, <1>4 DEF Waiting
    <3>2. ~UNCHANGED vars
      BY <3>1 DEF vars, callVars
    <3> QED
      BY <2>1, <3>2, AcceptStep
  <2> QED
    BY <1>4, <2>2 DEF GivenSoundly
<1>5. CASE Resume(r)
  <2>1. /\ \A s \in Requests \ {r} : pc'[s] = pc[s] /\ job'[s] = job[s]
        /\ pc'[r] \in Waiting \cup Returned
    BY <1>1, <1>5, ResumeLock DEF LockStep, Waiting
  <2>2. job'[r].uri = u /\ job'[r].key = k
    BY <1>1, <1>2, <1>5, StillWanted DEF Resume
  <2> QED
    BY <1>3, <1>4, <2>1, <2>2 DEF Serves
<1>6. CASE Store(r)
  <2>1. /\ \A s \in Requests \ {r} : pc'[s] = pc[s] /\ job'[s] = job[s]
        /\ pc'[r] \in Waiting \cup Returned
    BY <1>1, <1>6, StoreLock DEF LockStep, Waiting
  <2>2. job'[r].uri = u /\ job'[r].key = k
    <3> DEFINE j == [job[r] EXCEPT !.begun = 0]
    <3>1. j \in Job /\ j.uri = u /\ j.key = k
      BY <1>2 DEF Job
    <3>2. \/ \E result : Return(r, j, result, waiters)
          \/ ForceAfterRelease(r, j, waiters)
      BY <1>6 DEF Store
    <3> HIDE DEF j
    <3> QED
      BY <1>1, <3>1, <3>2, StillWanted
  <2> QED
    BY <1>3, <1>4, <2>1, <2>2 DEF Serves
<1>7. CASE Respond(r)
  <2>1. pc' = [pc EXCEPT ![r] = "replied"] /\ job' = job
    BY <1>7 DEF Respond
  <2> QED
    BY <1>1, <1>2, <1>3, <2>1 DEF Serves, TypeOK, Waiting
<1>8. CASE FetchFail(r) \/ CancelWaiter(r)
  <2>1. pc' = [pc EXCEPT ![r] = "error"] /\ job' = [job EXCEPT ![r] = None]
    BY <1>8 DEF FetchFail, CancelWaiter, Raise
  <2> QED
    BY <1>1, <1>3, <2>1 DEF Serves, TypeOK, Waiting, Returned
<1> QED
  BY <1>5, <1>6, <1>7, <1>8

\* The provider and the clock leave every call where it is, wanting the same.
LEMMA EnvironmentServes ==
  ASSUME IInv, Tick \/ \E u \in Uris : Rotate(u)
  PROVE  /\ pc' = pc
         /\ \A r \in Requests : pc[r] \in Waiting =>
              job'[r].uri = job[r].uri /\ job'[r].key = job[r].key
<1>1. CASE Tick
  BY <1>1 DEF Tick, callVars
<1>2. ASSUME NEW u \in Uris, Rotate(u), NEW r \in Requests, pc[r] \in Waiting
      PROVE  job'[r].uri = job[r].uri /\ job'[r].key = job[r].key
  <2>1. job[r] \in Job
    BY <1>2 DEF IInv, TypeOK
  <2> DEFINE j == [job[r] EXCEPT !.absent = TRUE]
  <2>2. j.uri = job[r].uri /\ j.key = job[r].key
    BY <2>1 DEF Job
  <2>3. job'[r] \in {j, job[r]}
    BY <1>2 DEF Rotate
  <2> HIDE DEF j
  <2> QED
    BY <2>2, <2>3
<1>3. ASSUME NEW u \in Uris, Rotate(u) PROVE pc' = pc
  BY <1>3 DEF Rotate
<1> QED
  BY <1>1, <1>2, <1>3
-----------------------------------------------------------------------------
(* How many periods of a length have passed.                               *)

\* A product does not shrink with its factor.
LEMMA ProductGrows ==
  ASSUME NEW t \in Nat, NEW p \in Nat, NEW q \in Nat, p <= q
  PROVE  t * p <= t * q
<1>1. PICK d \in Nat : q = p + d
  <2>1. q - p \in Nat /\ q = p + (q - p)
    OBVIOUS
  <2> QED
    BY <2>1
<1>2. t * q = t * p + t * d
  BY <1>1
<1>3. t * d \in Nat /\ t * p \in Nat
  OBVIOUS
<1> QED
  BY <1>2, <1>3

\* Later moments lie in no earlier period; those a period later in a later one.
LEMMA PeriodsGrow ==
  ASSUME NEW a \in Nat, NEW b \in Nat, NEW t \in Nat \ {0}
  PROVE  /\ a \div t \in Nat
         /\ a <= b => a \div t <= b \div t
         /\ a + t <= b => a \div t + 1 <= b \div t
<1> DEFINE p == b \div t
           q == a \div t
<1>1. /\ p \in Nat /\ q \in Nat
      /\ t * q <= a /\ b < t * p + t
  OBVIOUS
<1> HIDE DEF p, q
<1>2. ASSUME a <= b PROVE q <= p
  <2> SUFFICES ASSUME p + 1 <= q PROVE FALSE
    BY <1>1
  <2>1. t * (p + 1) <= t * q /\ t * (p + 1) = t * p + t
    BY <1>1, ProductGrows
  <2> QED
    BY <1>1, <1>2, <2>1
<1>3. ASSUME a + t <= b PROVE q + 1 <= p
  <2> SUFFICES ASSUME p <= q PROVE FALSE
    BY <1>1
  <2>1. t * p <= t * q
    BY <1>1, ProductGrows
  <2> QED
    BY <1>1, <1>3, <2>1
<1> QED
  BY <1>1, <1>2, <1>3 DEF p, q

-----------------------------------------------------------------------------
(* Outbound traffic.  A failure, the lifespan in which its document is     *)
(* stored or the cooldown in which it was forced pays for a fetch; one that *)
(* is under way while the cache is empty or expired is still owed.         *)

Owed(u) ==
  IF holder # None /\ job[holder].uri = u /\ ~Fresh(u) THEN 1 ELSE 0
Stored(u) == IF cache[u] = None THEN 0 ELSE cache[u].at \div Ttl + 1
Forced(u) == IF lastForced[u] = None THEN 0 ELSE lastForced[u] \div Cooldown + 1

TrafficInv ==
  \A u \in Uris :
    /\ cache[u] # None => cache[u].at <= now
    /\ lastForced[u] # None => lastForced[u] <= now
    /\ fetches[u] <= failures[u] + Owed(u) + Stored(u) + Forced(u)

\* All of these are numbers.
TrafficTypeOK ==
  \A u \in Uris :
    /\ Owed(u) \in {0, 1} /\ Stored(u) \in Nat /\ Forced(u) \in Nat
    /\ fetches[u] \in Nat /\ failures[u] \in Nat

LEMMA TrafficTyped == TypeOK => TrafficTypeOK
<1> SUFFICES ASSUME TypeOK, NEW u \in Uris
             PROVE  /\ Owed(u) \in {0, 1} /\ Stored(u) \in Nat /\ Forced(u) \in Nat
                    /\ fetches[u] \in Nat /\ failures[u] \in Nat
  BY DEF TrafficTypeOK
<1>1. cache[u] # None => cache[u].at \in Nat
  BY DEF TypeOK, Entry
<1>2. lastForced[u] # None => lastForced[u] \in Nat
  BY DEF TypeOK
<1>3. Stored(u) \in Nat
  BY <1>1, ParameterAssumption, PeriodsGrow DEF Stored
<1>4. Forced(u) \in Nat
  BY <1>2, ParameterAssumption, PeriodsGrow DEF Forced
<1> QED
  BY <1>3, <1>4 DEF Owed, TypeOK

\* What a step has to keep: no fetch goes unpaid.
Paid(u) ==
  /\ cache'[u] # None => cache'[u].at <= now'
  /\ lastForced'[u] # None => lastForced'[u] <= now'
  /\ fetches'[u] + failures[u] + Owed(u) + Stored(u) + Forced(u) <=
       fetches[u] + failures'[u] + Owed(u)' + Stored(u)' + Forced(u)'

LEMMA PaidPreserves ==
  ASSUME TypeOK, TypeOK', TrafficInv, \A u \in Uris : Paid(u)
  PROVE  TrafficInv'
<1> SUFFICES ASSUME NEW u \in Uris
             PROVE  /\ cache'[u] # None => cache'[u].at <= now'
                    /\ lastForced'[u] # None => lastForced'[u] <= now'
                    /\ fetches'[u] <= failures'[u] + Owed(u)' + Stored(u)' + Forced(u)'
  BY DEF TrafficInv
<1>1. /\ Owed(u) \in Nat /\ Stored(u) \in Nat /\ Forced(u) \in Nat
      /\ fetches[u] \in Nat /\ failures[u] \in Nat
  BY TrafficTyped DEF TrafficTypeOK
<1>2. /\ Owed(u)' \in Nat /\ Stored(u)' \in Nat /\ Forced(u)' \in Nat
      /\ fetches'[u] \in Nat /\ failures'[u] \in Nat
  <2>1. TrafficTypeOK'
    BY TrafficTyped, PTL
  <2> QED
    BY <2>1 DEF TrafficTypeOK
<1>3. Paid(u) /\ fetches[u] <= failures[u] + Owed(u) + Stored(u) + Forced(u)
  BY DEF TrafficInv
<1> QED
  BY <1>1, <1>2, <1>3 DEF Paid

\* What is owed stays owed while the lock, the cache and the fetch stay.
LEMMA OwedKept ==
  ASSUME TypeOK, NEW u \in Uris, holder' = holder, cache' = cache,
         now' \in Nat, now <= now',
         holder # None => job'[holder].uri = job[holder].uri
  PROVE  Owed(u) <= Owed(u)' /\ Owed(u)' \in {0, 1}
<1>1. ~Fresh(u) => ~Fresh(u)'
  <2>1. cache[u] # None => cache[u].at \in Nat
    BY DEF TypeOK, Entry
  <2> QED
    BY <2>1, ParameterAssumption DEF Fresh, TypeOK
<1> QED
  BY <1>1 DEF Owed

\* A step that sends nothing.
LEMMA NothingSent ==
  ASSUME TypeOK, TrafficInv, UNCHANGED <<holder, cache, lastForced, traffic>>,
         now' \in Nat, now <= now',
         holder # None => job'[holder].uri = job[holder].uri
  PROVE  \A u \in Uris : Paid(u)
<1> SUFFICES ASSUME NEW u \in Uris PROVE Paid(u)
  OBVIOUS
<1>1. /\ Owed(u) \in Nat /\ Stored(u) \in Nat /\ Forced(u) \in Nat
      /\ fetches[u] \in Nat /\ failures[u] \in Nat
  BY TrafficTyped DEF TrafficTypeOK
<1>2. Owed(u) <= Owed(u)' /\ Owed(u)' \in Nat
  BY OwedKept
<1>3. /\ Stored(u)' = Stored(u) /\ Forced(u)' = Forced(u)
      /\ fetches' = fetches /\ failures' = failures
  BY DEF Stored, Forced, traffic
<1>4. /\ cache'[u] # None => cache'[u].at <= now'
      /\ lastForced'[u] # None => lastForced'[u] <= now'
  <2>1. /\ cache[u] # None => cache[u].at <= now /\ cache[u].at \in Nat
        /\ lastForced[u] # None => lastForced[u] <= now /\ lastForced[u] \in Nat
    BY DEF TrafficInv, TypeOK, Entry
  <2> QED
    BY <2>1 DEF TypeOK
<1> QED
  BY <1>1, <1>2, <1>3, <1>4 DEF Paid

\* A forced refresh is paid for by its cooldown.
LEMMA ForcedPaid ==
  ASSUME TypeOK, TrafficInv, NEW r \in Requests, NEW j \in Job, NEW q,
         ForcedSection(r, j, q) \/ ForceAfterRelease(r, j, q), NEW u \in Uris
  PROVE  /\ failures'[u] = failures[u]
         /\ lastForced'[u] # None => lastForced'[u] <= now
         /\ fetches'[u] \in Nat /\ Forced(u)' \in Nat
         /\ fetches'[u] + Forced(u) <= fetches[u] + Forced(u)'
<1>1. /\ Forced(u) \in Nat /\ fetches[u] \in Nat /\ now \in Nat /\ j.uri \in Uris
      /\ lastForced[u] # None => lastForced[u] <= now /\ lastForced[u] \in Nat
  BY TrafficTyped DEF TrafficTypeOK, TrafficInv, TypeOK, Job
<1>2. CASE UNCHANGED <<lastForced, traffic>>
  BY <1>1, <1>2 DEF Forced, traffic
<1>3. CASE /\ ~Cooling(j.uri)
           /\ lastForced' = [lastForced EXCEPT ![j.uri] = now]
           /\ SendFetch(r, [j EXCEPT !.forced = TRUE], q)
  <2> DEFINE jf == [j EXCEPT !.forced = TRUE]
  <2>1. jf.uri = j.uri
    BY JobUpdates
  <2>2. fetches' = [fetches EXCEPT ![jf.uri] = @ + 1] /\ failures' = failures
    BY <1>3 DEF SendFetch
  <2> HIDE DEF jf
  <2>3. CASE u = j.uri
    <3>1. /\ lastForced'[u] = now /\ fetches'[u] = fetches[u] + 1
      BY <1>1, <1>3, <2>1, <2>2, <2>3 DEF TypeOK
    <3>2. Forced(u)' = now \div Cooldown + 1
      BY <1>1, <3>1, NoneAssumption DEF Forced
    <3>3. /\ now \div Cooldown \in Nat
          /\ lastForced[u] # None =>
               /\ lastForced[u] \div Cooldown \in Nat
               /\ lastForced[u] \div Cooldown + 1 <= now \div Cooldown
      <4>1. lastForced[u] # None => lastForced[u] + Cooldown <= now
        BY <1>1, <1>3, <2>3, ParameterAssumption DEF Cooling
      <4> QED
        BY <1>1, <4>1, ParameterAssumption, PeriodsGrow
    <3>4. Forced(u) + 1 <= Forced(u)' /\ Forced(u)' \in Nat
      BY <1>1, <3>2, <3>3 DEF Forced
    <3> QED
      BY <1>1, <2>2, <3>1, <3>4
  <2>4. CASE u # j.uri
    <3>1. lastForced'[u] = lastForced[u] /\ fetches'[u] = fetches[u]
      BY <1>3, <2>1, <2>2, <2>4 DEF TypeOK
    <3>2. Forced(u)' = Forced(u)
      BY <3>1 DEF Forced
    <3> QED
      BY <1>1, <2>2, <3>1, <3>2
  <2> QED
    BY <2>3, <2>4
<1> QED
  BY <1>2, <1>3 DEF ForcedSection, ForceAfterRelease

\* A forced refresh, or none, by a call that finds the lock free.
LEMMA FreePaid ==
  ASSUME TypeOK, TypeOK', TrafficInv, NEW r \in Requests, NEW j \in Job, NEW q,
         ForcedSection(r, j, q) \/ ForceAfterRelease(r, j, q),
         holder = None, UNCHANGED <<now, cache>>
  PROVE  \A u \in Uris : Paid(u)
<1> SUFFICES ASSUME NEW u \in Uris PROVE Paid(u)
  OBVIOUS
<1>1. /\ Stored(u) \in Nat /\ Forced(u) \in Nat
      /\ fetches[u] \in Nat /\ failures[u] \in Nat
  BY TrafficTyped DEF TrafficTypeOK
<1>2. Owed(u) = 0 /\ Owed(u)' \in {0, 1} /\ Stored(u)' = Stored(u)
  BY DEF Owed, Stored
<1>3. cache[u] # None => cache[u].at <= now
  BY DEF TrafficInv
<1> QED
  BY <1>1, <1>2, <1>3, ForcedPaid DEF Paid

\* A fetch that is sent because the cache is empty or expired.
LEMMA ColdPaid ==
  ASSUME TypeOK, TrafficInv, NEW r \in Requests, NEW j \in Job, NEW q,
         SendFetch(r, j, q), ~Fresh(j.uri), holder = None,
         UNCHANGED <<now, cache, lastForced>>
  PROVE  \A u \in Uris : Paid(u)
<1> SUFFICES ASSUME NEW u \in Uris PROVE Paid(u)
  OBVIOUS
<1>1. /\ Stored(u) \in Nat /\ Forced(u) \in Nat
      /\ fetches[u] \in Nat /\ failures[u] \in Nat /\ j.uri \in Uris
  BY TrafficTyped DEF TrafficTypeOK, Job
<1>2. /\ fetches' = [fetches EXCEPT ![j.uri] = @ + 1] /\ failures' = failures
      /\ holder' = r /\ r # None
  BY NoneAssumption DEF SendFetch
<1>3. job'[r].uri = j.uri
  BY StillWanted
<1>4. Owed(u) = 0 /\ Owed(u)' = IF u = j.uri THEN 1 ELSE 0
  <2>1. Fresh(u)' <=> Fresh(u)
    BY DEF Fresh
  <2>2. CASE u = j.uri
    BY <1>2, <1>3, <2>1, <2>2 DEF Owed
  <2>3. CASE u # j.uri
    BY <1>2, <1>3, <2>3 DEF Owed
  <2> QED
    BY <2>2, <2>3
<1>5. Stored(u)' = Stored(u) /\ Forced(u)' = Forced(u)
  BY DEF Stored, Forced
<1>6. fetches'[u] = IF u = j.uri THEN fetches[u] + 1 ELSE fetches[u]
  BY <1>1, <1>2 DEF TypeOK
<1>7. /\ cache'[u] # None => cache'[u].at <= now'
      /\ lastForced'[u] # None => lastForced'[u] <= now'
  BY DEF TrafficInv
<1> QED
  BY <1>1, <1>2, <1>4, <1>5, <1>6, <1>7 DEF Paid

\* What was owed for a fetch is paid when its document is stored.
LEMMA StorePaid ==
  ASSUME TypeOK, TypeOK', SingleFlight, TrafficInv, NEW r \in Requests, Store(r)
  PROVE  \A u \in Uris : Paid(u)
<1> SUFFICES ASSUME NEW u \in Uris PROVE Paid(u)
  OBVIOUS
<1> DEFINE v == job[r].uri
           j == [job[r] EXCEPT !.begun = 0]
           entry == [keys |-> reply[r].keys, epoch |-> reply[r].epoch,
                     begun |-> job[r].begun, at |-> now]
<1>1. /\ job[r] \in Job /\ reply[r] \in Reply /\ holder = r /\ r # None
      /\ v \in Uris /\ now \in Nat
  BY NoneAssumption DEF Store, TypeOK, SingleFlight, Waiting, Job
<1>2. /\ cache' = [cache EXCEPT ![v] = entry] /\ now' = now
      /\ \/ UNCHANGED <<lastForced, traffic>>
         \/ ForceAfterRelease(r, j, waiters)
  BY DEF Store
<1>3. j \in Job
  BY <1>1, JobUpdates
<1>4. entry \in Entry /\ entry.at = now
  BY <1>1 DEF Entry, Job, Reply
<1> HIDE DEF j, entry
<1>5. /\ Owed(u) \in Nat /\ Stored(u) \in Nat /\ Forced(u) \in Nat
      /\ fetches[u] \in Nat /\ failures[u] \in Nat
  BY TrafficTyped DEF TrafficTypeOK
<1>6. /\ failures'[u] = failures[u]
      /\ lastForced'[u] # None => lastForced'[u] <= now
      /\ fetches'[u] \in Nat /\ Forced(u)' \in Nat
      /\ fetches'[u] + Forced(u) <= fetches[u] + Forced(u)'
  <2>1. CASE UNCHANGED <<lastForced, traffic>>
    BY <1>5, <2>1 DEF traffic, Forced, TrafficInv
  <2>2. CASE ForceAfterRelease(r, j, waiters)
    BY <1>3, <2>2, ForcedPaid
  <2> QED
    BY <1>2, <2>1, <2>2
<1>7. /\ cache'[u] # None => cache'[u].at <= now
      /\ Stored(u)' \in Nat /\ Owed(u) + Stored(u) <= Stored(u)'
  <2>1. CASE u = v
    <3>1. cache'[u] = entry /\ cache'[u] # None
      BY <1>1, <1>2, <1>4, <2>1, NoneAssumption DEF TypeOK
    <3>2. Stored(u)' = now \div Ttl + 1
      BY <1>4, <3>1 DEF Stored
    <3>3. /\ now \div Ttl \in Nat
          /\ cache[u] # None =>
               /\ cache[u].at \div Ttl \in Nat
               /\ cache[u].at \div Ttl <= now \div Ttl
               /\ ~Fresh(u) => cache[u].at \div Ttl + 1 <= now \div Ttl
      <4>1. cache[u] # None =>
              /\ cache[u].at \in Nat /\ cache[u].at <= now
              /\ ~Fresh(u) => cache[u].at + Ttl <= now
        BY <1>1, ParameterAssumption DEF TrafficInv, TypeOK, Entry, Fresh
      <4> QED
        BY <1>1, <4>1, ParameterAssumption, PeriodsGrow
    <3>4. Owed(u) + Stored(u) <= now \div Ttl + 1
      BY <3>3 DEF Owed, Stored
    <3> QED
      BY <1>4, <1>1, <3>1, <3>2, <3>3, <3>4
  <2>2. CASE u # v
    <3>1. cache'[u] = cache[u] /\ Owed(u) = 0
      BY <1>1, <1>2, <2>2 DEF Owed, TypeOK
    <3>2. Stored(u)' = Stored(u)
      BY <3>1 DEF Stored
    <3> QED
      BY <1>5, <3>1, <3>2 DEF TrafficInv
  <2> QED
    BY <2>1, <2>2
<1>8. Owed(u)' \in {0, 1}
  BY DEF Owed
<1> QED
  BY <1>2, <1>5, <1>6, <1>7, <1>8 DEF Paid

\* ... or is paid for by the failure.
LEMMA FailPaid ==
  ASSUME TypeOK, SingleFlight, TrafficInv, NEW r \in Requests, FetchFail(r)
  PROVE  \A u \in Uris : Paid(u)
<1> SUFFICES ASSUME NEW u \in Uris PROVE Paid(u)
  OBVIOUS
<1>1. /\ job[r] \in Job /\ holder = r /\ job[r].uri \in Uris
  BY DEF FetchFail, TypeOK, SingleFlight, Waiting, Job
<1>2. /\ failures' = [failures EXCEPT ![job[r].uri] = @ + 1] /\ holder' = None
      /\ UNCHANGED <<now, cache, lastForced, fetches>>
  BY DEF FetchFail
<1>3. /\ Owed(u) \in {0, 1} /\ Stored(u) \in Nat /\ Forced(u) \in Nat
      /\ fetches[u] \in Nat /\ failures[u] \in Nat
  BY TrafficTyped DEF TrafficTypeOK
<1>4. Stored(u)' = Stored(u) /\ Forced(u)' = Forced(u) /\ Owed(u)' = 0
  BY <1>2 DEF Stored, Forced, Owed
<1>5. failures[u] + Owed(u) <= failures'[u] /\ failures'[u] \in Nat
  <2>1. CASE u = job[r].uri
    BY <1>2, <1>3, <2>1 DEF TypeOK
  <2>2. CASE u # job[r].uri
    BY <1>1, <1>2, <1>3, <2>2 DEF TypeOK, Owed
  <2> QED
    BY <2>1, <2>2
<1>6. /\ cache'[u] # None => cache'[u].at <= now'
      /\ lastForced'[u] # None => lastForced'[u] <= now'
  BY <1>2 DEF TrafficInv
<1> QED
  BY <1>2, <1>3, <1>4, <1>5, <1>6 DEF Paid

LEMMA TrafficInit == Init => TrafficInv
BY DEF Init, TrafficInv, Owed, Stored, Forced

\* Every step pays for the fetch it sends, or owes it.
LEMMA TrafficPreserved == IInv /\ TrafficInv /\ [Next]_vars => TrafficInv'
<1> SUFFICES ASSUME IInv, TrafficInv, [Next]_vars PROVE TrafficInv'
  OBVIOUS
<1>1. TypeOK /\ SingleFlight /\ TypeOK' /\ now \in Nat
  BY TypeStep DEF IInv, TypeOK
<1>2. ASSUME UNCHANGED <<holder, cache, lastForced, traffic>>, now' = now \/ now' = now + 1,
             holder # None => job'[holder].uri = job[holder].uri
      PROVE  TrafficInv'
  BY <1>1, <1>2, NothingSent, PaidPreserves
<1>3. ASSUME NEW r \in Requests, Idle(r) \/ pc[r] = "queued" PROVE holder # r
  BY <1>1, <1>3 DEF SingleFlight, Idle, Returned
<1>4. ASSUME NEW r \in Requests, RejectHeader(r) PROVE TrafficInv'
  <2>1. holder # r /\ job' = [job EXCEPT ![r] = None]
        /\ UNCHANGED <<now, holder, cache, lastForced, traffic>>
    BY <1>3, <1>4 DEF RejectHeader, Raise
  <2>2. holder # None => job'[holder] = job[holder]
    BY <1>1, <2>1 DEF TypeOK
  <2> QED
    BY <1>2, <2>1, <2>2
<1>5. ASSUME NEW r \in Requests, NEW u \in Uris, NEW k \in Keys,
             BeginCached(r, u, k) \/ BeginCold(r, u, k)
      PROVE  TrafficInv'
  <2> DEFINE j == NewJob(u, k)
             jf == [j EXCEPT !.forced = TRUE]
  <2>1. j \in Job /\ j.uri = u /\ holder # r /\ UNCHANGED <<now, cache>>
    BY <1>3, <1>5, NewJobType DEF BeginCached, BeginCold
  <2>2. \/ /\ job' = [job EXCEPT ![r] = j] /\ UNCHANGED <<lastForced, lockVars, traffic>>
        \/ Suspend(r, jf, holder, waiters) /\ UNCHANGED <<lastForced, traffic>>
        \/ Suspend(r, j, holder, waiters) /\ UNCHANGED <<lastForced, traffic>>
        \/ LockFree /\ ForcedSection(r, j, <<>>)
        \/ LockFree /\ SendFetch(r, j, <<>>) /\ ~Fresh(u) /\ UNCHANGED lastForced
    BY <1>5 DEF BeginCached, BeginCold
  <2> HIDE DEF j, jf
  <2>3. ASSUME NEW i, job' = [job EXCEPT ![r] = i], holder' = holder,
               UNCHANGED <<lastForced, traffic>>
        PROVE  TrafficInv'
    <3>1. holder # None => job'[holder] = job[holder]
      BY <1>1, <2>1, <2>3 DEF TypeOK
    <3> QED
      BY <1>2, <2>1, <2>3, <3>1
  <2>4. CASE LockFree /\ ForcedSection(r, j, <<>>)
    BY <1>1, <2>1, <2>4, FreePaid, PaidPreserves DEF LockFree
  <2>5. CASE LockFree /\ SendFetch(r, j, <<>>) /\ ~Fresh(u) /\ UNCHANGED lastForced
    BY <1>1, <2>1, <2>5, ColdPaid, PaidPreserves DEF LockFree
  <2> QED
    BY <2>2, <2>3, <2>4, <2>5 DEF Suspend, lockVars
<1>6. ASSUME NEW r \in Requests, Resume(r) PROVE TrafficInv'
  <2> DEFINE rest == Tail(waiters)
             u == job[r].uri
  <2>1. job[r] \in Job /\ holder = None /\ UNCHANGED <<now, cache>>
    BY <1>1, <1>6 DEF Resume, TypeOK, Waiting
  <2>2. \/ Return(r, job[r], "accepted", rest) /\ UNCHANGED <<lastForced, traffic>>
        \/ ForceAfterRelease(r, job[r], rest) \/ ForcedSection(r, job[r], rest)
        \/ ~Fresh(u) /\ SendFetch(r, job[r], rest) /\ UNCHANGED lastForced
    BY <1>6 DEF Resume
  <2>3. CASE Return(r, job[r], "accepted", rest) /\ UNCHANGED <<lastForced, traffic>>
    BY <1>2, <2>1, <2>3 DEF Return
  <2>4. CASE ForceAfterRelease(r, job[r], rest) \/ ForcedSection(r, job[r], rest)
    BY <1>1, <2>1, <2>4, FreePaid, PaidPreserves
  <2>5. CASE ~Fresh(u) /\ SendFetch(r, job[r], rest) /\ UNCHANGED lastForced
    BY <1>1, <2>1, <2>5, ColdPaid, PaidPreserves
  <2> QED
    BY <2>2, <2>3, <2>4, <2>5
<1>7. ASSUME NEW r \in Requests, Respond(r) PROVE TrafficInv'
  BY <1>2, <1>7 DEF Respond, lockVars
<1>8. ASSUME NEW r \in Requests, Store(r) PROVE TrafficInv'
  BY <1>1, <1>8, StorePaid, PaidPreserves
<1>9. ASSUME NEW r \in Requests, FetchFail(r) PROVE TrafficInv'
  BY <1>1, <1>9, FailPaid, PaidPreserves
<1>10. ASSUME NEW r \in Requests, CancelWaiter(r) PROVE TrafficInv'
  <2>1. holder # r /\ job' = [job EXCEPT ![r] = None]
        /\ UNCHANGED <<now, holder, cache, lastForced, traffic>>
    BY <1>3, <1>10 DEF CancelWaiter, Raise
  <2>2. holder # None => job'[holder] = job[holder]
    BY <1>1, <2>1 DEF TypeOK
  <2> QED
    BY <1>2, <2>1, <2>2
<1>11. ASSUME Tick \/ \E u \in Uris : Rotate(u) PROVE TrafficInv'
  <2>1. holder # None => holder \in Requests /\ pc[holder] \in Waiting
    BY <1>1 DEF SingleFlight, TypeOK, Waiting
  <2>2. holder # None => job'[holder].uri = job[holder].uri
    BY <1>11, <2>1, EnvironmentServes
  <2>3. UNCHANGED <<holder, cache, lastForced, traffic>> /\ (now' = now \/ now' = now + 1)
    BY <1>11 DEF Tick, Rotate, lockVars
  <2> QED
    BY <1>2, <2>2, <2>3
<1>12. ASSUME UNCHANGED vars PROVE TrafficInv'
  BY <1>2, <1>12 DEF vars, lockVars, callVars
<1> QED
  BY <1>4, <1>5, <1>6, <1>7, <1>8, <1>9, <1>10, <1>11, <1>12 DEF Next

\* Whatever the callers ask for and however they interleave, the provider sees
\* one fetch per lifespan, one per cooldown and one per failure.
THEOREM TrafficBounded == Spec => []OutboundBounded
<1>1. IInv /\ TrafficInv => OutboundBounded
  <2> SUFFICES ASSUME IInv, TrafficInv, NEW u \in Uris
               PROVE  fetches[u] <=
                        failures[u] + (now \div Ttl + 1) + (now \div Cooldown + 1)
    BY DEF OutboundBounded
  <2>1. /\ Owed(u) \in {0, 1} /\ Stored(u) \in Nat /\ Forced(u) \in Nat
        /\ fetches[u] \in Nat /\ failures[u] \in Nat /\ now \in Nat
    BY TrafficTyped DEF TrafficTypeOK, IInv, TypeOK
  <2>2. Owed(u) + Stored(u) <= now \div Ttl + 1 /\ now \div Ttl \in Nat
    <3>1. cache[u] # None =>
            /\ cache[u].at \in Nat /\ cache[u].at <= now
            /\ ~Fresh(u) => cache[u].at + Ttl <= now
      BY <2>1, ParameterAssumption DEF TrafficInv, IInv, TypeOK, Entry, Fresh
    <3>2. /\ now \div Ttl \in Nat
          /\ cache[u] # None =>
               /\ cache[u].at \div Ttl \in Nat
               /\ cache[u].at \div Ttl <= now \div Ttl
               /\ ~Fresh(u) => cache[u].at \div Ttl + 1 <= now \div Ttl
      BY <2>1, <3>1, ParameterAssumption, PeriodsGrow
    <3> QED
      BY <3>2 DEF Owed, Stored
  <2>3. Forced(u) <= now \div Cooldown + 1 /\ now \div Cooldown \in Nat
    <3>1. lastForced[u] # None => lastForced[u] \in Nat /\ lastForced[u] <= now
      BY DEF TrafficInv, IInv, TypeOK
    <3>2. /\ now \div Cooldown \in Nat
          /\ lastForced[u] # None =>
               /\ lastForced[u] \div Cooldown \in Nat
               /\ lastForced[u] \div Cooldown <= now \div Cooldown
      BY <2>1, <3>1, ParameterAssumption, PeriodsGrow
    <3> QED
      BY <3>2 DEF Forced
  <2>4. fetches[u] <= failures[u] + Owed(u) + Stored(u) + Forced(u)
    BY DEF TrafficInv
  <2> QED
    BY <2>1, <2>2, <2>3, <2>4
<1> QED
  BY <1>1, TrafficInit, TrafficPreserved, InvariantHolds, PTL DEF Spec

-----------------------------------------------------------------------------
(* What a miss means.                                                      *)

\* While a call waits, the flag tells of every moment the provider did not
\* publish its key, the one in which it was answered included.
AbsentInv ==
  \A r \in Requests : pc[r] \in Waiting =>
    /\ job[r].key \notin published[job[r].uri] => job[r].absent
    /\ pc[r] = "replied" /\ job[r].key \notin reply[r].keys => job[r].absent

LEMMA AbsentInit == Init => AbsentInv
BY DEF Init, AbsentInv, Waiting

\* A step of the call r, which is not its provider's answer.
LEMMA AbsentFromStep ==
  ASSUME TypeOK, AbsentInv, NEW r \in Requests, published' = published,
         \A s \in Requests \ {r} : pc'[s] = pc[s] /\ job'[s] = job[s] /\ reply'[s] = reply[s],
         pc'[r] # "replied",
         pc'[r] \in Waiting /\ job'[r].key \notin published[job'[r].uri] => job'[r].absent
  PROVE  AbsentInv'
BY DEF AbsentInv, Waiting

LEMMA AbsentPreserved == IInv /\ AbsentInv /\ [Next]_vars => AbsentInv'
<1> SUFFICES ASSUME IInv, AbsentInv, [Next]_vars PROVE AbsentInv'
  OBVIOUS
<1>1. TypeOK /\ SingleFlight
  BY DEF IInv
<1>2. ASSUME NEW r \in Requests, RejectHeader(r) \/ FetchFail(r) \/ CancelWaiter(r)
      PROVE  AbsentInv'
  <2>1. pc' = [pc EXCEPT ![r] = "error"] /\ job' = [job EXCEPT ![r] = None]
        /\ (reply' = reply \/ reply' = [reply EXCEPT ![r] = None])
        /\ published' = published
    BY <1>2 DEF RejectHeader, FetchFail, CancelWaiter, Raise, providerVars
  <2> QED
    BY <1>1, <2>1, AbsentFromStep DEF TypeOK, Waiting
<1>3. ASSUME NEW r \in Requests, NEW u \in Uris, NEW k \in Keys,
             BeginCached(r, u, k) \/ BeginCold(r, u, k)
      PROVE  AbsentInv'
  <2> DEFINE j == NewJob(u, k)
             jf == [j EXCEPT !.forced = TRUE]
  <2>1. /\ j \in Job /\ j.uri = u /\ j.key = k
        /\ k \notin published[u] => j.absent
    BY NewJobType DEF NewJob
  <2>2. jf \in Job /\ jf.uri = j.uri /\ jf.key = j.key /\ jf.absent = j.absent
    BY <2>1 DEF Job
  <2>3. /\ \A s \in Requests \ {r} : pc'[s] = pc[s] /\ job'[s] = job[s]
        /\ pc'[r] # "replied" /\ reply' = reply /\ published' = published
    BY <1>1, <1>3, BeginPosition DEF BeginCached, BeginCold, providerVars
  <2>4. \/ job' = [job EXCEPT ![r] = j] \/ job' = [job EXCEPT ![r] = jf]
        \/ ForcedSection(r, j, <<>>) \/ SendFetch(r, j, <<>>)
    BY <1>3 DEF BeginCached, BeginCold, Suspend
  <2> HIDE DEF j, jf
  <2>5. job'[r].uri = u /\ job'[r].key = k /\ job'[r].absent = j.absent
    BY <1>1, <2>1, <2>2, <2>4, StillWanted DEF TypeOK
  <2> QED
    BY <1>1, <2>1, <2>3, <2>5, AbsentFromStep
<1>4. ASSUME NEW r \in Requests, Resume(r) \/ Store(r)
      PROVE  AbsentInv'
  <2> DEFINE j == [job[r] EXCEPT !.begun = 0]
  <2>1. pc[r] \in Waiting /\ job[r] \in Job
    BY <1>1, <1>4 DEF Resume, Store, TypeOK, Waiting
  <2>2. /\ j \in Job /\ j.uri = job[r].uri /\ j.key = job[r].key
        /\ j.absent = job[r].absent
    BY <2>1 DEF Job
  <2>3. LockStep(r) /\ published' = published
        /\ (reply' = reply \/ reply' = [reply EXCEPT ![r] = None])
    BY <1>1, <1>4, ResumeLock, StoreLock DEF Resume, Store, providerVars
  <2>4. \E i \in {job[r], j} : \E q :
          \/ \E result : Return(r, i, result, q)
          \/ SendFetch(r, i, q) \/ ForcedSection(r, i, q) \/ ForceAfterRelease(r, i, q)
    BY <1>4 DEF Resume, Store
  <2> HIDE DEF j
  <2>5. job'[r].uri = job[r].uri /\ job'[r].key = job[r].key
        /\ job'[r].absent = job[r].absent
    BY <1>1, <2>1, <2>2, <2>4, StillWanted
  <2>6. job[r].key \notin published[job[r].uri] => job[r].absent
    BY <2>1 DEF AbsentInv
  <2> QED
    BY <1>1, <2>3, <2>5, <2>6, AbsentFromStep DEF LockStep, Returned, TypeOK
<1>5. ASSUME NEW r \in Requests, Respond(r) PROVE AbsentInv'
  <2> DEFINE doc == [keys |-> published[job[r].uri], epoch |-> epoch[job[r].uri]]
  <2>1. /\ pc' = [pc EXCEPT ![r] = "replied"] /\ job' = job /\ published' = published
        /\ reply' = [reply EXCEPT ![r] = doc] /\ pc[r] \in Waiting
    BY <1>5 DEF Respond, providerVars, Waiting
  <2>2. doc.keys = published[job[r].uri]
    OBVIOUS
  <2> HIDE DEF doc
  <2>3. /\ pc'[r] = "replied" /\ reply'[r].keys = published[job[r].uri]
        /\ \A s \in Requests \ {r} : pc'[s] = pc[s] /\ reply'[s] = reply[s]
    BY <1>1, <2>1, <2>2 DEF TypeOK
  <2> QED
    BY <2>1, <2>3 DEF AbsentInv
<1>6. ASSUME NEW u \in Uris, Rotate(u) PROVE AbsentInv'
  <2> SUFFICES ASSUME NEW r \in Requests, pc[r] \in Waiting
               PROVE  /\ job'[r].key \notin published'[job'[r].uri] => job'[r].absent
                      /\ pc[r] = "replied" /\ job'[r].key \notin reply[r].keys
                           => job'[r].absent
    BY <1>6 DEF Rotate, AbsentInv
  <2>1. PICK ks :
          /\ published' = [published EXCEPT ![u] = ks]
          /\ job'[r] = IF job[r].uri = u /\ job[r].key \notin ks
                         THEN [job[r] EXCEPT !.absent = TRUE] ELSE job[r]
    BY <1>6 DEF Rotate
  <2>2. job[r] \in Job
    BY <1>1 DEF TypeOK
  <2>3. CASE job[r].uri = u /\ job[r].key \notin ks
    BY <2>1, <2>2, <2>3 DEF Job
  <2>4. CASE ~(job[r].uri = u /\ job[r].key \notin ks)
    <3>1. job'[r] = job[r]
      BY <2>1, <2>4
    <3>2. job[r].uri \in Uris /\ (job[r].uri = u => published'[u] = ks)
          /\ (job[r].uri # u => published'[job[r].uri] = published[job[r].uri])
      BY <1>1, <2>1, <2>2 DEF TypeOK, Job
    <3> QED
      BY <2>4, <3>1, <3>2 DEF AbsentInv
  <2> QED
    BY <2>3, <2>4
<1>7. ASSUME Tick \/ UNCHANGED vars PROVE AbsentInv'
  BY <1>7 DEF Tick, vars, callVars, providerVars, AbsentInv
<1> QED
  BY <1>2, <1>3, <1>4, <1>5, <1>6, <1>7 DEF Next

\* A forced refresh that is refused meets a cooldown, and leaves it as it is.
LEMMA RefusedWhileCooling ==
  ASSUME TypeOK, NEW r \in Requests, NEW j \in Job, NEW q,
         ForcedSection(r, j, q) \/ ForceAfterRelease(r, j, q), pc'[r] = "nokey"
  PROVE  Cooling(j.uri) /\ lastForced' = lastForced
BY DEF ForcedSection, ForceAfterRelease, SendFetch, Suspend, TypeOK

\* What a step of a call tells of the URI u it asks: `a` is its flag, and
\* without it a key is missing only while that URI cools.
Answers(r, u, a) ==
  /\ pc'[r] \in Waiting \cup {"accepted", "nokey"} =>
       job'[r].uri = u /\ job'[r].absent = a
  /\ pc'[r] = "nokey" =>
       a \/ (lastForced' = lastForced /\ lastForced[u] # None
                                      /\ now - lastForced[u] < Cooldown)

LEMMA BeginAnswers ==
  ASSUME TypeOK, NEW r \in Requests, NEW u \in Uris, NEW k \in Keys,
         BeginCached(r, u, k) \/ BeginCold(r, u, k)
  PROVE  Answers(r, u, k \notin published[u])
<1> DEFINE j == NewJob(u, k)
           jf == [j EXCEPT !.forced = TRUE]
<1>1. j \in Job /\ j.uri = u /\ j.absent = (k \notin published[u])
  BY NewJobType DEF NewJob
<1>2. jf.uri = u /\ jf.absent = j.absent
  BY <1>1 DEF Job
<1>3. \/ pc' = [pc EXCEPT ![r] = "accepted"] /\ job' = [job EXCEPT ![r] = j]
      \/ pc' = [pc EXCEPT ![r] = "queued"] /\ job' = [job EXCEPT ![r] = jf]
      \/ pc' = [pc EXCEPT ![r] = "queued"] /\ job' = [job EXCEPT ![r] = j]
      \/ ForcedSection(r, j, <<>>)
      \/ SendFetch(r, j, <<>>)
  BY DEF BeginCached, BeginCold, Suspend
<1> HIDE DEF j, jf
<1>4. job'[r].uri = u /\ job'[r].absent = j.absent
  BY <1>1, <1>2, <1>3, StillWanted DEF TypeOK
<1>5. pc'[r] = "nokey" => Cooling(u) /\ lastForced' = lastForced
  BY <1>1, <1>3, RefusedWhileCooling DEF SendFetch, TypeOK
<1> QED
  BY <1>1, <1>4, <1>5 DEF Answers, Cooling

LEMMA StepAnswers ==
  ASSUME TypeOK, AbsentInv, NEW r \in Requests,
         Resume(r) \/ Respond(r) \/ Store(r) \/ FetchFail(r) \/ CancelWaiter(r)
  PROVE  Answers(r, job[r].uri, job[r].absent)
<1> DEFINE rest == Tail(waiters)
<1>1. pc[r] \in Waiting /\ job[r] \in Job
  BY DEF Resume, Respond, Store, FetchFail, CancelWaiter, TypeOK, Waiting
<1>2. CASE Resume(r)
  <2>1. \/ Return(r, job[r], "accepted", rest) \/ SendFetch(r, job[r], rest)
        \/ ForcedSection(r, job[r], rest) \/ ForceAfterRelease(r, job[r], rest)
    BY <1>2 DEF Resume
  <2>2. job'[r].uri = job[r].uri /\ job'[r].absent = job[r].absent
    BY <1>1, <2>1, StillWanted
  <2>3. pc'[r] = "nokey" => Cooling(job[r].uri) /\ lastForced' = lastForced
    BY <1>1, <2>1, RefusedWhileCooling DEF Return, SendFetch, TypeOK
  <2> QED
    BY <2>2, <2>3 DEF Answers, Cooling
<1>3. CASE Store(r)
  <2> DEFINE j == [job[r] EXCEPT !.begun = 0]
             hit == job[r].key \in reply[r].keys
  <2>1. j \in Job /\ j.uri = job[r].uri /\ j.absent = job[r].absent
    BY <1>1 DEF Job
  <2>2. \/ Return(r, j, IF hit THEN "accepted" ELSE "nokey", waiters)
        \/ ForceAfterRelease(r, j, waiters)
    BY <1>3 DEF Store
  <2> HIDE DEF j
  <2>3. job'[r].uri = job[r].uri /\ job'[r].absent = job[r].absent
    BY <2>1, <2>2, StillWanted
  <2>4. CASE Return(r, j, IF hit THEN "accepted" ELSE "nokey", waiters)
    <3>1. pc'[r] = "nokey" => ~hit
      BY <2>4 DEF Return, TypeOK
    <3>2. ~hit => job[r].absent
      BY <1>3 DEF AbsentInv, Waiting, Store
    <3> QED
      BY <2>3, <3>1, <3>2 DEF Answers
  <2>5. CASE ForceAfterRelease(r, j, waiters)
    BY <2>1, <2>3, <2>5, RefusedWhileCooling DEF Answers, Cooling
  <2> QED
    BY <2>2, <2>4, <2>5
<1>4. CASE Respond(r)
  BY <1>4 DEF Respond, TypeOK, Answers
<1>5. CASE FetchFail(r) \/ CancelWaiter(r)
  <2>1. pc' = [pc EXCEPT ![r] = "error"]
    BY <1>5 DEF FetchFail, CancelWaiter, Raise
  <2> QED
    BY <2>1 DEF TypeOK, Answers, Waiting
<1> QED
  BY <1>2, <1>3, <1>4, <1>5

\* One step reports a key missing only for one of the two reasons.
LEMMA MissStep ==
  IInv /\ AbsentInv /\ [Next]_vars =>
    [\A r \in Requests : Misses(r) =>
       LET last == lastForced[job'[r].uri]
       IN  job'[r].absent \/ (last # None /\ now - last < Cooldown)]_vars
<1> SUFFICES ASSUME IInv, AbsentInv, Next, NEW r \in Requests, Misses(r)
             PROVE  \/ job'[r].absent
                    \/ /\ lastForced[job'[r].uri] # None
                       /\ now - lastForced[job'[r].uri] < Cooldown
  OBVIOUS
<1>1. TypeOK /\ SingleFlight /\ pc'[r] = "nokey" /\ (pc[r] # "nokey" \/ job'[r] # job[r])
  BY DEF IInv, Misses
<1>2. ASSUME NEW u, NEW a, Answers(r, u, a)
      PROVE  \/ job'[r].absent
             \/ /\ lastForced[job'[r].uri] # None
                /\ now - lastForced[job'[r].uri] < Cooldown
  BY <1>1, <1>2 DEF Answers
<1>3. ASSUME NEW s \in Requests, RejectHeader(s) PROVE FALSE
  <2>1. pc' = [pc EXCEPT ![s] = "error"] /\ job' = [job EXCEPT ![s] = None]
    BY <1>3 DEF RejectHeader, Raise
  <2> QED
    BY <1>1, <2>1 DEF TypeOK
<1>4. ASSUME NEW s \in Requests, NEW u \in Uris, NEW k \in Keys,
             BeginCached(s, u, k) \/ BeginCold(s, u, k)
      PROVE  \E v, a : Answers(r, v, a)
  <2>1. s = r
    BY <1>1, <1>4, BeginPosition
  <2> QED
    BY <1>1, <1>4, <2>1, BeginAnswers
<1>5. ASSUME NEW s \in Requests,
             Resume(s) \/ Respond(s) \/ Store(s) \/ FetchFail(s) \/ CancelWaiter(s)
      PROVE  \E v, a : Answers(r, v, a)
  <2>1. s = r
    BY <1>1, <1>5, StepServes DEF Serves
  <2> QED
    BY <1>1, <1>5, <2>1, StepAnswers
<1>6. ASSUME Tick \/ \E u \in Uris : Rotate(u) PROVE FALSE
  BY <1>1, <1>6 DEF Tick, Rotate, callVars, Waiting
<1> QED
  BY <1>2, <1>3, <1>4, <1>5, <1>6 DEF Next

\* A key that is published during the whole call is reported missing only
\* during the cooldown of an earlier forced refresh.
THEOREM RotationBounded == Spec => RotatedKeyWaitsAtMostCooldown
BY InvariantHolds, AbsentInit, AbsentPreserved, MissStep, PTL
   DEF Spec, RotatedKeyWaitsAtMostCooldown
-----------------------------------------------------------------------------
(* The resolver is a key source.                                           *)

\* A fetch was begun after the document before it arrived, and either it was
\* forced or that document had expired; the answer is what is published,
\* unless the provider has rotated since.
FetchInv ==
  \A r \in Requests : pc[r] \in {"fetching", "replied"} =>
    LET u == job[r].uri
    IN  /\ cache[u] # None =>
             /\ job[r].begun >= cache[u].at
             /\ job[r].begun >= cache[u].at + Ttl \/ job[r].begun = lastForced[u]
        /\ pc[r] = "replied" /\ reply[r].epoch = epoch[u] =>
             reply[r].keys = published[u]

\* Nothing is fetched at the start.
LEMMA FetchInit == Init => FetchInv
BY DEF Init, FetchInv

\* A fetch that a call sends follows the document before it.
Follows(r) ==
  pc'[r] = "fetching" =>
    /\ job'[r].begun = now
    /\ LET u == job'[r].uri
       IN  cache'[u] # None => now >= cache'[u].at + Ttl \/ lastForced'[u] = now

\* A step of the call r, which is not its provider's answer, while no other
\* call fetches or without a change of the tables.
LEMMA FetchFromStep ==
  ASSUME IInv, FetchInv, TrafficInv', NEW r \in Requests,
         \A s \in Requests \ {r} : pc'[s] = pc[s] /\ job'[s] = job[s] /\ reply'[s] = reply[s],
         UNCHANGED <<now, published, epoch>>,
         pc'[r] # "replied", Follows(r), TypeOK',
         \/ UNCHANGED <<cache, lastForced>>
         \/ \A s \in Requests \ {r} : pc[s] \notin {"fetching", "replied"}
  PROVE  FetchInv'
<1> SUFFICES ASSUME NEW s \in Requests, pc'[s] \in {"fetching", "replied"}
             PROVE  LET u == job'[s].uri
                    IN  /\ cache'[u] # None =>
                             /\ job'[s].begun >= cache'[u].at
                             /\ \/ job'[s].begun >= cache'[u].at + Ttl
                                \/ job'[s].begun = lastForced'[u]
                        /\ pc'[s] = "replied" /\ reply'[s].epoch = epoch'[u] =>
                             reply'[s].keys = published'[u]
  BY DEF FetchInv
<1>1. CASE s = r
  <2>1. job'[r] \in Job /\ job'[r].uri \in Uris /\ now' = now
    BY <1>1 DEF TypeOK, Waiting, Job
  <2>2. cache'[job'[r].uri] # None => cache'[job'[r].uri].at <= now
    BY <2>1 DEF TrafficInv
  <2>3. cache'[job'[r].uri] # None => cache'[job'[r].uri].at \in Nat /\ now \in Nat
    BY <2>1 DEF TypeOK, Entry
  <2> QED
    BY <1>1, <2>2, <2>3 DEF Follows
<1>2. CASE s # r
  BY <1>2 DEF FetchInv
<1> QED
  BY <1>1, <1>2

\* What a fetch sent at once follows, given that the entry expired or that the
\* fetch is forced.
LEMMA SendFollows ==
  ASSUME TypeOK, NEW r \in Requests, NEW j \in Job, NEW q, SendFetch(r, j, q),
         cache' = cache, ~Fresh(j.uri) \/ lastForced'[j.uri] = now
  PROVE  Follows(r)
<1>1. job'[r].uri = j.uri
  BY StillWanted
<1>2. pc'[r] = "fetching" => job'[r].begun = now
  BY SendFetchLock DEF LockStep, Returned
<1>3. j.uri \in Uris
  BY DEF Job
<1>4. cache[j.uri] # None /\ ~Fresh(j.uri) => now >= cache[j.uri].at + Ttl
  BY <1>3, ParameterAssumption DEF Fresh, TypeOK, Entry
<1> QED
  BY <1>1, <1>2, <1>4 DEF Follows

\* A decision on a forced refresh, or a second queueing, leaves a fetch that
\* is forced or none.
LEMMA ForcedFollows ==
  ASSUME TypeOK, NEW r \in Requests, NEW j \in Job, NEW q,
         ForcedSection(r, j, q) \/ ForceAfterRelease(r, j, q)
  PROVE  Follows(r)
<1> DEFINE jf == [j EXCEPT !.forced = TRUE]
<1>1. CASE pc'[r] # "fetching"
  BY <1>1 DEF Follows
<1>2. CASE pc'[r] = "fetching"
  <2>1. /\ lastForced' = [lastForced EXCEPT ![j.uri] = now]
        /\ \E p : SendFetch(r, jf, p)
    BY <1>2 DEF ForcedSection, ForceAfterRelease, Suspend, Return, TypeOK
  <2>2. j.uri \in Uris /\ lastForced'[j.uri] = now
    BY <2>1 DEF Job, TypeOK
  <2>3. job'[r].uri = j.uri
    BY StillWanted
  <2>4. job'[r].begun = now
    BY <1>2, ForcedSectionLock, ForceAfterReleaseLock DEF LockStep, Returned
  <2> HIDE DEF jf
  <2> QED
    BY <2>2, <2>3, <2>4 DEF Follows
<1> QED
  BY <1>1, <1>2

\* While a call has the lock, or takes it, nothing else is fetched.
LEMMA NobodyElse ==
  ASSUME IInv, NEW r \in Requests, holder \in {None, r}
  PROVE  \A s \in Requests \ {r} : pc[s] \notin {"fetching", "replied"}
BY NoneAssumption DEF IInv, SingleFlight

LEMMA FetchPreserved ==
  IInv /\ FetchInv /\ TrafficInv' /\ IInv' /\ [Next]_vars => FetchInv'
<1> SUFFICES ASSUME IInv, FetchInv, TrafficInv', IInv', [Next]_vars PROVE FetchInv'
  OBVIOUS
<1>1. TypeOK /\ SingleFlight /\ DocumentsSound /\ TypeOK'
  BY DEF IInv
<1>2. ASSUME NEW r \in Requests, RejectHeader(r) \/ FetchFail(r) \/ CancelWaiter(r)
      PROVE  FetchInv'
  <2>1. pc' = [pc EXCEPT ![r] = "error"] /\ job' = [job EXCEPT ![r] = None]
        /\ (reply' = reply \/ reply' = [reply EXCEPT ![r] = None])
        /\ UNCHANGED <<now, published, epoch, cache, lastForced>>
    BY <1>2 DEF RejectHeader, FetchFail, CancelWaiter, Raise, providerVars
  <2>2. pc'[r] = "error"
    BY <1>1, <2>1 DEF TypeOK
  <2>3. \A s \in Requests \ {r} : pc'[s] = pc[s] /\ job'[s] = job[s] /\ reply'[s] = reply[s]
    BY <1>1, <2>1 DEF TypeOK
  <2> QED
    BY <1>1, <2>1, <2>2, <2>3, FetchFromStep DEF Follows
<1>3. ASSUME NEW r \in Requests, NEW u \in Uris, NEW k \in Keys,
             BeginCached(r, u, k) \/ BeginCold(r, u, k)
      PROVE  FetchInv'
  <2> DEFINE j == NewJob(u, k)
             jf == [j EXCEPT !.forced = TRUE]
  <2>1. j \in Job /\ j.uri = u
    BY NewJobType
  <2>2. /\ \A s \in Requests \ {r} : pc'[s] = pc[s] /\ job'[s] = job[s]
        /\ pc'[r] # "replied" /\ reply' = reply
        /\ UNCHANGED <<now, published, epoch, cache>>
    BY <1>1, <1>3, BeginPosition DEF BeginCached, BeginCold, providerVars
  <2>3. \/ pc' = [pc EXCEPT ![r] = "accepted"] /\ lastForced' = lastForced
        \/ Suspend(r, jf, holder, waiters) /\ lastForced' = lastForced
        \/ Suspend(r, j, holder, waiters) /\ lastForced' = lastForced
        \/ ForcedSection(r, j, <<>>) /\ LockFree
        \/ SendFetch(r, j, <<>>) /\ LockFree /\ ~Fresh(u)
    BY <1>3 DEF BeginCached, BeginCold
  <2> HIDE DEF j, jf
  <2>4. LockFree => holder \in {None, r}
    BY DEF LockFree
  <2>5. Follows(r)
    <3>1. CASE pc' = [pc EXCEPT ![r] = "accepted"] \/ \E i : Suspend(r, i, holder, waiters)
      BY <1>1, <3>1 DEF Suspend, Follows, TypeOK
    <3> QED
      BY <1>1, <2>1, <2>2, <2>3, <3>1, ForcedFollows, SendFollows
  <2>6. \/ UNCHANGED <<cache, lastForced>>
        \/ \A s \in Requests \ {r} : pc[s] \notin {"fetching", "replied"}
    BY <2>2, <2>3, <2>4, NobodyElse
  <2> QED
    BY <1>1, <2>2, <2>5, <2>6, FetchFromStep
<1>4. ASSUME NEW r \in Requests, Resume(r) PROVE FetchInv'
  <2>1. /\ job[r] \in Job /\ holder = None
        /\ UNCHANGED <<now, published, epoch, cache, reply>>
    BY <1>1, <1>4 DEF Resume, TypeOK, Waiting, providerVars
  <2>2. LockStep(r)
    BY <1>1, <1>4, ResumeLock
  <2>3. \/ Return(r, job[r], "accepted", Tail(waiters))
        \/ ForceAfterRelease(r, job[r], Tail(waiters))
        \/ ForcedSection(r, job[r], Tail(waiters))
        \/ SendFetch(r, job[r], Tail(waiters)) /\ ~Fresh(job[r].uri)
    BY <1>4 DEF Resume
  <2>4. Follows(r)
    BY <1>1, <2>1, <2>3, ForcedFollows, SendFollows DEF Return, Follows, TypeOK
  <2> QED
    BY <1>1, <2>1, <2>2, <2>4, NobodyElse, FetchFromStep DEF LockStep, Returned
<1>5. ASSUME NEW r \in Requests, Store(r) PROVE FetchInv'
  <2> DEFINE j == [job[r] EXCEPT !.begun = 0]
             hit == job[r].key \in reply[r].keys
  <2>1. /\ job[r] \in Job /\ pc[r] = "replied" /\ reply' = [reply EXCEPT ![r] = None]
        /\ UNCHANGED <<now, published, epoch>>
    BY <1>1, <1>5 DEF Store, TypeOK, Waiting, providerVars
  <2>2. LockStep(r) /\ holder = r
    BY <1>1, <1>5, <2>1, StoreLock DEF SingleFlight
  <2>3. j \in Job
    BY <2>1, JobUpdates
  <2>4. \/ Return(r, j, IF hit THEN "accepted" ELSE "nokey", waiters)
        \/ ForceAfterRelease(r, j, waiters)
    BY <1>5 DEF Store
  <2> HIDE DEF j, hit
  <2>5. Follows(r)
    BY <1>1, <2>3, <2>4, ForcedFollows DEF Return, Follows, TypeOK
  <2>6. \A s \in Requests \ {r} : pc'[s] = pc[s] /\ job'[s] = job[s] /\ reply'[s] = reply[s]
    BY <1>1, <2>1, <2>2 DEF LockStep, TypeOK
  <2> QED
    BY <1>1, <2>1, <2>2, <2>5, <2>6, NobodyElse, FetchFromStep DEF LockStep, Returned
<1>6. ASSUME NEW r \in Requests, Respond(r) PROVE FetchInv'
  <2> DEFINE doc == [keys |-> published[job[r].uri], epoch |-> epoch[job[r].uri]]
  <2>1. /\ pc' = [pc EXCEPT ![r] = "replied"] /\ pc[r] = "fetching"
        /\ reply' = [reply EXCEPT ![r] = doc]
        /\ UNCHANGED <<now, published, epoch, cache, lastForced, job>>
    BY <1>6 DEF Respond, providerVars
  <2>2. doc.keys = published[job[r].uri]
    OBVIOUS
  <2> HIDE DEF doc
  <2>3. /\ reply'[r].keys = published[job[r].uri]
        /\ \A s \in Requests \ {r} : pc'[s] = pc[s] /\ reply'[s] = reply[s]
    BY <1>1, <2>1, <2>2 DEF TypeOK
  <2> QED
    BY <2>1, <2>3 DEF FetchInv
<1>7. ASSUME NEW u \in Uris, Rotate(u) PROVE FetchInv'
  <2> SUFFICES ASSUME NEW r \in Requests, pc'[r] \in {"fetching", "replied"}
               PROVE  LET v == job'[r].uri
                      IN  /\ cache'[v] # None =>
                               /\ job'[r].begun >= cache'[v].at
                               /\ \/ job'[r].begun >= cache'[v].at + Ttl
                                  \/ job'[r].begun = lastForced'[v]
                          /\ pc'[r] = "replied" /\ reply'[r].epoch = epoch'[v] =>
                               reply'[r].keys = published'[v]
    BY DEF FetchInv
  <2>1. UNCHANGED <<now, cache, lastForced, pc, reply>>
    BY <1>7 DEF Rotate
  <2>2. pc[r] \in Waiting /\ job[r] \in Job /\ job[r].uri \in Uris
    BY <1>1, <2>1 DEF TypeOK, Waiting, Job
  <2> DEFINE j == [job[r] EXCEPT !.absent = TRUE]
  <2>3. job'[r].uri = job[r].uri /\ job'[r].begun = job[r].begun
    <3>1. j.uri = job[r].uri /\ j.begun = job[r].begun
      BY <2>2 DEF Job
    <3>2. job'[r] \in {j, job[r]}
      BY <1>7 DEF Rotate
    <3> HIDE DEF j
    <3> QED
      BY <3>1, <3>2
  <2>4. pc[r] = "replied" => reply[r].epoch # epoch'[job[r].uri] \/ job[r].uri # u
    <3>1. pc[r] = "replied" => /\ reply[r].epoch <= epoch[job[r].uri]
                               /\ reply[r].epoch \in Nat
      BY <1>1 DEF DocumentsSound, ReplySound, TypeOK, Reply
    <3>2. epoch'[u] = epoch[u] + 1 /\ epoch[u] \in Nat
      BY <1>1, <1>7 DEF Rotate, TypeOK
    <3> QED
      BY <3>1, <3>2
  <2>5. job[r].uri # u => /\ epoch'[job[r].uri] = epoch[job[r].uri]
                          /\ published'[job[r].uri] = published[job[r].uri]
    BY <1>1, <1>7, <2>2 DEF Rotate, TypeOK
  <2> QED
    BY <2>1, <2>3, <2>4, <2>5 DEF FetchInv
<1>8. ASSUME Tick \/ UNCHANGED vars PROVE FetchInv'
  BY <1>8 DEF Tick, vars, callVars, providerVars, FetchInv
<1> QED
  BY <1>2, <1>3, <1>4, <1>5, <1>6, <1>7, <1>8 DEF Next

-----------------------------------------------------------------------------
(* The calls, as a key source sees them.                                   *)

\* Every caller but r is where it was.
Alone(r) == \A s \in Requests \ {r} : pc'[s] = pc[s] /\ job'[s] = job[s]

\* c is what the call with the locals j asks for.
Asks(c, j) ==
  /\ c \in KS!Call /\ c.answer = "pending"
  /\ c.uri = j.uri /\ c.key = j.key /\ c.absent = j.absent

\* What r says when it is left in a position, wanting what c asks for.
LEMMA CallAnswers ==
  ASSUME NEW r \in Requests, Alone(r), NEW c \in KS!Call,
         pc'[r] \in Waiting \cup {"accepted", "nokey"}, job'[r].forced \in BOOLEAN,
         job'[r].uri = c.uri, job'[r].key = c.key, job'[r].absent = c.absent
  PROVE  KS!Answer(r, c, IF pc'[r] \in Waiting THEN "pending" ELSE pc'[r], job'[r].forced)
<1> DEFINE a == IF pc'[r] \in Waiting THEN "pending" ELSE pc'[r]
           said == [uri |-> job'[r].uri, key |-> job'[r].key,
                    absent |-> job'[r].absent, missed |-> job'[r].forced, answer |-> a]
<1>1. Calls'[r] = said
  BY DEF Calls
<1> DEFINE d == [uri |-> c.uri, key |-> c.key, absent |-> c.absent,
                 missed |-> job'[r].forced, answer |-> a]
<1>2. said = d
  <2> HIDE DEF a
  <2> QED
    BY Zenon
<1>3. \A s \in Requests \ {r} : Calls'[s] = Calls[s]
  BY DEF Calls, Alone
<1>4. Calls' \in [Requests -> {Calls'[s] : s \in Requests}] /\ DOMAIN Calls = Requests
  BY DEF Calls
<1> HIDE DEF a, said, d
<1>5. Calls' = [Calls EXCEPT ![r] = d]
  BY <1>1, <1>2, <1>3, <1>4
<1> QED
  BY <1>5 DEF KS!Answer, d, a

\* A call that goes on to a forced refresh asks for the same.
LEMMA AsksOn ==
  ASSUME NEW j \in Job, NEW c, Asks(c, j)
  PROVE  /\ [j EXCEPT !.forced = TRUE] \in Job
         /\ [j EXCEPT !.forced = TRUE].forced = TRUE
         /\ Asks(c, [j EXCEPT !.forced = TRUE])
BY DEF Job, Asks

\* The pieces of a step, for a call that asks for c: returning,
LEMMA ReturnServes ==
  ASSUME TypeOK, NEW r \in Requests, NEW j \in Job, NEW q, NEW c, Asks(c, j),
         NEW result \in {"accepted", "nokey"}, Return(r, j, result, q)
  PROVE  KS!Answer(r, c, result, FALSE)
<1>1. pc'[r] = result /\ Alone(r) /\ job'[r].forced = FALSE
  <2>1. job'[r] = [j EXCEPT !.forced = FALSE]
    BY DEF Return, TypeOK
  <2> QED
    BY <2>1, ReturnLock DEF Return, TypeOK, LockStep, Alone, Job
<1>2. job'[r].uri = j.uri /\ job'[r].key = j.key /\ job'[r].absent = j.absent
  BY StillWanted
<1> QED
  BY <1>1, <1>2, CallAnswers DEF Asks, Waiting

\* ... waiting for an answer,
LEMMA FetchServes ==
  ASSUME TypeOK, NEW r \in Requests, NEW j \in Job, NEW q, NEW c, Asks(c, j),
         SendFetch(r, j, q)
  PROVE  KS!Answer(r, c, "pending", j.forced)
<1>1. pc'[r] = "fetching" /\ Alone(r) /\ job'[r].forced = j.forced
  <2>1. job'[r] = [j EXCEPT !.begun = now]
    BY DEF SendFetch, TypeOK
  <2> QED
    BY <2>1, SendFetchLock DEF SendFetch, TypeOK, LockStep, Alone, Job
<1>2. job'[r].uri = j.uri /\ job'[r].key = j.key /\ job'[r].absent = j.absent
  BY StillWanted
<1> QED
  BY <1>1, <1>2, CallAnswers DEF Asks, Waiting, Job

\* ... or for the lock,
LEMMA SuspendServes ==
  ASSUME TypeOK, NEW r \in Requests, NEW j \in Job, NEW h, NEW q, NEW c, Asks(c, j),
         Suspend(r, j, h, q)
  PROVE  KS!Answer(r, c, "pending", j.forced)
<1>1. pc'[r] = "queued" /\ job'[r] = j /\ Alone(r)
  BY DEF Suspend, TypeOK, Alone
<1> QED
  BY <1>1, CallAnswers DEF Asks, Waiting, Job

\* ... and going on without the key, in a recent document that lacks it.
LEMMA ForcedServes ==
  ASSUME TypeOK, NEW r \in Requests, NEW j \in Job, NEW q, NEW c, Asks(c, j),
         KS!Lacks(c.uri, c.key),
         ForcedSection(r, j, q) \/ ForceAfterRelease(r, j, q)
  PROVE  KS!Wait(r, c) \/ KS!Miss(r, c) \/ KS!Retry(r, c)
<1> DEFINE jf == [j EXCEPT !.forced = TRUE]
<1>1. jf \in Job /\ Asks(c, jf) /\ jf.forced = TRUE /\ c.uri = j.uri
  BY AsksOn DEF Asks
<1>2. Cooling(j.uri) <=> KS!Cooling(c.uri)
  BY <1>1 DEF Cooling, KS!Cooling
<1>3. \/ /\ Cooling(j.uri) /\ lastForced' = lastForced
         /\ \E p : Return(r, j, "nokey", p)
      \/ /\ ~Cooling(j.uri) /\ lastForced' = [lastForced EXCEPT ![j.uri] = now]
         /\ \E p : SendFetch(r, jf, p)
      \/ /\ lastForced' = lastForced
         /\ \E p : Suspend(r, jf, None, p)
  BY DEF ForcedSection, ForceAfterRelease
<1> HIDE DEF jf
<1>4. CASE Cooling(j.uri) /\ lastForced' = lastForced /\ \E p : Return(r, j, "nokey", p)
  BY <1>1, <1>2, <1>4, ReturnServes DEF KS!Miss
<1>5. CASE /\ ~Cooling(j.uri) /\ lastForced' = [lastForced EXCEPT ![j.uri] = now]
           /\ \E p : SendFetch(r, jf, p)
  BY <1>1, <1>2, <1>5, FetchServes DEF KS!Retry
<1>6. CASE lastForced' = lastForced /\ \E p : Suspend(r, jf, None, p)
  BY <1>1, <1>6, SuspendServes DEF KS!Wait
<1> QED
  BY <1>3, <1>4, <1>5, <1>6

\* A call that fails says nothing.
LEMMA RaiseServes ==
  ASSUME TypeOK, NEW r \in Requests, NEW q, Raise(r, q),
         UNCHANGED <<now, published, epoch, removedAt, cache, lastForced>>
  PROVE  KS!Fail(r)
<1>1. pc'[r] = "error" /\ Alone(r)
  BY DEF Raise, TypeOK, Alone
<1> DEFINE silent == KS!Silent
<1>2. Calls'[r] = silent
  BY <1>1 DEF Calls, Waiting, KS!Silent
<1>3. \A s \in Requests \ {r} : Calls'[s] = Calls[s]
  BY <1>1 DEF Calls, Alone
<1>4. Calls' \in [Requests -> {Calls'[s] : s \in Requests}] /\ DOMAIN Calls = Requests
  BY DEF Calls
<1> HIDE DEF silent
<1>5. Calls' = [Calls EXCEPT ![r] = silent]
  BY <1>2, <1>3, <1>4
<1> QED
  BY <1>5 DEF KS!Fail, KS!provider, silent

\* A call that is under way asks for what its locals say.
LEMMA CallUnderWay ==
  ASSUME TypeOK, NEW r \in Requests, pc[r] \in Waiting
  PROVE  /\ job[r] \in Job /\ Asks(Calls[r], job[r])
         /\ Calls[r] \in KS!Open(r)
         /\ Calls[r].missed = job[r].forced
<1>1. job[r] \in Job
  BY DEF TypeOK
<1> DEFINE said == [uri |-> job[r].uri, key |-> job[r].key,
                    absent |-> job[r].absent, missed |-> job[r].forced,
                    answer |-> "pending"]
<1>2. Calls[r] = said
  BY DEF Calls
<1>3. /\ said \in KS!Call /\ Asks(said, job[r]) /\ said.answer = "pending"
      /\ said.missed = job[r].forced
  BY <1>1 DEF Job, KS!Call, Asks
<1> HIDE DEF said
<1> QED
  BY <1>1, <1>2, <1>3 DEF KS!Open, KS!Pending

\* A call may begin wherever none is under way.
LEMMA CallBegins ==
  ASSUME TypeOK, NEW r \in Requests, Idle(r), NEW u \in Uris, NEW k \in Keys
  PROVE  \E c \in KS!Open(r) :
           Asks(c, NewJob(u, k)) /\ c.uri = u /\ c.key = k /\ c.missed = FALSE
<1> DEFINE c == KS!Begun(u, k)
<1>1. c \in KS!Call /\ c.answer = "pending" /\ c.uri = u /\ c.key = k
      /\ c.absent = (k \notin published[u]) /\ c.missed = FALSE
  BY DEF KS!Call, KS!Begun
<1>2. Asks(c, NewJob(u, k))
  BY <1>1 DEF Asks, NewJob
<1>3. Calls[r].answer # "pending"
  <2>1. pc[r] \notin Waiting
    BY DEF Idle, Waiting, Returned
  <2>2. Calls[r].answer \in {pc[r], "none"}
    BY <2>1 DEF Calls
  <2> QED
    BY <2>1, <2>2 DEF Idle, Returned
<1>4. c \in KS!Open(r)
  <2>1. ~KS!Pending(r)
    BY <1>3, Zenon DEF KS!Pending
  <2> QED
    BY <2>1 DEF KS!Open
<1> HIDE DEF c
<1> QED
  BY <1>1, <1>2, <1>4

\* A fresh entry is a recent document.
LEMMA FreshRecent ==
  ASSUME TypeOK, NEW u \in Uris, NEW k, Fresh(u), cache' = cache
  PROVE  (k \in cache[u].keys <=> KS!Finds(u, k)) /\ (k \notin cache[u].keys <=> KS!Lacks(u, k))
<1>1. cache[u] \in Entry /\ cache[u] # None /\ now < cache[u].at + Ttl
  BY DEF Fresh, TypeOK
<1>2. now \in Nat /\ cache[u].at \in Nat /\ now - cache[u].at < Ttl
  BY <1>1, ParameterAssumption DEF TypeOK, Entry
<1> QED
  BY <1>1, <1>2 DEF KS!Finds, KS!Lacks

\* A call that begins is served.
LEMMA BeginImplements ==
  ASSUME TypeOK, NEW r \in Requests, NEW u \in Uris, NEW k \in Keys,
         BeginCached(r, u, k) \/ BeginCold(r, u, k)
  PROVE  KS!Serve(r)
<1> DEFINE j == NewJob(u, k)
           jf == [j EXCEPT !.forced = TRUE]
<1>1. Idle(r) /\ cache' = cache /\ UNCHANGED <<now, published, epoch, removedAt>>
  BY DEF BeginCached, BeginCold, providerVars
<1>2. PICK c \in KS!Open(r) : Asks(c, j) /\ c.uri = u /\ c.key = k /\ c.missed = FALSE
  BY <1>1, CallBegins
<1>3. /\ j \in Job /\ jf \in Job /\ Asks(c, jf)
      /\ j.forced = FALSE /\ jf.forced = TRUE
  BY <1>2, NewJobType, AsksOn DEF NewJob
<1>4. \/ /\ Fresh(u) /\ k \in cache[u].keys /\ lastForced' = lastForced
         /\ pc' = [pc EXCEPT ![r] = "accepted"] /\ job' = [job EXCEPT ![r] = j]
      \/ /\ Fresh(u) /\ k \notin cache[u].keys /\ lastForced' = lastForced
         /\ Suspend(r, jf, holder, waiters)
      \/ Suspend(r, j, holder, waiters) /\ lastForced' = lastForced
      \/ Fresh(u) /\ k \notin cache[u].keys /\ ForcedSection(r, j, <<>>)
      \/ SendFetch(r, j, <<>>) /\ lastForced' = lastForced
  BY DEF BeginCached, BeginCold
<1> HIDE DEF j, jf
<1>5. CASE /\ Fresh(u) /\ k \in cache[u].keys /\ lastForced' = lastForced
           /\ pc' = [pc EXCEPT ![r] = "accepted"] /\ job' = [job EXCEPT ![r] = j]
  <2>1. KS!Finds(u, k)
    BY <1>1, <1>5, FreshRecent
  <2>2. Alone(r) /\ pc'[r] = "accepted" /\ job'[r] = j
    BY <1>5 DEF Alone, TypeOK
  <2>3. KS!Answer(r, c, "accepted", FALSE)
    BY <1>2, <1>3, <2>2, CallAnswers DEF Asks, Waiting
  <2> QED
    BY <1>1, <1>2, <1>5, <2>1, <2>3 DEF KS!Serve, KS!Give, KS!provider
<1>6. CASE /\ lastForced' = lastForced
           /\ Suspend(r, j, holder, waiters) \/ SendFetch(r, j, <<>>)
  <2>1. KS!Answer(r, c, "pending", c.missed)
    BY <1>2, <1>3, <1>6, SuspendServes, FetchServes
  <2> QED
    BY <1>1, <1>2, <1>6, <2>1 DEF KS!Serve, KS!Wait, KS!provider
<1>7. CASE Fresh(u) /\ k \notin cache[u].keys /\ ForcedSection(r, j, <<>>)
  <2>1. KS!Lacks(u, k)
    BY <1>1, <1>7, FreshRecent
  <2>2. KS!Wait(r, c) \/ KS!Miss(r, c) \/ KS!Retry(r, c)
    BY <1>2, <1>3, <1>7, <2>1, ForcedServes
  <2> QED
    BY <1>1, <1>2, <2>2 DEF KS!Serve, KS!provider
<1>8. CASE /\ Fresh(u) /\ k \notin cache[u].keys /\ lastForced' = lastForced
           /\ Suspend(r, jf, holder, waiters)
  <2>1. KS!Lacks(c.uri, c.key)
    BY <1>1, <1>2, <1>8, FreshRecent
  <2>2. KS!Answer(r, c, "pending", TRUE)
    BY <1>3, <1>8, SuspendServes
  <2> QED
    BY <1>1, <1>2, <1>8, <2>1, <2>2 DEF KS!Serve, KS!Wait, KS!provider
<1> QED
  BY <1>4, <1>5, <1>6, <1>7, <1>8

\* A call that is handed the lock is served.
LEMMA ResumeImplements ==
  ASSUME TypeOK, NEW r \in Requests, Resume(r)
  PROVE  KS!Serve(r)
<1> DEFINE c == Calls[r]
           j == job[r]
           rest == Tail(waiters)
<1>1. cache' = cache /\ UNCHANGED <<now, published, epoch, removedAt>>
  BY DEF Resume, providerVars
<1>2. j \in Job /\ Asks(c, j) /\ c \in KS!Open(r) /\ c.missed = j.forced
  BY CallUnderWay DEF Resume, Waiting
<1>3. j.uri \in Uris /\ c.uri = j.uri /\ c.key = j.key
  BY <1>2 DEF Job, Asks
<1>4. \/ /\ Fresh(j.uri) /\ j.key \in cache[j.uri].keys /\ lastForced' = lastForced
         /\ Return(r, j, "accepted", rest)
      \/ /\ Fresh(j.uri) /\ j.key \notin cache[j.uri].keys
         /\ ForceAfterRelease(r, j, rest) \/ ForcedSection(r, j, rest)
      \/ j.forced /\ ~Cooling(j.uri) /\ ForcedSection(r, j, rest)
      \/ SendFetch(r, j, rest) /\ lastForced' = lastForced
  BY DEF Resume
<1> HIDE DEF c, j, rest
<1>5. CASE /\ Fresh(j.uri) /\ j.key \in cache[j.uri].keys /\ lastForced' = lastForced
           /\ Return(r, j, "accepted", rest)
  <2>1. KS!Finds(c.uri, c.key)
    BY <1>1, <1>3, <1>5, FreshRecent
  <2>2. KS!Answer(r, c, "accepted", FALSE)
    BY <1>2, <1>5, ReturnServes
  <2> QED
    BY <1>1, <1>2, <1>5, <2>1, <2>2 DEF KS!Serve, KS!Give, KS!provider
<1>6. CASE /\ Fresh(j.uri) /\ j.key \notin cache[j.uri].keys
           /\ ForceAfterRelease(r, j, rest) \/ ForcedSection(r, j, rest)
  <2>1. KS!Lacks(c.uri, c.key)
    BY <1>1, <1>3, <1>6, FreshRecent
  <2>2. KS!Wait(r, c) \/ KS!Miss(r, c) \/ KS!Retry(r, c)
    BY <1>2, <1>6, <2>1, ForcedServes
  <2> QED
    BY <1>1, <1>2, <2>2 DEF KS!Serve, KS!provider
<1>7. CASE SendFetch(r, j, rest) /\ lastForced' = lastForced
  <2>1. KS!Answer(r, c, "pending", c.missed)
    BY <1>2, <1>7, FetchServes
  <2> QED
    BY <1>1, <1>2, <1>7, <2>1 DEF KS!Serve, KS!Wait, KS!provider
<1>8. CASE j.forced /\ ~Cooling(j.uri) /\ ForcedSection(r, j, rest)
  <2> DEFINE jf == [j EXCEPT !.forced = TRUE]
  <2>1. jf \in Job /\ Asks(c, jf) /\ jf.forced = TRUE
    BY <1>2, AsksOn
  <2>2. SendFetch(r, jf, rest) /\ lastForced' = [lastForced EXCEPT ![c.uri] = now]
    BY <1>3, <1>8 DEF ForcedSection
  <2> HIDE DEF jf
  <2>3. KS!Answer(r, c, "pending", TRUE)
    BY <2>1, <2>2, FetchServes
  <2>4. c.missed /\ ~KS!Cooling(c.uri)
    BY <1>2, <1>3, <1>8 DEF Cooling, KS!Cooling
  <2>5. KS!Retry(r, c)
    BY <2>2, <2>3, <2>4 DEF KS!Retry
  <2> QED
    BY <1>1, <1>2, <2>5 DEF KS!Serve, KS!provider
<1> QED
  BY <1>4, <1>5, <1>6, <1>7, <1>8

\* A call that stores the document it was answered with is served from it.
LEMMA StoreImplements ==
  ASSUME IInv, AbsentInv, FetchInv, NEW r \in Requests, Store(r)
  PROVE  KS!Serve(r)
<1> DEFINE c == Calls[r]
           u == job[r].uri
           hit == job[r].key \in reply[r].keys
           j == [job[r] EXCEPT !.begun = 0]
           entry == [keys |-> reply[r].keys, epoch |-> reply[r].epoch,
                     begun |-> job[r].begun, at |-> now]
<1>1. TypeOK /\ pc[r] = "replied" /\ UNCHANGED <<now, published, epoch, removedAt>>
  BY DEF IInv, Store, providerVars
<1>2. /\ job[r] \in Job /\ reply[r] \in Reply
      /\ Asks(c, job[r]) /\ c \in KS!Open(r)
  BY <1>1, CallUnderWay DEF TypeOK, Waiting
<1>3. /\ j \in Job /\ j.uri = job[r].uri /\ j.key = job[r].key
      /\ j.absent = job[r].absent
  BY <1>2 DEF Job
<1>4. Asks(c, j) /\ u \in Uris /\ c.uri = u /\ c.key = job[r].key
      /\ c.absent = job[r].absent
  BY <1>2, <1>3 DEF Asks, Job
<1>5. /\ entry \in Entry /\ entry.at = now /\ entry.begun = job[r].begun
      /\ entry.epoch = reply[r].epoch /\ entry.keys = reply[r].keys
  BY <1>1, <1>2 DEF TypeOK, Entry, Job, Reply
<1>6. cache' = [cache EXCEPT ![u] = entry]
  BY DEF Store
<1>7. \/ /\ Return(r, j, IF hit THEN "accepted" ELSE "nokey", waiters)
         /\ hit \/ job[r].forced
         /\ lastForced' = lastForced
      \/ ~hit /\ ForceAfterRelease(r, j, waiters)
  BY DEF Store
<1>8. ~hit => job[r].absent
  BY <1>1 DEF AbsentInv, Waiting
<1>9. now \in Nat /\ now - now < Ttl
  BY <1>1, ParameterAssumption DEF TypeOK
<1> HIDE DEF entry, j, c
<1>10. cache'[u] = entry /\ entry # None
  BY <1>1, <1>4, <1>5, <1>6, NoneAssumption DEF TypeOK
<1>11. KS!Learn(u)
  <2>1. cache' = [cache EXCEPT ![u] = cache'[u]]
    BY <1>6, <1>10
  <2>2. entry \in KS!Document
    BY <1>5 DEF KS!Document, Entry
  <2>3. ReplySound(r) /\ job[r].begun <= now
    BY <1>1 DEF IInv, DocumentsSound, ReplySound
  <2>4. /\ entry.at = now /\ entry.begun <= now /\ entry.epoch <= epoch[u]
        /\ \A k \in entry.keys : k \in published[u] \/ removedAt[u][k] >= entry.begun
    BY <1>1, <1>5, <2>3 DEF ReplySound
  <2>5. cache[u] # None =>
          /\ entry.begun >= cache[u].at /\ entry.epoch >= cache[u].epoch
          /\ entry.begun >= cache[u].at + Ttl \/ entry.begun = lastForced[u]
    <3>1. cache[u] # None => cache[u].epoch <= reply[r].epoch
      BY <1>1, <2>3 DEF ReplySound
    <3>2. cache[u] # None => cache[u].epoch \in Nat /\ reply[r].epoch \in Nat
      BY <1>1, <1>2, <1>4 DEF TypeOK, Entry, Reply
    <3>3. cache[u] # None =>
            /\ job[r].begun >= cache[u].at
            /\ job[r].begun >= cache[u].at + Ttl \/ job[r].begun = lastForced[u]
      BY <1>1 DEF FetchInv
    <3> QED
      BY <1>5, <3>1, <3>2, <3>3
  <2>6. entry.epoch = epoch[u] => entry.keys = published[u]
    BY <1>1, <1>5 DEF FetchInv
  <2> HIDE DEF u
  <2> QED
    BY <1>10, <2>1, <2>2, <2>4, <2>5, <2>6 DEF KS!Learn
<1>12. (hit => KS!Finds(c.uri, c.key)) /\ (~hit => KS!Lacks(c.uri, c.key))
  BY <1>4, <1>5, <1>9, <1>10 DEF KS!Finds, KS!Lacks
<1>13. KS!Give(r, c) \/ KS!Wait(r, c) \/ KS!Miss(r, c) \/ KS!Retry(r, c)
  <2>1. CASE hit /\ Return(r, j, "accepted", waiters) /\ lastForced' = lastForced
    <3>1. KS!Answer(r, c, "accepted", FALSE)
      BY <1>1, <1>3, <1>4, <2>1, ReturnServes
    <3> QED
      BY <1>12, <2>1, <3>1 DEF KS!Give
  <2>2. CASE ~hit /\ Return(r, j, "nokey", waiters) /\ lastForced' = lastForced
    <3>1. KS!Answer(r, c, "nokey", FALSE)
      BY <1>1, <1>3, <1>4, <2>2, ReturnServes
    <3> QED
      BY <1>4, <1>8, <1>12, <2>2, <3>1 DEF KS!Miss
  <2>3. CASE ~hit /\ ForceAfterRelease(r, j, waiters)
    <3> HIDE DEF hit
    <3> QED
      BY <1>1, <1>3, <1>4, <1>12, <2>3, ForcedServes
  <2> QED
    BY <1>7, <2>1, <2>2, <2>3
<1> HIDE DEF u
<1> QED
  BY <1>1, <1>2, <1>4, <1>11, <1>13 DEF KS!Serve, KS!provider

\* A step that leaves every call where it is leaves what it says.
LEMMA CallsKept ==
  ASSUME pc' = pc, job' = job
  PROVE  Calls' = Calls
BY DEF Calls

\* A provider's answer is not seen before it is stored.
LEMMA RespondStutters ==
  ASSUME TypeOK, NEW r \in Requests, Respond(r)
  PROVE  UNCHANGED KS!vars
<1>1. /\ pc' = [pc EXCEPT ![r] = "replied"] /\ pc[r] = "fetching" /\ job' = job
      /\ UNCHANGED <<now, published, epoch, removedAt, cache, lastForced>>
  BY DEF Respond, providerVars
<1>2. Alone(r) /\ pc'[r] = "replied"
  BY <1>1 DEF Alone, TypeOK
<1>3. \A s \in Requests : Calls'[s] = Calls[s]
  <2>1. Calls'[r] = Calls[r]
    BY <1>1, <1>2 DEF Calls, Waiting
  <2>2. \A s \in Requests \ {r} : Calls'[s] = Calls[s]
    BY <1>2 DEF Calls, Alone
  <2> QED
    BY <2>1, <2>2
<1>4. Calls' = Calls
  BY <1>3 DEF Calls
<1> QED
  BY <1>1, <1>4 DEF KS!vars, KS!provider

\* Setting the flag of a call changes nothing else in it.
LEMMA CallMarked ==
  ASSUME NEW c \in KS!Call, NEW b \in BOOLEAN
  PROVE  [c EXCEPT !.absent = b] =
           [uri |-> c.uri, key |-> c.key, absent |-> b, missed |-> c.missed,
            answer |-> c.answer]
BY DEF KS!Call

\* A rotation is one.
LEMMA RotateImplements ==
  ASSUME TypeOK, NEW u \in Uris, Rotate(u)
  PROVE  KS!Rotate(u)
<1>1. PICK ks \in (SUBSET Keys) \ {published[u]} :
        /\ published' = [published EXCEPT ![u] = ks]
        /\ removedAt' = [removedAt EXCEPT ![u] =
             [k \in Keys |-> IF k \in ks THEN 0
                             ELSE IF k \in published[u] THEN now ELSE @[k]]]
        /\ job' = [r \in Requests |->
             IF pc[r] \in Waiting /\ job[r].uri = u /\ job[r].key \notin ks
               THEN [job[r] EXCEPT !.absent = TRUE] ELSE job[r]]
  BY DEF Rotate
<1>2. pc' = pc /\ epoch' = [epoch EXCEPT ![u] = @ + 1] /\ UNCHANGED <<now, cache, lastForced>>
  BY DEF Rotate
<1>3. ASSUME NEW r \in Requests
      PROVE  Calls'[r] = IF KS!Pending(r) /\ Calls[r].uri = u /\ Calls[r].key \notin ks
                           THEN [Calls[r] EXCEPT !.absent = TRUE] ELSE Calls[r]
  <2>1. CASE pc[r] \in Waiting
    <3>1. job[r] \in Job
      BY <2>1 DEF TypeOK
    <3> DEFINE said(i) == [uri |-> i.uri, key |-> i.key, absent |-> i.absent,
                           missed |-> i.forced, answer |-> "pending"]
               j == [job[r] EXCEPT !.absent = TRUE]
    <3>2. Calls[r] = said(job[r]) /\ Calls'[r] = said(job'[r])
      BY <1>2, <2>1 DEF Calls
    <3>3. /\ j.uri = job[r].uri /\ j.key = job[r].key /\ j.absent = TRUE
          /\ j.forced = job[r].forced
      BY <3>1 DEF Job
    <3>4. KS!Pending(r) /\ Calls[r].uri = job[r].uri /\ Calls[r].key = job[r].key
      BY <3>2 DEF KS!Pending
    <3>5. said(j) = [said(job[r]) EXCEPT !.absent = TRUE]
      <4> DEFINE d == said(job[r])
      <4>1. /\ d \in KS!Call /\ d.uri = job[r].uri /\ d.key = job[r].key
            /\ d.missed = job[r].forced /\ d.answer = "pending"
        BY <3>1 DEF KS!Call, Job
      <4> HIDE DEF d
      <4>2. [d EXCEPT !.absent = TRUE] =
              [uri |-> d.uri, key |-> d.key, absent |-> TRUE, missed |-> d.missed,
               answer |-> d.answer]
        BY <4>1, CallMarked
      <4> HIDE DEF j
      <4>3. said(j) = [uri |-> d.uri, key |-> d.key, absent |-> TRUE, missed |-> d.missed,
                       answer |-> d.answer]
        BY <3>3, <4>1
      <4> QED
        BY <4>2, <4>3 DEF d
    <3>6. job'[r] = IF job[r].uri = u /\ job[r].key \notin ks THEN j ELSE job[r]
      BY <1>1, <2>1
    <3> HIDE DEF said, j
    <3> QED
      BY <3>2, <3>4, <3>5, <3>6
  <2>2. CASE pc[r] \notin Waiting
    <3>1. job'[r] = job[r]
      BY <1>1, <2>2
    <3>2. Calls'[r] = Calls[r]
      BY <1>2, <3>1 DEF Calls
    <3>3. Calls[r].answer \in {"accepted", "nokey", "none"}
      BY <2>2 DEF Calls
    <3> QED
      BY <3>2, <3>3 DEF KS!Pending
  <2> QED
    BY <2>1, <2>2
<1>4. Calls' = [r \in Requests |->
        IF KS!Pending(r) /\ Calls[r].uri = u /\ Calls[r].key \notin ks
          THEN [Calls[r] EXCEPT !.absent = TRUE] ELSE Calls[r]]
  <2> DEFINE said == [r \in Requests |->
        IF KS!Pending(r) /\ Calls[r].uri = u /\ Calls[r].key \notin ks
          THEN [Calls[r] EXCEPT !.absent = TRUE] ELSE Calls[r]]
  <2>1. \A r \in Requests : Calls'[r] = said[r]
    BY <1>3
  <2>2. Calls' = [r \in Requests |-> Calls'[r]]
    BY DEF Calls
  <2>3. said = [r \in Requests |-> said[r]]
    OBVIOUS
  <2> HIDE DEF said
  <2>4. Calls' = said
    BY <2>1, <2>2, <2>3
  <2> QED
    BY <2>4 DEF said
<1> QED
  BY <1>1, <1>2, <1>4 DEF KS!Rotate

\* Every step of the resolver is one of a key source, or is not seen.
LEMMA StepImplements ==
  IInv /\ AbsentInv /\ FetchInv /\ [Next]_vars => [KS!Next]_(KS!vars)
<1> SUFFICES ASSUME IInv, AbsentInv, FetchInv, [Next]_vars PROVE [KS!Next]_(KS!vars)
  OBVIOUS
<1>1. TypeOK
  BY DEF IInv
<1>2. ASSUME NEW r \in Requests, RejectHeader(r) \/ FetchFail(r) \/ CancelWaiter(r)
      PROVE  KS!Fail(r)
  <2>1. UNCHANGED <<now, published, epoch, removedAt, cache, lastForced>>
    BY <1>2 DEF RejectHeader, FetchFail, CancelWaiter, providerVars
  <2>2. \E q : Raise(r, q)
    BY <1>2 DEF RejectHeader, FetchFail, CancelWaiter
  <2> QED
    BY <1>1, <2>1, <2>2, RaiseServes
<1>3. ASSUME NEW r \in Requests, NEW u \in Uris, NEW k \in Keys,
             BeginCached(r, u, k) \/ BeginCold(r, u, k)
      PROVE  KS!Serve(r)
  BY <1>1, <1>3, BeginImplements
<1>4. ASSUME NEW r \in Requests, Resume(r) \/ Store(r) PROVE KS!Serve(r)
  BY <1>1, <1>4, ResumeImplements, StoreImplements
<1>5. ASSUME NEW r \in Requests, Respond(r) PROVE UNCHANGED KS!vars
  BY <1>1, <1>5, RespondStutters
<1>6. ASSUME NEW u \in Uris, Rotate(u) PROVE KS!Rotate(u)
  BY <1>1, <1>6, RotateImplements
<1>7. ASSUME Tick PROVE KS!Tick
  <2>1. Calls' = Calls
    BY <1>7, CallsKept DEF Tick, callVars
  <2> QED
    BY <1>7, <2>1 DEF Tick, KS!Tick, KS!provider, providerVars
<1>8. ASSUME UNCHANGED vars PROVE UNCHANGED KS!vars
  <2>1. Calls' = Calls
    BY <1>8, CallsKept DEF vars, callVars
  <2> QED
    BY <1>8, <2>1 DEF vars, KS!vars, KS!provider, providerVars
<1> QED
  BY <1>2, <1>3, <1>4, <1>5, <1>6, <1>7, <1>8 DEF Next, KS!Next

\* The resolver implements KeySource.
THEOREM Refinement == Spec => SourceSafe
<1>1. Init => KS!Init
  <2>1. Init => Calls = [r \in Requests |-> KS!Silent]
    BY DEF Init, Calls, Waiting, KS!Silent
  <2> QED
    BY <2>1 DEF Init, KS!Init
<1>2. Init => FetchInv /\ TrafficInv /\ AbsentInv
  BY FetchInit, TrafficInit, AbsentInit
<1>3. IInv /\ TrafficInv /\ [Next]_vars => IInv' /\ TrafficInv'
  BY TypeStep, LockPreserved, DocumentsPreserved, TrafficPreserved DEF IInv
<1> QED
  BY <1>1, <1>2, <1>3, InvariantHolds, FetchPreserved, AbsentPreserved, StepImplements, PTL
     DEF Spec, SourceSafe, KS!Spec

-----------------------------------------------------------------------------
(* Nobody is lost in the queue.  That every call returns is liveness, which *)
(* TLC checks; this is the part of it that is an invariant.                *)

\* The queue q has every member of S, once, and nobody else.
Lists(q, S) ==
  /\ \A s : s \in S <=> \E i \in 1 .. Len(q) : q[i] = s
  /\ \A i, k \in 1 .. Len(q) : q[i] = q[k] => i = k

Queued == {r \in Requests : pc[r] = "queued"}

QueueInv == Lists(waiters, Queued)

\* A call that waits for the lock stands in its queue once, whatever calls
\* were served, failed or were cancelled before it, and the lock is either
\* with a call that fetches or free for the first of the queue, which waits.
NobodyForgotten ==
  \A r \in Requests : pc[r] = "queued" =>
    /\ \E i \in 1 .. Len(waiters) : waiters[i] = r
    /\ \A i, k \in 1 .. Len(waiters) : waiters[i] = r /\ waiters[k] = r => i = k
    /\ \/ \E s \in Requests : pc[s] \in {"fetching", "replied"} /\ holder = s
       \/ holder = None /\ waiters # <<>> /\ pc[Head(waiters)] = "queued"

\* A call joins at the end of a queue,
LEMMA AppendLists ==
  ASSUME NEW q \in Seq(Requests), NEW S, Lists(q, S), NEW r \in Requests, r \notin S
  PROVE  Lists(Append(q, r), S \cup {r})
<1> DEFINE p == Append(q, r)
<1>1. /\ Len(p) = Len(q) + 1 /\ p[Len(q) + 1] = r /\ Len(q) \in Nat
      /\ \A i \in 1 .. Len(q) : p[i] = q[i] /\ p[i] # r
  BY DEF Lists
<1> HIDE DEF p
<1>2. ASSUME NEW s PROVE s \in S \cup {r} <=> \E i \in 1 .. Len(p) : p[i] = s
  BY <1>1 DEF Lists
<1>3. ASSUME NEW i \in 1 .. Len(p), NEW k \in 1 .. Len(p), p[i] = p[k] PROVE i = k
  BY <1>1, <1>3 DEF Lists
<1> QED
  BY <1>2, <1>3 DEF Lists, p

\* ... leaves from its head,
LEMMA TailLists ==
  ASSUME NEW q \in Seq(Requests), NEW S, Lists(q, S), q # <<>>
  PROVE  Lists(Tail(q), S \ {Head(q)})
<1> DEFINE p == Tail(q)
<1>1. /\ Len(q) \in Nat \ {0} /\ Len(p) = Len(q) - 1 /\ Head(q) = q[1]
      /\ \A i \in 1 .. Len(p) : p[i] = q[i + 1]
  OBVIOUS
<1> HIDE DEF p
<1>2. ASSUME NEW s PROVE s \in S \ {Head(q)} <=> \E i \in 1 .. Len(p) : p[i] = s
  <2>1. ASSUME NEW i \in 1 .. Len(p), p[i] = s PROVE s \in S /\ s # Head(q)
    <3>1. i + 1 \in 1 .. Len(q) /\ q[i + 1] = s /\ 1 \in 1 .. Len(q) /\ i + 1 # 1
      BY <1>1, <2>1
    <3> QED
      BY <1>1, <3>1 DEF Lists
  <2>2. ASSUME NEW i \in 1 .. Len(q), q[i] = s, s # Head(q)
        PROVE  \E k \in 1 .. Len(p) : p[k] = s
    <3>1. i - 1 \in 1 .. Len(p) /\ (i - 1) + 1 = i
      BY <1>1, <2>2
    <3> QED
      BY <1>1, <2>2, <3>1
  <2> QED
    BY <2>1, <2>2 DEF Lists
<1>3. ASSUME NEW i \in 1 .. Len(p), NEW k \in 1 .. Len(p), p[i] = p[k] PROVE i = k
  <2>1. i + 1 \in 1 .. Len(q) /\ k + 1 \in 1 .. Len(q) /\ q[i + 1] = q[k + 1]
    BY <1>1, <1>3
  <2> QED
    BY <2>1 DEF Lists
<1> QED
  BY <1>2, <1>3 DEF Lists, p

\* ... or from the middle, when it is cancelled.
LEMMA RemovalLists ==
  ASSUME NEW q \in Seq(Requests), NEW S, Lists(q, S), NEW n \in 1 .. Len(q)
  PROVE  Lists(SubSeq(q, 1, n - 1) \o SubSeq(q, n + 1, Len(q)), S \ {q[n]})
<1> DEFINE a == SubSeq(q, 1, n - 1)
           b == SubSeq(q, n + 1, Len(q))
           p == a \o b
<1>1. /\ a \in Seq(Requests) /\ Len(a) = n - 1
      /\ \A i \in 1 .. n - 1 : a[i] = q[i]
  OBVIOUS
<1>2. /\ b \in Seq(Requests) /\ Len(b) = Len(q) - n
      /\ \A i \in 1 .. Len(q) - n : b[i] = q[n + i]
  OBVIOUS
<1>3. Len(q) \in Nat /\ n \in Nat
  OBVIOUS
<1> HIDE DEF a, b
<1>4. /\ Len(p) = Len(q) - 1
      /\ \A i \in 1 .. Len(p) : p[i] = q[IF i < n THEN i ELSE i + 1]
  <2>1. Len(p) = Len(a) + Len(b)
        /\ \A i \in 1 .. Len(p) : p[i] = IF i <= Len(a) THEN a[i] ELSE b[i - Len(a)]
    <3>0. a \in Seq(Requests) /\ b \in Seq(Requests)
      BY <1>1, <1>2
    <3>1. Len(p) = Len(a) + Len(b)
      BY <3>0
    <3>2. ASSUME NEW i \in 1 .. Len(a) + Len(b)
          PROVE  p[i] = IF i <= Len(a) THEN a[i] ELSE b[i - Len(a)]
      BY <1>1, <1>2
    <3> HIDE DEF p
    <3> QED
      BY <3>1, <3>2
  <2> HIDE DEF p
  <2>2. ASSUME NEW i \in 1 .. Len(p) PROVE p[i] = q[IF i < n THEN i ELSE i + 1]
    <3>1. CASE i < n
      BY <1>1, <1>3, <2>1, <3>1
    <3>2. CASE ~ (i < n)
      <4>1. i - Len(a) \in 1 .. Len(q) - n /\ n + (i - Len(a)) = i + 1
        BY <1>1, <1>2, <1>3, <2>1, <3>2
      <4> QED
        BY <1>1, <1>2, <1>3, <2>1, <3>2, <4>1
    <3> QED
      BY <3>1, <3>2
  <2> QED
    BY <1>1, <1>2, <1>3, <2>1, <2>2
<1> HIDE DEF p
<1>5. ASSUME NEW s PROVE s \in S \ {q[n]} <=> \E i \in 1 .. Len(p) : p[i] = s
  <2>1. ASSUME NEW i \in 1 .. Len(p), p[i] = s PROVE s \in S /\ s # q[n]
    <3> DEFINE m == IF i < n THEN i ELSE i + 1
    <3>1. m \in 1 .. Len(q) /\ m # n /\ q[m] = s
      BY <1>3, <1>4, <2>1
    <3> HIDE DEF m
    <3> QED
      BY <3>1 DEF Lists
  <2>2. ASSUME NEW i \in 1 .. Len(q), q[i] = s, s # q[n]
        PROVE  \E k \in 1 .. Len(p) : p[k] = s
    <3>1. CASE i < n
      <4>1. i \in 1 .. Len(p)
        BY <1>3, <1>4, <3>1
      <4> QED
        BY <1>4, <2>2, <3>1, <4>1
    <3>2. CASE i > n
      <4>1. i - 1 \in 1 .. Len(p) /\ ~ (i - 1 < n) /\ (i - 1) + 1 = i
        BY <1>3, <1>4, <3>2
      <4> QED
        BY <1>4, <2>2, <4>1
    <3> QED
      BY <1>3, <2>2, <3>1, <3>2
  <2> QED
    BY <2>1, <2>2 DEF Lists
<1>6. ASSUME NEW i \in 1 .. Len(p), NEW k \in 1 .. Len(p), p[i] = p[k] PROVE i = k
  <2> DEFINE m == IF i < n THEN i ELSE i + 1
             l == IF k < n THEN k ELSE k + 1
  <2>1. m \in 1 .. Len(q) /\ l \in 1 .. Len(q) /\ q[m] = q[l]
    BY <1>3, <1>4, <1>6
  <2>2. m = l
    <3> HIDE DEF m, l
    <3> QED
      BY <2>1 DEF Lists
  <2> QED
    BY <1>3, <2>2
<1> QED
  BY <1>5, <1>6 DEF Lists, p, a, b

\* A step of the call r that leaves the queue with the others of q, or with
\* them and then itself.
Requeued(r, q) ==
  /\ \A s \in Requests \ {r} : pc'[s] = pc[s]
  /\ \/ pc'[r] # "queued" /\ waiters' = q
     \/ pc'[r] = "queued" /\ waiters' = Append(q, r)

LEMMA QueueFromStep ==
  ASSUME NEW r \in Requests, NEW q \in Seq(Requests), Lists(q, Queued \ {r}),
         Requeued(r, q)
  PROVE  QueueInv'
<1>1. CASE pc'[r] # "queued" /\ waiters' = q
  <2>1. Queued' = Queued \ {r}
    BY <1>1 DEF Queued, Requeued
  <2> QED
    BY <1>1, <2>1 DEF QueueInv, Lists
<1>2. CASE pc'[r] = "queued" /\ waiters' = Append(q, r)
  <2>1. Queued' = (Queued \ {r}) \cup {r}
    BY <1>2 DEF Queued, Requeued
  <2> DEFINE p == Append(q, r)
  <2>2. Lists(p, (Queued \ {r}) \cup {r})
    BY AppendLists
  <2> HIDE DEF p
  <2> QED
    BY <1>2, <2>1, <2>2 DEF QueueInv, Lists, p
<1> QED
  BY <1>1, <1>2 DEF Requeued

\* The pieces of a step requeue the call or let it go.
LEMMA PieceRequeues ==
  ASSUME TypeOK, NEW r \in Requests, NEW q,
         \/ \E j : \E result \in {"accepted", "nokey"} : Return(r, j, result, q)
         \/ \E j : SendFetch(r, j, q) \/ ForcedSection(r, j, q) \/ ForceAfterRelease(r, j, q)
         \/ \E j, h : Suspend(r, j, h, q)
         \/ Raise(r, q)
  PROVE  Requeued(r, q)
<1>1. \/ pc' = [pc EXCEPT ![r] = "accepted"] /\ waiters' = q
      \/ pc' = [pc EXCEPT ![r] = "nokey"] /\ waiters' = q
      \/ pc' = [pc EXCEPT ![r] = "fetching"] /\ waiters' = q
      \/ pc' = [pc EXCEPT ![r] = "error"] /\ waiters' = q
      \/ pc' = [pc EXCEPT ![r] = "queued"] /\ waiters' = Append(q, r)
  BY DEF Return, SendFetch, ForcedSection, ForceAfterRelease, Suspend, Raise
<1> QED
  BY <1>1 DEF TypeOK, Requeued

\* A queue without r is the same whether r is taken out or not.
LEMMA NotListed ==
  ASSUME NEW r, pc[r] # "queued", QueueInv
  PROVE  Lists(waiters, Queued \ {r})
BY DEF QueueInv, Queued, Lists

LEMMA QueueInit == Init => QueueInv
BY DEF Init, QueueInv, Queued, Lists

LEMMA QueuePreserved == TypeOK /\ QueueInv /\ [Next]_vars => QueueInv'
<1> SUFFICES ASSUME TypeOK, QueueInv, [Next]_vars PROVE QueueInv'
  OBVIOUS
<1>0. waiters \in Seq(Requests)
  BY DEF TypeOK
<1> USE DEF lockVars
<1>1. ASSUME NEW r \in Requests, RejectHeader(r) \/ FetchFail(r) PROVE QueueInv'
  <2>1. pc[r] # "queued" /\ Raise(r, waiters)
    BY <1>1 DEF RejectHeader, FetchFail, Idle, Returned
  <2> QED
    BY <1>0, <2>1, NotListed, PieceRequeues, QueueFromStep
<1>2. ASSUME NEW r \in Requests, NEW u \in Uris, NEW k \in Keys,
             BeginCached(r, u, k) \/ BeginCold(r, u, k)
      PROVE  QueueInv'
  <2>1. pc[r] # "queued"
    BY <1>2 DEF BeginCached, BeginCold, Idle, Returned
  <2>2. \/ pc' = [pc EXCEPT ![r] = "accepted"] /\ waiters' = waiters
        \/ \E j, h : Suspend(r, j, h, waiters)
        \/ waiters = <<>> /\ \E j : ForcedSection(r, j, <<>>) \/ SendFetch(r, j, <<>>)
    BY <1>2 DEF BeginCached, BeginCold, LockFree
  <2>3. Requeued(r, waiters)
    <3>1. CASE pc' = [pc EXCEPT ![r] = "accepted"] /\ waiters' = waiters
      BY <3>1 DEF Requeued, TypeOK
    <3> QED
      BY <2>2, <3>1, PieceRequeues
  <2> QED
    BY <1>0, <2>1, <2>3, NotListed, QueueFromStep
<1>3. ASSUME NEW r \in Requests, Resume(r) PROVE QueueInv'
  <2> DEFINE rest == Tail(waiters)
  <2>1. /\ waiters # <<>> /\ Head(waiters) = r
        /\ \/ Return(r, job[r], "accepted", rest)
           \/ ForceAfterRelease(r, job[r], rest)
           \/ ForcedSection(r, job[r], rest)
           \/ SendFetch(r, job[r], rest)
    BY <1>3 DEF Resume
  <2>2. rest \in Seq(Requests) /\ Lists(rest, Queued \ {r})
    BY <1>0, <2>1, TailLists DEF QueueInv
  <2> HIDE DEF rest
  <2>3. Requeued(r, rest)
    BY <2>1, PieceRequeues
  <2> QED
    BY <2>2, <2>3, QueueFromStep
<1>4. ASSUME NEW r \in Requests, Respond(r) PROVE QueueInv'
  <2>1. pc[r] # "queued" /\ waiters' = waiters /\ pc' = [pc EXCEPT ![r] = "replied"]
    BY <1>4 DEF Respond
  <2>2. Requeued(r, waiters)
    BY <2>1 DEF Requeued, TypeOK
  <2> QED
    BY <1>0, <2>1, <2>2, NotListed, QueueFromStep
<1>5. ASSUME NEW r \in Requests, Store(r) PROVE QueueInv'
  <2>1. /\ pc[r] # "queued"
        /\ \E j : \/ \E result \in {"accepted", "nokey"} : Return(r, j, result, waiters)
                  \/ ForceAfterRelease(r, j, waiters)
    BY <1>5 DEF Store
  <2> QED
    BY <1>0, <2>1, NotListed, PieceRequeues, QueueFromStep
<1>6. ASSUME NEW r \in Requests, CancelWaiter(r) PROVE QueueInv'
  <2>1. PICK i \in 1 .. Len(waiters) :
          /\ waiters[i] = r
          /\ Raise(r, SubSeq(waiters, 1, i - 1) \o SubSeq(waiters, i + 1, Len(waiters)))
    BY <1>0, <1>6 DEF CancelWaiter
  <2> DEFINE q == SubSeq(waiters, 1, i - 1) \o SubSeq(waiters, i + 1, Len(waiters))
  <2>2. Lists(q, Queued \ {r})
    BY <1>0, <2>1, RemovalLists DEF QueueInv
  <2>3. q \in Seq(Requests)
    BY <1>0
  <2> HIDE DEF q
  <2> QED
    BY <2>1, <2>2, <2>3, PieceRequeues, QueueFromStep DEF q
<1>7. ASSUME (\E u \in Uris : Rotate(u)) \/ Tick \/ UNCHANGED vars PROVE QueueInv'
  <2>1. pc' = pc /\ waiters' = waiters
    BY <1>7 DEF Rotate, Tick, vars, callVars
  <2> QED
    BY <2>1 DEF QueueInv, Queued, Lists
<1> QED
  BY <1>1, <1>2, <1>3, <1>4, <1>5, <1>6, <1>7 DEF Next

\* Every call that waits for the lock is in its queue, once, and while anybody
\* waits, either somebody fetches or the first of the queue can go on.
THEOREM QueueKept == Spec => []NobodyForgotten
<1>1. TypeOK /\ SingleFlight /\ QueueInv => NobodyForgotten
  <2> SUFFICES ASSUME TypeOK, SingleFlight, QueueInv, NEW r \in Requests, pc[r] = "queued"
               PROVE  /\ \E i \in 1 .. Len(waiters) : waiters[i] = r
                      /\ \A i, k \in 1 .. Len(waiters) :
                           waiters[i] = r /\ waiters[k] = r => i = k
                      /\ \/ \E s \in Requests : pc[s] \in {"fetching", "replied"} /\ holder = s
                         \/ holder = None /\ waiters # <<>> /\ pc[Head(waiters)] = "queued"
    BY DEF NobodyForgotten
  <2>1. PICK i \in 1 .. Len(waiters) : waiters[i] = r
    BY DEF QueueInv, Queued, Lists
  <2>2. waiters # <<>> /\ Head(waiters) = waiters[1] /\ 1 \in 1 .. Len(waiters)
    BY <2>1 DEF TypeOK
  <2>3. pc[Head(waiters)] = "queued"
    BY <2>2 DEF QueueInv, Queued, Lists
  <2>4. holder = None \/ \E s \in Requests : pc[s] \in {"fetching", "replied"} /\ holder = s
    BY DEF TypeOK, SingleFlight
  <2> QED
    BY <2>1, <2>2, <2>3, <2>4 DEF QueueInv, Lists
<1>2. Init => TypeOK /\ SingleFlight /\ QueueInv
  BY TypeInit, LockInit, QueueInit
<1>3. TypeOK /\ SingleFlight /\ QueueInv /\ [Next]_vars => (TypeOK /\ SingleFlight /\ QueueInv)'
  BY TypeStep, LockPreserved, QueuePreserved
<1> QED
  BY <1>1, <1>2, <1>3, PTL DEF Spec

-----------------------------------------------------------------------------
(* What the resolver reads in a document: the loop over its keys computes  *)
(* what JwksDocument says without one, for any number of keys.             *)

D == INSTANCE JwksDocument

\* The loop runs through the whole list, whatever is in it.
LEMMA IndexingEquation ==
  ASSUME NEW doc, Len(doc) \in Nat
  PROVE  D!Indexing(doc) = [i \in 0 .. Len(doc) |->
           IF i = 0 THEN D!Nothing ELSE D!Index(D!Indexing(doc)[i - 1], doc[i])]
<1> DEFINE Is(s, n) ==
             s = [i \in 0 .. n |-> IF i = 0 THEN D!Nothing ELSE D!Index(s[i - 1], doc[i])]
           S == {n \in Nat : \E s : Is(s, n)}
<1>1. 0 \in S
  <2>1. Is([i \in 0 .. 0 |-> D!Nothing], 0)
    OBVIOUS
  <2> QED
    BY <2>1
<1>2. ASSUME NEW n \in Nat, n \in S PROVE n + 1 \in S
  <2>1. PICK s : Is(s, n)
    BY <1>2
  <2> DEFINE next == [i \in 0 .. n + 1 |->
                        IF i = n + 1 THEN D!Index(s[n], doc[n + 1]) ELSE s[i]]
  <2>2. Is(next, n + 1)
    <3>1. ASSUME NEW i \in 0 .. n + 1
          PROVE  next[i] = IF i = 0 THEN D!Nothing ELSE D!Index(next[i - 1], doc[i])
      <4>1. CASE i = n + 1
        BY <4>1
      <4>2. CASE i = 0
        BY <2>1, <4>2
      <4>3. CASE i \in 1 .. n
        BY <2>1, <4>3
      <4> QED
        BY <4>1, <4>2, <4>3
    <3> QED
      BY <3>1
  <2> HIDE DEF next, Is
  <2>3. \E g : Is(g, n + 1)
    BY <2>2
  <2> QED
    BY <2>3
<1>3. Len(doc) \in S
  <2> HIDE DEF S
  <2> QED
    BY <1>1, <1>2, NatSetInduction
<1>4. Is(D!Indexing(doc), Len(doc))
  <2>1. \E s : Is(s, Len(doc))
    BY <1>3
  <2>2. Is(CHOOSE s : Is(s, Len(doc)), Len(doc))
    BY <2>1
  <2>3. D!Indexing(doc) = CHOOSE s : Is(s, Len(doc))
    BY DEF D!Indexing
  <2> QED
    BY <2>2, <2>3
<1> QED
  BY <1>4

LEMMA IndexingSteps ==
  ASSUME NEW doc, Len(doc) \in Nat
  PROVE  /\ D!Indexing(doc)[0] = D!Nothing
         /\ \A i \in 0 .. Len(doc) - 1 :
              D!Indexing(doc)[i + 1] = D!Index(D!Indexing(doc)[i], doc[i + 1])
<1>1. 0 \in 0 .. Len(doc)
  OBVIOUS
<1>2. ASSUME NEW i \in 0 .. Len(doc) - 1
      PROVE  D!Indexing(doc)[i + 1] = D!Index(D!Indexing(doc)[i], doc[i + 1])
  <2>1. i + 1 \in 0 .. Len(doc) /\ i + 1 # 0 /\ (i + 1) - 1 = i
    OBVIOUS
  <2> QED
    BY <2>1, IndexingEquation
<1> QED
  BY <1>1, <1>2, IndexingEquation

\* What the loop knows of the first n members: whether a kid came twice, and
\* if none did, which came, and for each that may verify its member.
Twice(doc, n) ==
  \E i, j \in 1 .. n : i # j /\ doc[i].named /\ doc[j].named /\ doc[i].kid = doc[j].kid

Known(doc, n, s) ==
  /\ s.refused \in BOOLEAN
  /\ s.refused <=> Twice(doc, n)
  /\ ~s.refused =>
       /\ \A k : k \in s.seen <=> \E i \in 1 .. n : doc[i].named /\ doc[i].kid = k
       /\ \A k \in DOMAIN s.keys :
            \E i \in 1 .. n : doc[i].named /\ doc[i].signs /\ doc[i].kid = k /\ s.keys[k] = doc[i]
       /\ \A i \in 1 .. n : doc[i].named /\ doc[i].signs =>
            doc[i].kid \in DOMAIN s.keys /\ s.keys[doc[i].kid] = doc[i]

\* One member more.
LEMMA KnownStep ==
  ASSUME NEW Kids, NEW doc \in Seq(D!Member(Kids)), NEW n \in 0 .. Len(doc) - 1,
         NEW s, Known(doc, n, s)
  PROVE  Known(doc, n + 1, D!Index(s, doc[n + 1]))
<1> DEFINE key == doc[n + 1]
           t == D!Index(s, key)
<1>1. /\ n \in Nat /\ Len(doc) \in Nat /\ key \in D!Member(Kids)
      /\ \A i : i \in 1 .. n + 1 <=> i \in 1 .. n \/ i = n + 1
      /\ n + 1 \notin 1 .. n
  OBVIOUS
<1>2. /\ key.named \in BOOLEAN /\ key.signs \in BOOLEAN
      /\ \A i \in 1 .. n : doc[i].named \in BOOLEAN /\ doc[i].signs \in BOOLEAN
  <2>1. \A i \in 1 .. n : doc[i] \in D!Member(Kids)
    BY <1>1
  <2> QED
    BY <1>1, <2>1 DEF D!Member
<1> HIDE DEF key
<1>k. key = doc[n + 1]
  BY DEF key
<1>3. CASE s.refused
  <2>1. t = s
    BY <1>3 DEF D!Index
  <2>2. Twice(doc, n + 1)
    BY <1>1, <1>3 DEF Known, Twice
  <2> QED
    BY <1>3, <1>k, <2>1, <2>2 DEF Known
<1>4. CASE ~s.refused /\ ~key.named
  <2>1. t = s
    BY <1>4 DEF D!Index
  <2>2. ~Twice(doc, n + 1)
    BY <1>1, <1>4, <1>k DEF Known, Twice
  <2>3. Known(doc, n + 1, s)
    BY <1>1, <1>4, <1>k, <2>2 DEF Known
  <2> QED
    BY <1>k, <2>1, <2>3
<1>5. CASE ~s.refused /\ key.named /\ key.kid \in s.seen
  <2>1. t.refused = TRUE
    BY <1>5 DEF D!Index
  <2>2. PICK i \in 1 .. n : doc[i].named /\ doc[i].kid = key.kid
    BY <1>5 DEF Known
  <2>3. Twice(doc, n + 1)
    BY <1>1, <1>5, <1>k, <2>2 DEF Twice
  <2> QED
    BY <1>k, <2>1, <2>3 DEF Known
<1>6. CASE ~s.refused /\ key.named /\ key.kid \notin s.seen
  <2>1. /\ t.refused = FALSE
        /\ t.seen = s.seen \cup {key.kid}
        /\ key.signs => t.keys = D!Put(s.keys, key)
        /\ ~key.signs => t.keys = s.keys
    <3>1. (key.kid \in s.seen) = FALSE
      BY <1>6
    <3>2. t = [refused |-> FALSE, seen |-> s.seen \cup {key.kid},
               keys |-> IF key.signs THEN D!Put(s.keys, key) ELSE s.keys]
      BY <1>6, <3>1 DEF D!Index
    <3> QED
      BY <3>2
  <2>2. \A i \in 1 .. n : doc[i].named => doc[i].kid # key.kid
    BY <1>6 DEF Known
  <2>3. ~Twice(doc, n + 1)
    BY <1>1, <1>6, <1>k, <2>2 DEF Known, Twice
  <2>4. \A k : k \in t.seen <=> \E i \in 1 .. n + 1 : doc[i].named /\ doc[i].kid = k
    BY <1>1, <1>6, <1>k, <2>1 DEF Known
  <2>5. /\ \A k \in DOMAIN t.keys :
             \E i \in 1 .. n + 1 :
               doc[i].named /\ doc[i].signs /\ doc[i].kid = k /\ t.keys[k] = doc[i]
        /\ \A i \in 1 .. n + 1 : doc[i].named /\ doc[i].signs =>
             doc[i].kid \in DOMAIN t.keys /\ t.keys[doc[i].kid] = doc[i]
    <3>1. CASE key.signs
      <4>1. /\ DOMAIN t.keys = DOMAIN s.keys \cup {key.kid}
            /\ t.keys[key.kid] = key
            /\ \A k \in DOMAIN s.keys : k # key.kid => t.keys[k] = s.keys[k]
        BY <2>1, <3>1 DEF D!Put
      <4>2. ASSUME NEW k \in DOMAIN t.keys
            PROVE  \E i \in 1 .. n + 1 :
                     doc[i].named /\ doc[i].signs /\ doc[i].kid = k /\ t.keys[k] = doc[i]
        <5>1. CASE k = key.kid
          BY <1>1, <1>6, <1>k, <3>1, <4>1, <5>1
        <5>2. CASE k # key.kid
          <6>1. PICK i \in 1 .. n :
                  doc[i].named /\ doc[i].signs /\ doc[i].kid = k /\ s.keys[k] = doc[i]
            BY <1>6, <4>1, <5>2 DEF Known
          <6> QED
            BY <1>1, <4>1, <5>2, <6>1
        <5> QED
          BY <5>1, <5>2
      <4>3. ASSUME NEW i \in 1 .. n + 1, doc[i].named, doc[i].signs
            PROVE  doc[i].kid \in DOMAIN t.keys /\ t.keys[doc[i].kid] = doc[i]
        <5>1. CASE i = n + 1
          BY <1>k, <4>1, <5>1
        <5>2. CASE i \in 1 .. n
          <6>1. doc[i].kid \in DOMAIN s.keys /\ s.keys[doc[i].kid] = doc[i]
            BY <1>6, <4>3, <5>2 DEF Known
          <6> QED
            BY <2>2, <4>1, <4>3, <5>2, <6>1
        <5> QED
          BY <1>1, <5>1, <5>2
      <4> QED
        BY <4>2, <4>3
    <3>2. CASE ~key.signs
      <4>1. t.keys = s.keys
        BY <2>1, <3>2
      <4> QED
        BY <1>1, <1>6, <1>k, <3>2, <4>1 DEF Known
    <3> QED
      BY <1>2, <3>1, <3>2
  <2>6. Known(doc, n + 1, t)
    <3> HIDE DEF t
    <3> QED
      BY <2>1, <2>3, <2>4, <2>5 DEF Known
  <2> QED
    BY <1>k, <2>6
<1> QED
  BY <1>2, <1>3, <1>4, <1>5, <1>6 DEF Known

\* All of them.
LEMMA KnownAll ==
  ASSUME NEW Kids, NEW doc \in Seq(D!Member(Kids))
  PROVE  Known(doc, Len(doc), D!Indexed(doc))
<1> DEFINE S == {n \in Nat : Known(doc, n, D!Indexing(doc)[n])}
<1>1. Len(doc) \in Nat
  OBVIOUS
<1>2. 0 \in S
  <2>1. /\ D!Indexing(doc)[0] = D!Nothing
        /\ D!Nothing.refused = FALSE /\ D!Nothing.seen = {} /\ DOMAIN D!Nothing.keys = {}
    BY <1>1, IndexingSteps DEF D!Nothing
  <2>2. 1 .. 0 = {}
    OBVIOUS
  <2>3. Known(doc, 0, D!Nothing)
    BY <2>1, <2>2 DEF Known, Twice
  <2> QED
    BY <2>1, <2>3
<1>3. ASSUME NEW n \in 0 .. Len(doc) - 1, n \in S PROVE n + 1 \in S
  <2>1. D!Indexing(doc)[n + 1] = D!Index(D!Indexing(doc)[n], doc[n + 1])
    BY <1>1, IndexingSteps
  <2>2. Known(doc, n + 1, D!Index(D!Indexing(doc)[n], doc[n + 1]))
    BY <1>3, KnownStep
  <2>3. n + 1 \in Nat
    BY <1>1
  <2> QED
    BY <2>1, <2>2, <2>3
<1>4. 0 .. Len(doc) \subseteq S
  <2> HIDE DEF S
  <2> QED
    BY <1>1, <1>2, <1>3, IntervalInduction
<1>5. Len(doc) \in S
  <2> HIDE DEF S
  <2> QED
    BY <1>1, <1>4
<1> QED
  BY <1>5 DEF D!Indexed

\* A document of any length is read as its definition without the loop says:
\* refused when a kid comes twice, whatever the two keys are for, and otherwise
\* searched for the one member that offers the kid and the algorithm.
THEOREM DocumentsMeanWhatTheySay ==
  ASSUME NEW Kids, NEW doc \in Seq(D!Member(Kids)), NEW maxKeys \in Nat
  PROVE  D!MeansWhatItSays(doc, maxKeys, Kids)
<1> DEFINE s == D!Indexed(doc)
<1>1. Known(doc, Len(doc), s) /\ Len(doc) \in Nat
  BY KnownAll
<1> HIDE DEF s
<1>2. D!Trusted(doc, maxKeys) <=> Len(doc) <= maxKeys /\ ~s.refused
  BY DEF D!Trusted, s
<1>3. ~s.refused <=> D!Distinct(doc)
  BY <1>1 DEF Known, Twice, D!Distinct
<1>4. ASSUME ~s.refused, NEW kid \in Kids, NEW algorithm \in D!Algorithms
      PROVE  D!Compatible(s.keys, kid, algorithm)
               = {doc[i] : i \in {i \in 1 .. Len(doc) : D!Offers(doc, i, kid, algorithm)}}
  <2>1. ASSUME NEW x \in D!Compatible(s.keys, kid, algorithm)
        PROVE  \E i \in 1 .. Len(doc) : D!Offers(doc, i, kid, algorithm) /\ x = doc[i]
    <3>1. kid \in DOMAIN s.keys /\ D!Fits(s.keys[kid], algorithm) /\ x = s.keys[kid]
      BY <2>1 DEF D!Compatible
    <3>2. PICK i \in 1 .. Len(doc) :
            doc[i].named /\ doc[i].signs /\ doc[i].kid = kid /\ s.keys[kid] = doc[i]
      BY <1>1, <1>4, <3>1 DEF Known
    <3> QED
      BY <3>1, <3>2 DEF D!Offers
  <2>2. ASSUME NEW i \in 1 .. Len(doc), D!Offers(doc, i, kid, algorithm)
        PROVE  doc[i] \in D!Compatible(s.keys, kid, algorithm)
    <3>1. kid \in DOMAIN s.keys /\ s.keys[kid] = doc[i]
      BY <1>1, <1>4, <2>2 DEF Known, D!Offers
    <3> QED
      BY <2>2, <3>1 DEF D!Compatible, D!Offers
  <2> QED
    BY <2>1, <2>2
<1> QED
  BY <1>2, <1>3, <1>4 DEF D!MeansWhatItSays, s

\* A provider may list its keys in any order.
THEOREM DocumentOrderIrrelevant ==
  ASSUME NEW Kids, NEW maxKeys \in Nat,
         NEW doc \in Seq(D!Member(Kids)), NEW other \in Seq(D!Member(Kids)),
         Len(other) = Len(doc),
         NEW p \in [1 .. Len(doc) -> 1 .. Len(doc)],
         \A i, j \in 1 .. Len(doc) : p[i] = p[j] => i = j,
         \A j \in 1 .. Len(doc) : \E i \in 1 .. Len(doc) : p[i] = j,
         \A i \in 1 .. Len(doc) : other[i] = doc[p[i]]
  PROVE  /\ D!Trusted(doc, maxKeys) <=> D!Trusted(other, maxKeys)
         /\ D!Trusted(doc, maxKeys) =>
              \A kid \in Kids, algorithm \in D!Algorithms :
                D!Compatible(D!Indexed(doc).keys, kid, algorithm)
                  = D!Compatible(D!Indexed(other).keys, kid, algorithm)
<1> DEFINE I == 1 .. Len(doc)
<1>1. D!MeansWhatItSays(doc, maxKeys, Kids) /\ D!MeansWhatItSays(other, maxKeys, Kids)
  BY DocumentsMeanWhatTheySay
<1>2. 1 .. Len(doc) = I /\ 1 .. Len(other) = I
  OBVIOUS
<1>3. /\ \A i \in I : p[i] \in I /\ other[i] = doc[p[i]]
      /\ \A i, j \in I : p[i] = p[j] => i = j
      /\ \A j \in I : \E i \in I : p[i] = j
  OBVIOUS
<1> HIDE DEF I
<1>4. ASSUME D!Distinct(doc) PROVE D!Distinct(other)
  <2>1. \A i, j \in I : doc[i].named /\ doc[j].named /\ doc[i].kid = doc[j].kid => i = j
    BY <1>2, <1>4 DEF D!Distinct
  <2>2. ASSUME NEW i \in I, NEW j \in I,
               other[i].named, other[j].named, other[i].kid = other[j].kid
        PROVE  i = j
    <3>1. p[i] \in I /\ p[j] \in I /\ other[i] = doc[p[i]] /\ other[j] = doc[p[j]]
      BY <1>3
    <3>2. doc[p[i]].named /\ doc[p[j]].named /\ doc[p[i]].kid = doc[p[j]].kid
      BY <2>2, <3>1, Zenon
    <3>3. p[i] = p[j]
      BY <2>1, <3>1, <3>2, Zenon
    <3> QED
      BY <1>3, <3>3, Zenon
  <2> QED
    BY <1>2, <2>2 DEF D!Distinct
<1>5. ASSUME D!Distinct(other) PROVE D!Distinct(doc)
  <2>1. \A i, j \in I : other[i].named /\ other[j].named /\ other[i].kid = other[j].kid => i = j
    BY <1>2, <1>5 DEF D!Distinct
  <2>2. ASSUME NEW i \in I, NEW j \in I,
               doc[i].named, doc[j].named, doc[i].kid = doc[j].kid
        PROVE  i = j
    <3>1. PICK k \in I : p[k] = i
      BY <1>3
    <3>2. PICK l \in I : p[l] = j
      BY <1>3
    <3>3. other[k] = doc[i] /\ other[l] = doc[j]
      BY <1>3, <3>1, <3>2
    <3>4. other[k].named /\ other[l].named /\ other[k].kid = other[l].kid
      BY <2>2, <3>3, Zenon
    <3>5. k = l
      BY <2>1, <3>4, Zenon
    <3> QED
      BY <3>1, <3>2, <3>5
  <2> QED
    BY <1>2, <2>2 DEF D!Distinct
<1>6. ASSUME NEW kid \in Kids, NEW algorithm \in D!Algorithms
      PROVE  {doc[i] : i \in {i \in I : D!Offers(doc, i, kid, algorithm)}}
           = {other[i] : i \in {i \in I : D!Offers(other, i, kid, algorithm)}}
  <2>1. ASSUME NEW i \in I
        PROVE  D!Offers(other, i, kid, algorithm) <=> D!Offers(doc, p[i], kid, algorithm)
    BY <1>3, Zenon DEF D!Offers
  <2>2. ASSUME NEW i \in I, D!Offers(other, i, kid, algorithm)
        PROVE  \E k \in I : D!Offers(doc, k, kid, algorithm) /\ other[i] = doc[k]
    BY <1>3, <2>1, <2>2, Zenon
  <2>3. ASSUME NEW k \in I, D!Offers(doc, k, kid, algorithm)
        PROVE  \E i \in I : D!Offers(other, i, kid, algorithm) /\ doc[k] = other[i]
    <3>1. PICK i \in I : p[i] = k
      BY <1>3, Zenon
    <3>2. D!Offers(doc, p[i], kid, algorithm) /\ other[i] = doc[p[i]]
      BY <1>3, <2>3, <3>1, Zenon
    <3> QED
      BY <2>1, <3>1, <3>2, Zenon
  <2> DEFINE A == {doc[i] : i \in {i \in I : D!Offers(doc, i, kid, algorithm)}}
             B == {other[i] : i \in {i \in I : D!Offers(other, i, kid, algorithm)}}
  <2>4. ASSUME NEW x \in A PROVE x \in B
    <3>1. PICK k \in I : D!Offers(doc, k, kid, algorithm) /\ x = doc[k]
      BY <2>4
    <3>2. PICK i \in I : D!Offers(other, i, kid, algorithm) /\ doc[k] = other[i]
      BY <2>3, <3>1
    <3> QED
      BY <3>1, <3>2
  <2>5. ASSUME NEW x \in B PROVE x \in A
    <3>1. PICK i \in I : D!Offers(other, i, kid, algorithm) /\ x = other[i]
      BY <2>5
    <3>2. PICK k \in I : D!Offers(doc, k, kid, algorithm) /\ other[i] = doc[k]
      BY <2>2, <3>1
    <3> QED
      BY <3>1, <3>2
  <2>6. A = B
    <3> HIDE DEF A, B
    <3> QED
      BY <2>4, <2>5
  <2> QED
    BY <2>6
<1>7. D!Trusted(doc, maxKeys) <=> D!Trusted(other, maxKeys)
  BY <1>1, <1>4, <1>5 DEF D!MeansWhatItSays
<1>8. ASSUME D!Trusted(doc, maxKeys), NEW kid \in Kids, NEW algorithm \in D!Algorithms
      PROVE  D!Compatible(D!Indexed(doc).keys, kid, algorithm)
               = D!Compatible(D!Indexed(other).keys, kid, algorithm)
  <2>1. D!Compatible(D!Indexed(doc).keys, kid, algorithm)
          = {doc[i] : i \in {i \in I : D!Offers(doc, i, kid, algorithm)}}
    BY <1>1, <1>8, Zenon DEF D!MeansWhatItSays, I
  <2>2. D!Compatible(D!Indexed(other).keys, kid, algorithm)
          = {other[i] : i \in {i \in I : D!Offers(other, i, kid, algorithm)}}
    <3>1. D!Compatible(D!Indexed(other).keys, kid, algorithm)
            = {other[i] : i \in {i \in 1 .. Len(other) : D!Offers(other, i, kid, algorithm)}}
      BY <1>1, <1>7, <1>8, Zenon DEF D!MeansWhatItSays
    <3> QED
      BY <1>2, <3>1
  <2>3. {doc[i] : i \in {i \in I : D!Offers(doc, i, kid, algorithm)}}
          = {other[i] : i \in {i \in I : D!Offers(other, i, kid, algorithm)}}
    BY <1>6
  <2> QED
    BY <2>1, <2>2, <2>3
<1> QED
  BY <1>7, <1>8, Zenon
=============================================================================
