----------------------- MODULE TokenVerificationProofs -----------------------
(***************************************************************************)
(* Proofs about TokenVerification, for any number of verifications, tokens *)
(* and URIs, any lifespans and any leeway.  What they need of the key      *)
(* resolver is taken from JwksResolverProofs.                              *)
(***************************************************************************)
EXTENDS TokenVerification, TLAPS

P == INSTANCE JwksResolverProofs

-----------------------------------------------------------------------------
(* The resolver that TokenVerification composes is the one of those proofs. *)

\* Its assumptions hold.
LEMMA ResolverAssumptions == P!ParameterAssumption /\ P!NoneAssumption
BY VerificationAssumption, VerificationNoneAssumption
   DEF P!ParameterAssumption, P!NoneAssumption, P!Entry, Resolver!Entry

LEMMA SameTerms ==
  /\ P!Waiting = Resolver!Waiting /\ P!Returned = Resolver!Returned
  /\ P!vars = Resolver!vars
  /\ P!Init <=> Resolver!Init
BY DEF P!Waiting, Resolver!Waiting, P!Returned, Resolver!Returned,
       P!Init, Resolver!Init, P!vars, Resolver!vars, P!providerVars,
       Resolver!providerVars, P!lockVars, Resolver!lockVars, P!callVars,
       Resolver!callVars, P!traffic, Resolver!traffic

\* The steps that begin a call.
LEMMA SameBegin ==
  ASSUME NEW r \in Requests
  PROVE  /\ P!RejectHeader(r) <=> Resolver!RejectHeader(r)
         /\ \A u \in Uris, k \in Keys :
              /\ P!BeginCached(r, u, k) <=> Resolver!BeginCached(r, u, k)
              /\ P!BeginCold(r, u, k) <=> Resolver!BeginCold(r, u, k)
BY DEF P!RejectHeader, P!BeginCached, P!BeginCold, P!Idle, P!Raise, P!Suspend,
       P!SendFetch, P!ForcedSection, P!Return, P!Cooling, P!Fresh, P!LockFree,
       P!NewJob, P!Waiting, P!Returned, P!providerVars, P!lockVars, P!traffic,
       Resolver!RejectHeader, Resolver!BeginCached, Resolver!BeginCold,
       Resolver!Idle, Resolver!Raise, Resolver!Suspend, Resolver!SendFetch,
       Resolver!ForcedSection, Resolver!Return, Resolver!Cooling,
       Resolver!Fresh, Resolver!LockFree, Resolver!NewJob, Resolver!Waiting,
       Resolver!Returned, Resolver!providerVars, Resolver!lockVars,
       Resolver!traffic

\* The steps of a call under way.
LEMMA SameStep ==
  ASSUME NEW r \in Requests
  PROVE  /\ P!Resume(r) <=> Resolver!Resume(r)
         /\ P!Respond(r) <=> Resolver!Respond(r)
         /\ P!Store(r) <=> Resolver!Store(r)
         /\ P!FetchFail(r) <=> Resolver!FetchFail(r)
         /\ P!CancelWaiter(r) <=> Resolver!CancelWaiter(r)
BY DEF P!Resume, P!Respond, P!Store, P!FetchFail, P!CancelWaiter, P!Raise,
       P!Suspend, P!SendFetch, P!ForcedSection, P!ForceAfterRelease, P!Return,
       P!Cooling, P!Fresh, P!providerVars, P!lockVars, P!traffic,
       Resolver!Resume, Resolver!Respond, Resolver!Store, Resolver!FetchFail,
       Resolver!CancelWaiter, Resolver!Raise, Resolver!Suspend,
       Resolver!SendFetch, Resolver!ForcedSection, Resolver!ForceAfterRelease,
       Resolver!Return, Resolver!Cooling, Resolver!Fresh,
       Resolver!providerVars, Resolver!lockVars, Resolver!traffic

\* The environment's steps.
LEMMA SameEnvironment ==
  /\ P!Tick <=> Resolver!Tick
  /\ \A u \in Uris : P!Rotate(u) <=> Resolver!Rotate(u)
BY DEF P!Tick, Resolver!Tick, P!Rotate, Resolver!Rotate, P!Waiting,
       Resolver!Waiting, P!providerVars, Resolver!providerVars, P!lockVars,
       Resolver!lockVars, P!callVars, Resolver!callVars, P!traffic,
       Resolver!traffic

LEMMA SameNext == P!Next <=> Resolver!Next
BY SameBegin, SameStep, SameEnvironment DEF P!Next, Resolver!Next

-----------------------------------------------------------------------------
(* The invariant.                                                          *)

\* The resolver's position follows the call's, and the holder of discovery's
\* lock is the call that fetches metadata.
PhaseInv ==
  \A r \in Requests :
    /\ stage[r] = "keys" <=> pc[r] \in P!Waiting
    /\ stage[r] \in {"fetching", "replied"} <=> fetcher = r

\* The issuer announced u at some moment since b.
AnnouncedSince(u, b) ==
  u = announced \/ (retiredAt[u] # None /\ retiredAt[u] >= b)

\* What is cached, or travels, was announced after its fetch began.
HeardInv ==
  /\ \A u \in Uris : retiredAt[u] # None => retiredAt[u] <= now
  /\ metadata # None =>
       metadata.begun <= now /\ AnnouncedSince(metadata.uri, metadata.begun)
  /\ \A r \in Requests :
       /\ stage[r] \in {"fetching", "replied"} => call[r].begun <= now
       /\ stage[r] = "replied" =>
            call[r].uri \in Uris /\ AnnouncedSince(call[r].uri, call[r].begun)

\* A call that asks the resolver was given timely metadata, and its resolver
\* job is about that URI and its token's key.
Given(j) == j.meta \in Metadata /\ Timely(j)

KeysInv ==
  \A r \in Requests : stage[r] = "keys" =>
    /\ Given(call[r])
    /\ job[r].uri = call[r].meta.uri /\ job[r].key = call[r].token.key

IInv ==
  P!IInv /\ TypeOK /\ PhaseInv /\ HeardInv /\ KeysInv /\ AcceptedTokensCurrent

-----------------------------------------------------------------------------
(* What a step of the call r leaves, in three parts: its own locals, the   *)
(* resolver, and discovery's cache and lock.                               *)

LocalPart(r) ==
  /\ stage' \in [Requests -> {"idle"} \cup Verifying]
  /\ call' \in [Requests -> Call \cup {None}]
  /\ outcome' \in Outcome \cup {None}
  /\ stage'[r] # "idle" => call'[r] \in Call
  /\ \A s \in Requests \ {r} : stage'[s] = stage[s] /\ call'[s] = call[s]

ResolverPart(r) ==
  /\ now' = now
  /\ [P!Next]_(P!vars)
  /\ \A s \in Requests \ {r} : pc'[s] = pc[s] /\ job'[s] = job[s]
  /\ stage'[r] = "keys" <=> pc'[r] \in P!Waiting
  /\ stage'[r] = "keys" =>
       /\ Given(call'[r])
       /\ job'[r].uri = call'[r].meta.uri /\ job'[r].key = call'[r].token.key
  /\ AcceptedTokensCurrent'

DiscoveryPart(r) ==
  /\ UNCHANGED issuerVars
  /\ metadata' \in Metadata \cup {None}
  /\ metadata' # None =>
       metadata'.begun <= now /\ AnnouncedSince(metadata'.uri, metadata'.begun)
  /\ fetcher' \in Requests \cup {None}
  /\ line' \in Seq(Requests)
  /\ discoveries' \in Nat /\ discoveryFailures' \in Nat
  /\ stage'[r] \in {"fetching", "replied"} <=> fetcher' = r
  /\ \A s \in Requests \ {r} : fetcher' = s <=> fetcher = s
  /\ stage'[r] \in {"fetching", "replied"} => call'[r].begun <= now
  /\ stage'[r] = "replied" =>
       call'[r].uri \in Uris /\ AnnouncedSince(call'[r].uri, call'[r].begun)

\* A call that suspends.
LEMMA AwaitLocal ==
  ASSUME TypeOK, NEW r \in Requests, NEW j \in Call, NEW where \in Verifying,
         Await(r, j, where)
  PROVE  LocalPart(r) /\ stage'[r] = where /\ call'[r] = j /\ outcome' = None
BY DEF TypeOK, Await, LocalPart

\* A call that returns.
LEMMA ReturnLocal ==
  ASSUME TypeOK, NEW r \in Requests, NEW j \in Call,
         NEW result \in {"accepted", "rejected", "failed"}, Return(r, j, result)
  PROVE  /\ LocalPart(r) /\ stage'[r] = "idle"
         /\ outcome' = [request |-> r, call |-> j, result |-> result]
BY DEF TypeOK, Return, LocalPart, Outcome

\* The three parts together preserve the invariant.
LEMMA PartsPreserve ==
  ASSUME IInv, NEW r \in Requests, LocalPart(r), ResolverPart(r), DiscoveryPart(r)
  PROVE  IInv'
<1>1. P!IInv'
  BY ResolverAssumptions, P!TypeStep, P!LockPreserved, P!DocumentsPreserved
     DEF IInv, P!IInv, ResolverPart
<1>2. TypeOK'
  <2>1. \A s \in Requests : stage'[s] # "idle" => call'[s] \in Call
    BY DEF IInv, TypeOK, LocalPart
  <2> QED
    BY <2>1 DEF IInv, TypeOK, LocalPart, DiscoveryPart, issuerVars
<1>3. PhaseInv'
  BY DEF IInv, PhaseInv, LocalPart, ResolverPart, DiscoveryPart, P!Waiting
<1>4. HeardInv'
  BY DEF IInv, HeardInv, AnnouncedSince, LocalPart, ResolverPart, DiscoveryPart, issuerVars
<1>5. KeysInv'
  BY DEF IInv, KeysInv, Given, Timely, LocalPart, ResolverPart
<1> QED
  BY <1>1, <1>2, <1>3, <1>4, <1>5 DEF IInv, ResolverPart

\* A step that leaves the resolver alone.
LEMMA QuietStep ==
  ASSUME IInv, NEW r \in Requests, NEW j \in Call, UNCHANGED resolverVars,
         stage[r] # "keys",
         (\E where \in Discovering : Await(r, j, where)) \/ Return(r, j, "failed")
  PROVE  LocalPart(r) /\ ResolverPart(r)
<1>1. UNCHANGED P!vars
  BY DEF resolverVars, P!vars, P!providerVars, P!lockVars, P!callVars, P!traffic
<1>2. now' = now /\ pc' = pc /\ job' = job
  BY DEF resolverVars
<1>3. pc[r] \notin P!Waiting
  BY DEF IInv, PhaseInv
<1>4. LocalPart(r) /\ stage'[r] # "keys"
      /\ (outcome' = None \/ outcome'.result = "failed")
  BY AwaitLocal, ReturnLocal DEF IInv, Discovering, Verifying
<1>5. AcceptedTokensCurrent'
  BY <1>4 DEF AcceptedTokensCurrent
<1> QED
  BY <1>1, <1>2, <1>3, <1>4, <1>5 DEF ResolverPart

\* A step of the resolver for the call r, and what verify_token makes of it.
LEMMA SettledStep ==
  ASSUME IInv, NEW r \in Requests, NEW j \in Call, Given(j), P!Next,
         P!Serves(r, j.meta.uri, j.token.key), Settle(r, j)
  PROVE  LocalPart(r) /\ ResolverPart(r) /\ stage'[r] \in {"keys", "idle"}
<1>1. CASE pc'[r] \in P!Waiting /\ Await(r, j, "keys")
  <2>1. LocalPart(r) /\ stage'[r] = "keys" /\ call'[r] = j /\ outcome' = None
    BY <1>1, AwaitLocal DEF IInv, Verifying
  <2>2. AcceptedTokensCurrent'
    BY <2>1 DEF AcceptedTokensCurrent
  <2> QED
    BY <1>1, <2>1, <2>2 DEF ResolverPart, P!Serves
<1>2. CASE /\ pc'[r] = "accepted"
           /\ Return(r, j, IF Decodes(j.token) THEN "accepted" ELSE "rejected")
  <2> DEFINE result == IF Decodes(j.token) THEN "accepted" ELSE "rejected"
  <2>1. /\ LocalPart(r) /\ stage'[r] = "idle"
        /\ outcome' = [request |-> r, call |-> j, result |-> result]
    BY <1>2, ReturnLocal DEF IInv
  <2>2. /\ outcome'.call = j
        /\ outcome'.result = "accepted" => Decodes(j.token)
    BY <2>1
  <2>3. Decodes(j.token) => j.token.valid /\ j.token.exp + Leeway > now'
    <3>1. j.token.exp \in Int /\ now \in Nat /\ now' = now /\ Leeway \in Nat
      BY VerificationAssumption DEF Call, Token, IInv, P!IInv, P!TypeOK, P!Serves
    <3> QED
      BY <3>1 DEF Decodes
  <2>4. AcceptedTokensCurrent'
    <3>1. \/ j.token.key \in published'[j.meta.uri]
          \/ now' - removedAt'[j.meta.uri][j.token.key]
               < Ttl + (cache'[j.meta.uri].at - cache'[j.meta.uri].begun)
      BY <1>2 DEF P!Serves
    <3> QED
      BY <2>2, <2>3, <3>1 DEF AcceptedTokensCurrent, Given, Good, Timely
  <2> QED
    BY <1>2, <2>1, <2>4 DEF ResolverPart, P!Serves, P!Waiting
<1>3. CASE \/ pc'[r] = "nokey" /\ Return(r, j, "rejected")
           \/ pc'[r] = "error" /\ Return(r, j, "failed")
  <2>1. LocalPart(r) /\ stage'[r] = "idle" /\ outcome'.result # "accepted"
    BY <1>3, ReturnLocal DEF IInv
  <2>2. AcceptedTokensCurrent'
    BY <2>1 DEF AcceptedTokensCurrent
  <2> QED
    BY <1>3, <2>1, <2>2 DEF ResolverPart, P!Serves, P!Waiting
<1> QED
  BY <1>1, <1>2, <1>3, SameTerms DEF Settle

-----------------------------------------------------------------------------
(* One lemma per action.                                                   *)

\* The call's locals once it is given metadata: what it is given is timely, and
\* not called late while it is announced.
LEMMA LookupGives ==
  ASSUME IInv, NEW r \in Requests, NEW j \in Call, NEW meta \in Metadata,
         meta.begun <= now, AnnouncedSince(meta.uri, meta.begun),
         now < meta.at + MetadataTtl, Lookup(r, j, meta)
  PROVE  \E given \in Call :
           /\ Given(given) /\ given.meta = meta
           /\ given.token = j.token /\ given.absent = j.absent
           /\ given.late = None => meta.uri = announced
           /\ Settle(r, given)
           /\ \/ P!RejectHeader(r)
              \/ /\ j.token.key \in Keys
                 /\ \/ P!BeginCached(r, meta.uri, j.token.key)
                    \/ P!BeginCold(r, meta.uri, j.token.key)
<1> DEFINE outdated == ~(meta.uri = announced \/ retiredAt[meta.uri] = None)
           lateness == IF meta.uri = announced \/ retiredAt[meta.uri] = None
                         THEN None ELSE now - retiredAt[meta.uri]
           given == [j EXCEPT !.meta = meta, !.begun = 0, !.uri = None,
                              !.late = lateness]
<1>1. now \in Nat /\ meta.uri \in Uris /\ meta.begun \in Nat /\ meta.at \in Nat
  BY DEF IInv, P!IInv, P!TypeOK, Metadata
<1>2. \/ lateness = None /\ meta.uri = announced
      \/ lateness \in Nat /\ lateness <= now - meta.begun
  <2>1. CASE outdated
    <3>1. /\ retiredAt[meta.uri] \in Nat /\ retiredAt[meta.uri] <= now
          /\ meta.begun <= retiredAt[meta.uri]
      BY <1>1, <2>1 DEF IInv, TypeOK, HeardInv, AnnouncedSince
    <3> QED
      BY <1>1, <2>1, <3>1
  <2>2. CASE ~outdated
    BY <2>2 DEF AnnouncedSince
  <2> QED
    BY <2>1, <2>2
<1> HIDE DEF lateness
<1>3. /\ given \in Call /\ given.meta = meta /\ given.late = lateness
      /\ given.token = j.token /\ given.absent = j.absent
      /\ j.token.key \in Keys \cup {None}
  BY <1>2, VerificationAssumption DEF Call, Token
<1>4. /\ Settle(r, given)
      /\ \/ P!RejectHeader(r)
         \/ /\ j.token.key # None
            /\ \/ P!BeginCached(r, meta.uri, j.token.key)
               \/ P!BeginCold(r, meta.uri, j.token.key)
  BY <1>1, <1>3, SameBegin DEF Lookup, lateness
<1> HIDE DEF given
<1>5. Given(given)
  <2>1. lateness # None => lateness < MetadataTtl + (meta.at - meta.begun)
    BY <1>1, <1>2, VerificationAssumption
  <2> QED
    BY <1>3, <2>1 DEF Given, Timely
<1>6. given.late = None => meta.uri = announced
  BY <1>2, <1>3, VerificationNoneAssumption
<1> QED
  BY <1>3, <1>4, <1>5, <1>6

\* A call that is given metadata asks the resolver for its key at that URI.
LEMMA LookupStepSettled ==
  ASSUME IInv, NEW r \in Requests, NEW j \in Call, NEW meta \in Metadata,
         stage[r] # "keys",
         meta.begun <= now, AnnouncedSince(meta.uri, meta.begun),
         now < meta.at + MetadataTtl, Lookup(r, j, meta)
  PROVE  P!Next /\ LocalPart(r) /\ ResolverPart(r) /\ stage'[r] \in {"keys", "idle"}
<1>1. PICK given \in Call :
        /\ Given(given) /\ given.meta = meta /\ given.token = j.token
        /\ Settle(r, given)
        /\ \/ P!RejectHeader(r)
           \/ /\ j.token.key \in Keys
              /\ \/ P!BeginCached(r, meta.uri, j.token.key)
                 \/ P!BeginCold(r, meta.uri, j.token.key)
  BY LookupGives
<1>2. P!Next /\ P!Serves(r, given.meta.uri, given.token.key)
  BY <1>1, ResolverAssumptions, P!BeginServes, P!RejectServes DEF IInv, P!Next, Metadata
<1> QED
  BY <1>1, <1>2, SettledStep

\* The metadata the cache serves meets the conditions of the last lemma.
LEMMA KnownServed ==
  ASSUME IInv, Known
  PROVE  /\ metadata \in Metadata /\ metadata.begun <= now
         /\ AnnouncedSince(metadata.uri, metadata.begun)
         /\ now < metadata.at + MetadataTtl
BY DEF IInv, TypeOK, HeardInv, Known

\* What discovery's lock and cache keep when a step writes neither.
LEMMA DiscoveryKept ==
  ASSUME IInv, UNCHANGED <<issuerVars, metadata, discoveryFailures>>
  PROVE  /\ UNCHANGED issuerVars
         /\ metadata' \in Metadata \cup {None}
         /\ metadata' # None =>
              metadata'.begun <= now /\ AnnouncedSince(metadata'.uri, metadata'.begun)
         /\ discoveryFailures' \in Nat
BY DEF IInv, TypeOK, HeardInv

\* The task that leaves the queue leaves a queue.
LEMMA LeaveTyped ==
  ASSUME TypeOK, NEW r \in Requests, Leave(r)
  PROVE  line' \in Seq(Requests)
BY ResolverAssumptions, P!RemovalTyped DEF TypeOK, Leave

\* A new call is well typed.
LEMMA NewCallType ==
  ASSUME NEW token \in Tokens PROVE NewCall(token) \in Call
BY DEF NewCall, Call

\* The call that sends a discovery request holds the lock.
LEMMA SendDiscoveryStep ==
  ASSUME IInv, NEW r \in Requests, NEW j \in Call, SendDiscovery(r, j),
         UNCHANGED <<resolverVars, issuerVars, metadata, discoveryFailures>>,
         fetcher = None, stage[r] \in {"idle", "queued"}, line' \in Seq(Requests)
  PROVE  IInv'
<1> DEFINE sent == [j EXCEPT !.begun = now]
<1>1. now \in Nat
  BY DEF IInv, P!IInv, P!TypeOK
<1>2. sent \in Call /\ sent.begun = now
  BY <1>1 DEF Call
<1>3. /\ Await(r, sent, "fetching")
      /\ fetcher' = r /\ discoveries' = discoveries + 1
  BY DEF SendDiscovery
<1> HIDE DEF sent
<1>4. LocalPart(r) /\ ResolverPart(r)
  BY <1>2, <1>3, QuietStep DEF Discovering
<1>5. stage'[r] = "fetching" /\ call'[r] = sent
  BY <1>2, <1>3, AwaitLocal DEF IInv, Verifying, Discovering
<1>6. discoveries' \in Nat
  BY <1>3 DEF IInv, TypeOK
<1>7. DiscoveryPart(r)
  BY <1>1, <1>2, <1>3, <1>5, <1>6, DiscoveryKept, VerificationNoneAssumption
     DEF DiscoveryPart
<1> QED
  BY <1>4, <1>7, PartsPreserve

\* A step of the key resolver, taken in whatever turn of the event loop, while
\* discovery's lock is somebody else's.
LEMMA AskingStep ==
  ASSUME IInv, NEW r \in Requests, LocalPart(r), ResolverPart(r),
         stage'[r] \in {"keys", "idle"},
         UNCHANGED <<issuerVars, metadata, fetcher, discoveries, discoveryFailures>>,
         fetcher # r, line' \in Seq(Requests)
  PROVE  IInv'
<1>1. DiscoveryPart(r)
  BY DiscoveryKept DEF DiscoveryPart, IInv, TypeOK
<1> QED
  BY <1>1, PartsPreserve

LEMMA BeginPreserves ==
  ASSUME IInv, NEW r \in Requests, Begin(r)
  PROVE  IInv'
<1> PICK token \in Tokens :
      \/ /\ Known
         /\ Lookup(r, NewCall(token), metadata)
         /\ UNCHANGED <<lockVars, discoveries>>
      \/ /\ ~Known /\ ~DiscoveryLockFree
         /\ Await(r, NewCall(token), "queued")
         /\ line' = Append(line, r)
         /\ UNCHANGED <<resolverVars, fetcher, discoveries>>
      \/ /\ ~Known /\ DiscoveryLockFree
         /\ SendDiscovery(r, NewCall(token))
         /\ UNCHANGED <<resolverVars, line>>
  BY DEF Begin
<1>1. /\ stage[r] = "idle" /\ NewCall(token) \in Call
      /\ UNCHANGED <<issuerVars, metadata, discoveryFailures>>
  BY NewCallType DEF Begin
<1>2. fetcher # r
  BY <1>1 DEF IInv, PhaseInv
<1>3. CASE /\ Known /\ Lookup(r, NewCall(token), metadata)
           /\ UNCHANGED <<lockVars, discoveries>>
  BY <1>1, <1>2, <1>3, KnownServed, LookupStepSettled, AskingStep
     DEF IInv, TypeOK, lockVars
<1>4. CASE /\ ~DiscoveryLockFree /\ Await(r, NewCall(token), "queued")
           /\ line' = Append(line, r)
           /\ UNCHANGED <<resolverVars, fetcher, discoveries>>
  <2>1. LocalPart(r) /\ ResolverPart(r)
    BY <1>1, <1>4, QuietStep DEF Discovering
  <2>2. stage'[r] = "queued"
    BY <1>1, <1>4, AwaitLocal DEF IInv, Verifying, Discovering
  <2>3. DiscoveryPart(r)
    BY <1>1, <1>2, <1>4, <2>2, DiscoveryKept DEF DiscoveryPart, IInv, TypeOK
  <2> QED
    BY <2>1, <2>3, PartsPreserve
<1>5. CASE /\ DiscoveryLockFree /\ SendDiscovery(r, NewCall(token))
           /\ UNCHANGED <<resolverVars, line>>
  BY <1>1, <1>5, SendDiscoveryStep DEF DiscoveryLockFree, IInv, TypeOK
<1> QED
  BY <1>3, <1>4, <1>5

LEMMA DiscoveryResumePreserves ==
  ASSUME IInv, NEW r \in Requests, DiscoveryResume(r)
  PROVE  IInv'
<1>1. /\ stage[r] = "queued" /\ fetcher = None /\ Leave(r)
      /\ UNCHANGED <<issuerVars, metadata, discoveryFailures>>
  BY DEF DiscoveryResume
<1>2. call[r] \in Call /\ fetcher # r /\ line' \in Seq(Requests)
  BY <1>1, LeaveTyped DEF IInv, TypeOK, PhaseInv
<1>3. CASE /\ Known /\ Lookup(r, call[r], metadata)
           /\ UNCHANGED <<fetcher, discoveries>>
  BY <1>1, <1>2, <1>3, KnownServed, LookupStepSettled, AskingStep
<1>4. CASE SendDiscovery(r, call[r]) /\ UNCHANGED resolverVars
  BY <1>1, <1>2, <1>4, SendDiscoveryStep
<1> QED
  BY <1>3, <1>4 DEF DiscoveryResume

LEMMA DiscoveryRespondPreserves ==
  ASSUME IInv, NEW r \in Requests, DiscoveryRespond(r)
  PROVE  IInv'
<1> DEFINE told == [call[r] EXCEPT !.uri = announced]
<1>1. /\ stage[r] = "fetching" /\ Await(r, told, "replied")
      /\ UNCHANGED <<resolverVars, issuerVars, discoveryVars>>
  BY DEF DiscoveryRespond
<1>2. call[r] \in Call /\ announced \in Uris /\ call[r].begun <= now /\ fetcher = r
  BY <1>1 DEF IInv, TypeOK, HeardInv, PhaseInv
<1>3. told \in Call /\ told.uri = announced /\ told.begun = call[r].begun
  BY <1>2 DEF Call
<1> HIDE DEF told
<1>4. LocalPart(r) /\ ResolverPart(r)
  BY <1>1, <1>3, QuietStep DEF Discovering
<1>5. stage'[r] = "replied" /\ call'[r] = told
  BY <1>1, <1>3, AwaitLocal DEF IInv, Verifying, Discovering
<1>6. DiscoveryPart(r)
  BY <1>1, <1>2, <1>3, <1>5, DiscoveryKept
     DEF DiscoveryPart, AnnouncedSince, IInv, TypeOK, discoveryVars, lockVars
<1> QED
  BY <1>4, <1>6, PartsPreserve

LEMMA DiscoveryStorePreserves ==
  ASSUME IInv, NEW r \in Requests, DiscoveryStore(r)
  PROVE  IInv'
<1> DEFINE meta == [uri |-> call[r].uri, begun |-> call[r].begun, at |-> now]
<1>1. /\ stage[r] = "replied" /\ metadata' = meta /\ Lookup(r, call[r], meta)
      /\ fetcher' = None
      /\ UNCHANGED <<issuerVars, line, discoveries, discoveryFailures>>
  BY DEF DiscoveryStore
<1>2. /\ call[r] \in Call /\ call[r].uri \in Uris /\ call[r].begun <= now
      /\ AnnouncedSince(call[r].uri, call[r].begun) /\ fetcher = r
  BY <1>1 DEF IInv, TypeOK, HeardInv, PhaseInv
<1>3. now \in Nat /\ call[r].begun \in Nat
  BY <1>2 DEF IInv, P!IInv, P!TypeOK, Call
<1>4. /\ meta \in Metadata /\ meta.begun = call[r].begun /\ meta.uri = call[r].uri
      /\ now < meta.at + MetadataTtl
  BY <1>2, <1>3, VerificationAssumption DEF Metadata
<1> HIDE DEF meta
<1>5. LocalPart(r) /\ ResolverPart(r) /\ stage'[r] \in {"keys", "idle"}
  BY <1>1, <1>2, <1>4, LookupStepSettled
<1>6. DiscoveryPart(r)
  BY <1>1, <1>2, <1>4, <1>5, VerificationNoneAssumption DEF DiscoveryPart, IInv, TypeOK
<1> QED
  BY <1>5, <1>6, PartsPreserve

LEMMA DiscoveryFailPreserves ==
  ASSUME IInv, NEW r \in Requests, DiscoveryFail(r)
  PROVE  IInv'
<1>1. /\ stage[r] \in {"fetching", "replied"} /\ Return(r, call[r], "failed")
      /\ fetcher' = None /\ discoveryFailures' = discoveryFailures + 1
      /\ UNCHANGED <<resolverVars, issuerVars, metadata, line, discoveries>>
  BY DEF DiscoveryFail
<1>2. call[r] \in Call /\ fetcher = r
  BY <1>1 DEF IInv, TypeOK, PhaseInv
<1>3. LocalPart(r) /\ ResolverPart(r)
  BY <1>1, <1>2, QuietStep
<1>4. stage'[r] = "idle"
  BY <1>1, <1>2, ReturnLocal DEF IInv
<1>5. DiscoveryPart(r)
  BY <1>1, <1>2, <1>4, VerificationNoneAssumption DEF DiscoveryPart, IInv, TypeOK, HeardInv
<1> QED
  BY <1>3, <1>5, PartsPreserve

LEMMA CancelDiscoveryWaiterPreserves ==
  ASSUME IInv, NEW r \in Requests, CancelDiscoveryWaiter(r)
  PROVE  IInv'
<1>1. /\ stage[r] = "queued" /\ Return(r, call[r], "failed") /\ Leave(r)
      /\ UNCHANGED <<resolverVars, issuerVars, metadata, fetcher, discoveries,
                     discoveryFailures>>
  BY DEF CancelDiscoveryWaiter
<1>2. call[r] \in Call /\ fetcher # r /\ line' \in Seq(Requests)
  BY <1>1, LeaveTyped DEF IInv, TypeOK, PhaseInv
<1>3. LocalPart(r) /\ ResolverPart(r)
  BY <1>1, <1>2, QuietStep
<1>4. stage'[r] = "idle"
  BY <1>1, <1>2, ReturnLocal DEF IInv
<1> QED
  BY <1>1, <1>2, <1>3, <1>4, AskingStep

LEMMA LookupStepPreserves ==
  ASSUME IInv, NEW r \in Requests, LookupStep(r)
  PROVE  IInv' /\ P!Next
<1>1. /\ stage[r] = "keys" /\ Settle(r, call[r])
      /\ UNCHANGED <<issuerVars, discoveryVars>>
      /\ \/ P!Resume(r) \/ P!Respond(r) \/ P!Store(r)
         \/ P!FetchFail(r) \/ P!CancelWaiter(r)
  BY SameStep DEF LookupStep
<1>2. /\ call[r] \in Call /\ Given(call[r]) /\ fetcher # r
      /\ job[r].uri = call[r].meta.uri /\ job[r].key = call[r].token.key
  BY <1>1 DEF IInv, TypeOK, KeysInv, PhaseInv
<1>3. P!Next /\ P!Serves(r, call[r].meta.uri, call[r].token.key)
  BY <1>1, <1>2, ResolverAssumptions, P!StepServes DEF IInv, P!Next
<1>4. LocalPart(r) /\ ResolverPart(r) /\ stage'[r] \in {"keys", "idle"}
  BY <1>1, <1>2, <1>3, SettledStep
<1> QED
  BY <1>1, <1>2, <1>3, <1>4, AskingStep DEF discoveryVars, lockVars, IInv, TypeOK

-----------------------------------------------------------------------------
(* The environment.                                                        *)

\* The calls only learn, at most, that their key was absent.
Noted ==
  /\ call' \in [Requests -> Call \cup {None}]
  /\ \A r \in Requests :
       \/ call'[r] = call[r]
       \/ /\ call[r] \in Call
          /\ call'[r] = [call[r] EXCEPT !.absent = TRUE]

\* Both steps that set the flag do it to calls under way.
LEMMA NotedByFlag ==
  ASSUME TypeOK, NEW F \in SUBSET Requests, \A r \in F : stage[r] \in Verifying,
         call' = [r \in Requests |->
           IF r \in F THEN [call[r] EXCEPT !.absent = TRUE] ELSE call[r]]
  PROVE  Noted
<1>1. ASSUME NEW j \in Call PROVE [j EXCEPT !.absent = TRUE] \in Call
  BY DEF Call
<1>2. \A r \in F : call[r] \in Call
  BY DEF TypeOK, Verifying, Discovering
<1> QED
  BY <1>1, <1>2 DEF TypeOK, Noted

LEMMA EnvironmentPreserves ==
  ASSUME IInv, P!IInv', now' >= now, pc' = pc, stage' = stage, outcome' = None,
         UNCHANGED discoveryVars, Noted,
         \A r \in Requests : pc[r] \in P!Waiting =>
           job'[r].uri = job[r].uri /\ job'[r].key = job[r].key,
         announced' \in Uris, retiredAt' \in [Uris -> Nat \cup {None}], moves' \in Nat,
         \A u \in Uris : retiredAt'[u] # None => retiredAt'[u] <= now',
         \A u \in Uris : \A b \in Nat :
           b <= now /\ AnnouncedSince(u, b) =>
             u = announced' \/ (retiredAt'[u] # None /\ retiredAt'[u] >= b)
  PROVE  IInv'
<1>1. ASSUME NEW j \in Call
      PROVE  LET k == [j EXCEPT !.absent = TRUE]
             IN  /\ k \in Call /\ k.uri = j.uri /\ k.begun = j.begun
                 /\ k.meta = j.meta /\ k.late = j.late /\ k.token = j.token
                 /\ j.begun \in Nat
  BY DEF Call
<1>2. \A r \in Requests : call[r] \in Call =>
        /\ call'[r] \in Call
        /\ call'[r].uri = call[r].uri /\ call'[r].begun = call[r].begun
        /\ call'[r].meta = call[r].meta /\ call'[r].late = call[r].late
        /\ call'[r].token = call[r].token /\ call[r].begun \in Nat
  BY <1>1 DEF Noted
<1>3. \A r \in Requests : stage[r] # "idle" => call[r] \in Call
  BY DEF IInv, TypeOK
<1>4. metadata' = metadata /\ fetcher' = fetcher /\ line' = line
      /\ discoveries' = discoveries /\ discoveryFailures' = discoveryFailures
  BY DEF discoveryVars, lockVars
<1>5. now \in Nat /\ now' \in Nat
  BY DEF IInv, P!IInv, P!TypeOK
<1>6. TypeOK'
  <2>1. \A r \in Requests : stage'[r] # "idle" => call'[r] \in Call
    BY <1>2, <1>3
  <2> QED
    BY <1>4, <2>1 DEF IInv, TypeOK, Noted
<1>7. PhaseInv'
  BY <1>4 DEF IInv, PhaseInv, P!Waiting
<1>8. HeardInv'
  <2>1. metadata # None =>
          /\ metadata.begun \in Nat /\ metadata.uri \in Uris /\ metadata.begun <= now
          /\ AnnouncedSince(metadata.uri, metadata.begun)
    BY DEF IInv, TypeOK, HeardInv, Metadata
  <2>2. metadata' # None =>
          /\ metadata'.begun <= now'
          /\ \/ metadata'.uri = announced'
             \/ retiredAt'[metadata'.uri] # None /\ retiredAt'[metadata'.uri] >= metadata'.begun
    BY <1>4, <1>5, <2>1
  <2>3. ASSUME NEW r \in Requests, stage'[r] \in {"fetching", "replied"}
        PROVE  /\ call'[r].begun <= now'
               /\ stage'[r] = "replied" =>
                    /\ call'[r].uri \in Uris
                    /\ \/ call'[r].uri = announced'
                       \/ /\ retiredAt'[call'[r].uri] # None
                          /\ retiredAt'[call'[r].uri] >= call'[r].begun
    <3>1. /\ call[r].begun <= now /\ call[r] \in Call
          /\ stage[r] = "replied" =>
               call[r].uri \in Uris /\ AnnouncedSince(call[r].uri, call[r].begun)
      BY <1>3, <2>3 DEF IInv, HeardInv
    <3>2. /\ call'[r].uri = call[r].uri /\ call'[r].begun = call[r].begun
          /\ call[r].begun \in Nat
      BY <1>2, <3>1
    <3> QED
      BY <1>5, <3>1, <3>2
  <2> QED
    BY <2>2, <2>3 DEF HeardInv, AnnouncedSince
<1>9. KeysInv'
  <2> SUFFICES ASSUME NEW r \in Requests, stage'[r] = "keys"
               PROVE  /\ Given(call'[r])
                      /\ job'[r].uri = call'[r].meta.uri
                      /\ job'[r].key = call'[r].token.key
    BY DEF KeysInv, Given, Timely
  <2>1. /\ call[r] \in Call /\ pc[r] \in P!Waiting /\ Given(call[r])
        /\ job[r].uri = call[r].meta.uri /\ job[r].key = call[r].token.key
    BY <1>3 DEF IInv, PhaseInv, KeysInv
  <2> QED
    BY <1>2, <2>1 DEF Given, Timely
<1>10. AcceptedTokensCurrent'
  BY DEF AcceptedTokensCurrent
<1> QED
  BY <1>6, <1>7, <1>8, <1>9, <1>10 DEF IInv

LEMMA MovePreserves ==
  ASSUME IInv, Move
  PROVE  IInv'
<1> DEFINE F == {r \in Requests : stage[r] \in Verifying}
<1>1. PICK u \in Uris \ {announced} :
        /\ announced' = u
        /\ retiredAt' = [retiredAt EXCEPT ![announced] = now, ![u] = None]
  BY DEF Move
<1>2. UNCHANGED <<resolverVars, discoveryVars, stage>> /\ outcome' = None
      /\ moves' = moves + 1
  BY DEF Move
<1>3. Noted
  <2>1. F \in SUBSET Requests /\ \A r \in F : stage[r] \in Verifying
    OBVIOUS
  <2>2. call' = [r \in Requests |->
          IF r \in F THEN [call[r] EXCEPT !.absent = TRUE] ELSE call[r]]
    BY DEF Move
  <2> HIDE DEF F
  <2> QED
    BY <2>1, <2>2, NotedByFlag DEF IInv
<1>4. now' = now /\ now \in Nat /\ pc' = pc /\ job' = job
  BY <1>2 DEF resolverVars, IInv, P!IInv, P!TypeOK
<1>5. P!IInv'
  <2>1. UNCHANGED P!vars
    BY <1>2 DEF resolverVars, P!vars, P!providerVars, P!lockVars, P!callVars, P!traffic
  <2> QED
    BY <2>1, ResolverAssumptions, P!TypeStep, P!LockPreserved, P!DocumentsPreserved
       DEF IInv, P!IInv
<1>6. /\ announced \in Uris /\ retiredAt \in [Uris -> Nat \cup {None}] /\ moves \in Nat
      /\ \A v \in Uris : retiredAt[v] # None => retiredAt[v] <= now
  BY DEF IInv, TypeOK, HeardInv
<1>7. /\ retiredAt' \in [Uris -> Nat \cup {None}]
      /\ \A v \in Uris : retiredAt'[v] =
           IF v = u THEN None ELSE IF v = announced THEN now ELSE retiredAt[v]
  BY <1>1, <1>4, <1>6
<1>8. \A v \in Uris : \A b \in Nat :
        b <= now /\ AnnouncedSince(v, b) =>
          v = announced' \/ (retiredAt'[v] # None /\ retiredAt'[v] >= b)
  BY <1>1, <1>4, <1>6, <1>7, VerificationNoneAssumption DEF AnnouncedSince
<1>9. \A v \in Uris : retiredAt'[v] # None => retiredAt'[v] <= now'
  BY <1>4, <1>6, <1>7
<1> QED
  BY <1>1, <1>2, <1>3, <1>4, <1>5, <1>6, <1>7, <1>8, <1>9, EnvironmentPreserves

\* A step of the provider, or of the clock.
LEMMA ProviderPreserves ==
  ASSUME IInv, P!Tick \/ \E u \in Uris : P!Rotate(u), P!Next, stage' = stage,
         outcome' = None, UNCHANGED <<issuerVars, discoveryVars>>, Noted
  PROVE  IInv'
<1>1. P!IInv'
  BY ResolverAssumptions, P!TypeStep, P!LockPreserved, P!DocumentsPreserved
     DEF IInv, P!IInv
<1>2. /\ pc' = pc
      /\ \A r \in Requests : pc[r] \in P!Waiting =>
           job'[r].uri = job[r].uri /\ job'[r].key = job[r].key
  BY ResolverAssumptions, P!EnvironmentServes DEF IInv
<1>3. now \in Nat /\ (now' = now \/ now' = now + 1)
  BY DEF IInv, P!IInv, P!TypeOK, P!Tick, P!Rotate
<1>4. /\ announced \in Uris /\ retiredAt \in [Uris -> Nat \cup {None}] /\ moves \in Nat
      /\ \A u \in Uris : retiredAt[u] # None => retiredAt[u] <= now
      /\ announced' = announced /\ retiredAt' = retiredAt /\ moves' = moves
  BY DEF IInv, TypeOK, HeardInv, issuerVars
<1>5. \A u \in Uris : retiredAt'[u] # None => retiredAt'[u] <= now'
  BY <1>3, <1>4
<1>6. \A u \in Uris : \A b \in Nat :
        b <= now /\ AnnouncedSince(u, b) =>
          u = announced' \/ (retiredAt'[u] # None /\ retiredAt'[u] >= b)
  BY <1>4 DEF AnnouncedSince
<1> QED
  BY <1>1, <1>2, <1>3, <1>4, <1>5, <1>6, EnvironmentPreserves

LEMMA RotatePreserves ==
  ASSUME IInv, NEW u \in Uris, Rotate(u)
  PROVE  IInv' /\ P!Next
<1> DEFINE F == {r \in Requests : /\ stage[r] \in Verifying
                                  /\ u = announced
                                  /\ call[r].token.key \notin published'[u]}
<1>1. P!Rotate(u) /\ P!Next
  BY SameEnvironment DEF Rotate, P!Next
<1>2. Noted
  <2>1. F \in SUBSET Requests /\ \A r \in F : stage[r] \in Verifying
    OBVIOUS
  <2>2. call' = [r \in Requests |->
          IF r \in F THEN [call[r] EXCEPT !.absent = TRUE] ELSE call[r]]
    BY DEF Rotate
  <2> HIDE DEF F
  <2> QED
    BY <2>1, <2>2, NotedByFlag DEF IInv
<1> QED
  BY <1>1, <1>2, ProviderPreserves DEF Rotate

LEMMA TickPreserves ==
  ASSUME IInv, Tick
  PROVE  IInv' /\ P!Next
<1>1. P!Tick /\ P!Next
  BY SameEnvironment DEF Tick, P!Next
<1>2. Noted
  BY DEF Tick, Noted, IInv, TypeOK
<1> QED
  BY <1>1, <1>2, ProviderPreserves DEF Tick

-----------------------------------------------------------------------------
(* The theorems.                                                           *)

LEMMA InvariantInit == Init => IInv
<1> SUFFICES ASSUME Init PROVE IInv
  OBVIOUS
<1>1. P!Init
  BY SameTerms DEF Init
<1>2. P!IInv
  BY <1>1, ResolverAssumptions, P!TypeInit, P!LockInit, P!DocumentsInit DEF P!IInv
<1>3. \A r \in Requests : pc[r] = "idle"
  BY <1>1 DEF P!Init
<1>4. TypeOK
  BY DEF Init, TypeOK, Verifying
<1>5. PhaseInv
  BY <1>3, VerificationNoneAssumption DEF Init, PhaseInv, P!Waiting
<1>6. HeardInv /\ KeysInv /\ AcceptedTokensCurrent
  BY DEF Init, HeardInv, KeysInv, AcceptedTokensCurrent
<1> QED
  BY <1>2, <1>4, <1>5, <1>6 DEF IInv

LEMMA StutterPreserves ==
  ASSUME IInv, UNCHANGED vars
  PROVE  IInv'
<1>1. /\ UNCHANGED resolverVars /\ UNCHANGED issuerVars /\ UNCHANGED callVars
      /\ UNCHANGED <<metadata, fetcher, line, discoveries, discoveryFailures>>
  BY DEF vars, discoveryVars, lockVars
<1>2. UNCHANGED P!vars
  BY <1>1 DEF resolverVars, P!vars, P!providerVars, P!lockVars, P!callVars, P!traffic
<1>3. P!IInv'
  BY <1>2, ResolverAssumptions, P!TypeStep, P!LockPreserved, P!DocumentsPreserved
     DEF IInv, P!IInv
<1>4. TypeOK' /\ PhaseInv'
  BY <1>1 DEF IInv, TypeOK, PhaseInv, P!Waiting, resolverVars, issuerVars, callVars
<1>5. HeardInv' /\ KeysInv'
  BY <1>1 DEF IInv, HeardInv, KeysInv, AnnouncedSince, Given, Timely, resolverVars,
              issuerVars, callVars
<1>6. AcceptedTokensCurrent'
  BY <1>1 DEF IInv, AcceptedTokensCurrent, Good, Timely, resolverVars, callVars
<1> QED
  BY <1>3, <1>4, <1>5, <1>6 DEF IInv

LEMMA InvariantPreserved == IInv /\ [Next]_vars => IInv'
<1> SUFFICES ASSUME IInv, [Next]_vars PROVE IInv'
  OBVIOUS
<1>1. ASSUME NEW r \in Requests,
             \/ Begin(r) \/ DiscoveryResume(r) \/ DiscoveryRespond(r)
             \/ DiscoveryStore(r) \/ DiscoveryFail(r)
             \/ CancelDiscoveryWaiter(r) \/ LookupStep(r)
      PROVE  IInv'
  BY <1>1, BeginPreserves, DiscoveryResumePreserves, DiscoveryRespondPreserves,
     DiscoveryStorePreserves, DiscoveryFailPreserves,
     CancelDiscoveryWaiterPreserves, LookupStepPreserves
<1>2. CASE Move
  BY <1>2, MovePreserves
<1>3. CASE (\E u \in Uris : Rotate(u)) \/ Tick
  BY <1>3, RotatePreserves, TickPreserves
<1>4. CASE UNCHANGED vars
  BY <1>4, StutterPreserves
<1> QED
  BY <1>1, <1>2, <1>3, <1>4 DEF Next

LEMMA InvariantHolds == Spec => []IInv
BY InvariantInit, InvariantPreserved, PTL DEF Spec

\* Every variable keeps its type.
THEOREM TypeCorrect == Spec => []TypeOK
<1>1. IInv => TypeOK
  BY DEF IInv
<1> QED
  BY <1>1, InvariantHolds, PTL

\* A verification never holds discovery's lock and the resolver's at once, so
\* neither can block the other's holder.
THEOREM LocksNeverNest == Spec => []NeverBothLocks
<1>1. IInv => NeverBothLocks
  BY SameTerms DEF IInv, PhaseInv, NeverBothLocks, P!IInv, P!SingleFlight,
                   P!Waiting, Discovering
<1> QED
  BY <1>1, InvariantHolds, PTL

\* A token is accepted only unexpired, from a timely URI and with a recent key,
\* whatever was awaited between the checks.
THEOREM AcceptedCurrent == Spec => []AcceptedTokensCurrent
<1>1. IInv => AcceptedTokensCurrent
  BY DEF IInv
<1> QED
  BY <1>1, InvariantHolds, PTL

-----------------------------------------------------------------------------
(* The resolver within verify_token takes only steps of JwksResolver.      *)

\* A call of verify_token moves the resolver by a step of its own, or not.
LEMMA CallMovesResolver ==
  ASSUME IInv, NEW r \in Requests,
         \/ Begin(r) \/ DiscoveryResume(r) \/ DiscoveryRespond(r)
         \/ DiscoveryStore(r) \/ DiscoveryFail(r)
         \/ CancelDiscoveryWaiter(r) \/ LookupStep(r)
  PROVE  P!Next \/ UNCHANGED resolverVars
<1>1. ASSUME NEW j, NEW meta \in Metadata, Lookup(r, j, meta), j.token.key \in Keys \cup {None}
      PROVE  P!Next
  BY <1>1, SameBegin DEF Lookup, P!Next, Metadata
<1>2. \A j \in Call : j.token.key \in Keys \cup {None}
  BY VerificationAssumption DEF Call, Token
<1>3. CASE Begin(r)
  BY <1>1, <1>2, <1>3, KnownServed, NewCallType DEF Begin
<1>4. CASE DiscoveryResume(r)
  BY <1>1, <1>2, <1>4, KnownServed DEF DiscoveryResume, IInv, TypeOK
<1>5. CASE DiscoveryStore(r)
  <2> DEFINE meta == [uri |-> call[r].uri, begun |-> call[r].begun, at |-> now]
  <2>1. stage[r] = "replied" /\ Lookup(r, call[r], meta)
    BY <1>5 DEF DiscoveryStore
  <2>2. call[r] \in Call /\ call[r].uri \in Uris
    BY <2>1 DEF IInv, TypeOK, HeardInv
  <2>3. meta \in Metadata
    BY <2>2 DEF Metadata, Call, IInv, P!IInv, P!TypeOK
  <2> HIDE DEF meta
  <2> QED
    BY <1>1, <1>2, <2>1, <2>2, <2>3
<1>6. CASE DiscoveryRespond(r) \/ DiscoveryFail(r) \/ CancelDiscoveryWaiter(r)
  BY <1>6 DEF DiscoveryRespond, DiscoveryFail, CancelDiscoveryWaiter
<1>7. CASE LookupStep(r)
  BY <1>7, LookupStepPreserves
<1> QED
  BY <1>3, <1>4, <1>5, <1>6, <1>7

\* So does every step.
LEMMA StepMovesResolver ==
  ASSUME IInv, [Next]_vars
  PROVE  P!Next \/ UNCHANGED resolverVars
<1>1. CASE Move \/ UNCHANGED vars
  BY <1>1 DEF Move, vars
<1>2. CASE (\E u \in Uris : Rotate(u)) \/ Tick
  BY <1>2, RotatePreserves, TickPreserves
<1> QED
  BY <1>1, <1>2, CallMovesResolver DEF Next

LEMMA ResolverMoves ==
  IInv /\ [Next]_vars => [Resolver!Next]_(Resolver!vars) /\ [P!Next]_(P!vars)
<1>1. UNCHANGED resolverVars => UNCHANGED Resolver!vars /\ UNCHANGED P!vars
  BY DEF resolverVars, Resolver!vars, Resolver!providerVars, Resolver!lockVars,
         Resolver!callVars, Resolver!traffic, P!vars, P!providerVars, P!lockVars,
         P!callVars, P!traffic
<1> QED
  BY <1>1, StepMovesResolver, SameNext

\* Behind verify_token the key resolver behaves as JwksResolver says, so what
\* is proved of it (one fetch at a time, documents that never go back, bounded
\* revocation) holds of the composition.
THEOREM ResolverImplemented == Spec => Resolver!Spec
<1>1. Init => Resolver!Init
  BY DEF Init
<1> QED
  BY <1>1, InvariantHolds, ResolverMoves, PTL DEF Spec, Resolver!Spec

\* So behind verify_token there is a key source, whatever discovery does.
THEOREM SourceImplemented == Spec => P!SourceSafe
<1>1. Init => P!Init
  BY SameTerms DEF Init
<1> QED
  BY <1>1, InvariantHolds, ResolverMoves, P!Refinement, ResolverAssumptions, PTL DEF Spec, P!Spec

-----------------------------------------------------------------------------
(* Nobody waits for ever behind a lock that nobody has: the part of        *)
(* EveryVerificationEnds that is an invariant.                             *)

Lining == {r \in Requests : stage[r] = "queued"}

LineInv == P!Lists(line, Lining)

\* A call that waits for metadata stands in discovery's queue once, and the
\* lock is with a call that fetches or free for the first of the queue, which
\* waits; and so for the lock of the key resolver.  Whoever has a lock waits for
\* none (NeverBothLocks), so no chain of waiting calls closes.
NeverStuck ==
  /\ \A r \in Requests : stage[r] = "queued" =>
       /\ \E i \in 1 .. Len(line) : line[i] = r
       /\ \A i, k \in 1 .. Len(line) : line[i] = r /\ line[k] = r => i = k
       /\ \/ \E s \in Requests : stage[s] \in {"fetching", "replied"} /\ fetcher = s
          \/ fetcher = None /\ line # <<>> /\ stage[Head(line)] = "queued"
  /\ P!NobodyForgotten

\* A step of the call r that does not queue it for metadata.
LEMMA LineShrinks ==
  ASSUME TypeOK, LineInv, NEW r \in Requests,
         NEW where \in {"idle", "fetching", "replied", "keys"},
         stage' = [stage EXCEPT ![r] = where],
         \/ Leave(r)
         \/ stage[r] # "queued" /\ line' = line
  PROVE  LineInv'
<1>1. Lining' = Lining \ {r}
  BY DEF TypeOK, Lining
<1>2. CASE Leave(r)
  <2>0. PICK i \in DOMAIN line :
          /\ line[i] = r
          /\ line' = SubSeq(line, 1, i - 1) \o SubSeq(line, i + 1, Len(line))
    BY <1>2 DEF Leave
  <2>1. i \in 1 .. Len(line)
    BY DEF TypeOK
  <2> DEFINE q == SubSeq(line, 1, i - 1) \o SubSeq(line, i + 1, Len(line))
  <2>2. P!Lists(q, Lining \ {line[i]})
    BY <2>1, ResolverAssumptions, P!RemovalLists DEF TypeOK, LineInv
  <2> HIDE DEF q
  <2> QED
    BY <1>1, <2>0, <2>2 DEF LineInv, P!Lists, q
<1>3. CASE stage[r] # "queued" /\ line' = line
  <2>1. Lining \ {r} = Lining
    BY <1>3 DEF Lining
  <2> QED
    BY <1>1, <1>3, <2>1 DEF LineInv, P!Lists
<1> QED
  BY <1>2, <1>3

\* What verify_token makes of the resolver's step queues nobody for metadata.
LEMMA SettleMoves ==
  ASSUME NEW r, NEW j, Settle(r, j)
  PROVE  \E where \in {"idle", "keys"} : stage' = [stage EXCEPT ![r] = where]
BY DEF Settle, Await, Return

LEMMA LookupMoves ==
  ASSUME NEW r, NEW j, NEW meta, Lookup(r, j, meta)
  PROVE  \E where \in {"idle", "keys"} : stage' = [stage EXCEPT ![r] = where]
BY SettleMoves DEF Lookup

LEMMA LinePreserved == TypeOK /\ LineInv /\ [Next]_vars => LineInv'
<1> SUFFICES ASSUME TypeOK, LineInv, [Next]_vars PROVE LineInv'
  OBVIOUS
<1>1. ASSUME NEW r \in Requests, Begin(r) PROVE LineInv'
  <2>1. stage[r] = "idle"
    BY <1>1 DEF Begin
  <2>2. \/ /\ line' = line
           /\ \E where \in {"idle", "keys"} : stage' = [stage EXCEPT ![r] = where]
        \/ stage' = [stage EXCEPT ![r] = "queued"] /\ line' = Append(line, r)
        \/ stage' = [stage EXCEPT ![r] = "fetching"] /\ line' = line
    BY <1>1, LookupMoves DEF Begin, Await, SendDiscovery, lockVars
  <2>3. CASE stage' = [stage EXCEPT ![r] = "queued"] /\ line' = Append(line, r)
    <3>1. Lining' = Lining \cup {r} /\ r \notin Lining
      BY <2>1, <2>3 DEF TypeOK, Lining
    <3> DEFINE q == Append(line, r)
    <3>2. P!Lists(q, Lining \cup {r})
      BY <3>1, ResolverAssumptions, P!AppendLists DEF TypeOK, LineInv
    <3> HIDE DEF q
    <3> QED
      BY <2>3, <3>1, <3>2 DEF LineInv, P!Lists, q
  <2> QED
    BY <2>1, <2>2, <2>3, LineShrinks
<1>2. ASSUME NEW r \in Requests, DiscoveryResume(r) \/ CancelDiscoveryWaiter(r)
      PROVE  LineInv'
  <2>1. /\ Leave(r)
        /\ \E where \in {"idle", "fetching", "keys"} : stage' = [stage EXCEPT ![r] = where]
    BY <1>2, LookupMoves
       DEF DiscoveryResume, CancelDiscoveryWaiter, SendDiscovery, Await, Return
  <2> QED
    BY <2>1, LineShrinks
<1>3. ASSUME NEW r \in Requests, DiscoveryRespond(r) \/ DiscoveryStore(r) \/ DiscoveryFail(r)
      PROVE  LineInv'
  <2>1. /\ stage[r] # "queued" /\ line' = line
        /\ \E where \in {"idle", "replied", "keys"} : stage' = [stage EXCEPT ![r] = where]
    BY <1>3, LookupMoves
       DEF DiscoveryRespond, DiscoveryStore, DiscoveryFail, Await, Return, discoveryVars, lockVars
  <2> QED
    BY <2>1, LineShrinks
<1>4. ASSUME NEW r \in Requests, LookupStep(r) PROVE LineInv'
  <2>1. /\ stage[r] # "queued" /\ line' = line
        /\ \E where \in {"idle", "keys"} : stage' = [stage EXCEPT ![r] = where]
    BY <1>4, SettleMoves DEF LookupStep, discoveryVars, lockVars
  <2> QED
    BY <2>1, LineShrinks
<1>5. ASSUME Move \/ (\E u \in Uris : Rotate(u)) \/ Tick \/ UNCHANGED vars
      PROVE  LineInv'
  <2>1. stage' = stage /\ line' = line
    BY <1>5 DEF Move, Rotate, Tick, vars, callVars, discoveryVars, lockVars
  <2> QED
    BY <2>1 DEF LineInv, Lining, P!Lists
<1> QED
  BY <1>1, <1>2, <1>3, <1>4, <1>5 DEF Next

\* However the calls interleave, fail or are cancelled, none of them waits
\* behind a lock that nobody will release.
THEOREM Unstuck == Spec => []NeverStuck
<1> DEFINE Kept ==
      \A r \in Requests : stage[r] = "queued" =>
        /\ \E i \in 1 .. Len(line) : line[i] = r
        /\ \A i, k \in 1 .. Len(line) : line[i] = r /\ line[k] = r => i = k
        /\ \/ \E s \in Requests : stage[s] \in {"fetching", "replied"} /\ fetcher = s
           \/ fetcher = None /\ line # <<>> /\ stage[Head(line)] = "queued"
<1>1. IInv /\ LineInv => Kept
  <2> SUFFICES ASSUME IInv, LineInv, NEW r \in Requests, stage[r] = "queued"
               PROVE  /\ \E i \in 1 .. Len(line) : line[i] = r
                      /\ \A i, k \in 1 .. Len(line) : line[i] = r /\ line[k] = r => i = k
                      /\ \/ \E s \in Requests : stage[s] \in {"fetching", "replied"} /\ fetcher = s
                         \/ fetcher = None /\ line # <<>> /\ stage[Head(line)] = "queued"
    OBVIOUS
  <2>1. PICK i \in 1 .. Len(line) : line[i] = r
    BY DEF LineInv, Lining, P!Lists
  <2>2. line # <<>> /\ Head(line) = line[1] /\ 1 \in 1 .. Len(line)
    BY <2>1 DEF IInv, TypeOK
  <2>3. stage[Head(line)] = "queued"
    BY <2>2 DEF LineInv, Lining, P!Lists
  <2>4. fetcher = None \/ \E s \in Requests : stage[s] \in {"fetching", "replied"} /\ fetcher = s
    BY DEF IInv, TypeOK, PhaseInv
  <2> QED
    BY <2>1, <2>2, <2>3, <2>4 DEF LineInv, P!Lists
<1>2. Init => LineInv /\ P!Init
  BY SameTerms DEF Init, LineInv, Lining, P!Lists
<1>3. IInv /\ LineInv /\ [Next]_vars => LineInv'
  BY LinePreserved DEF IInv
<1>4. NeverStuck <=> Kept /\ P!NobodyForgotten
  BY DEF NeverStuck
<1> HIDE DEF Kept
<1> QED
  BY <1>1, <1>2, <1>3, <1>4, InvariantHolds, ResolverMoves, ResolverAssumptions, P!QueueKept, PTL
     DEF Spec, P!Spec

-----------------------------------------------------------------------------
(* Discovery is asked for at most once per lifespan and failure.           *)

\* A document is fetched again only once its predecessor expired, so each one
\* stored falls into a later lifespan than the one before.
Lifespans(n) == n \div MetadataTtl

CountInv ==
  /\ metadata # None => metadata.at <= now
  /\ fetcher # None /\ metadata # None => metadata.at + MetadataTtl <= now
  /\ discoveries <= discoveryFailures + (IF fetcher = None THEN 0 ELSE 1)
                      + (IF metadata = None THEN 0 ELSE Lifespans(metadata.at) + 1)

LEMMA LifespansGrow ==
  ASSUME NEW a \in Nat, NEW b \in Nat
  PROVE  /\ Lifespans(a) \in Nat
         /\ a <= b => Lifespans(a) <= Lifespans(b)
         /\ a + MetadataTtl <= b => Lifespans(a) + 1 <= Lifespans(b)
BY VerificationAssumption, ResolverAssumptions, P!PeriodsGrow DEF Lifespans

LEMMA CountInit == Init => CountInv
BY DEF Init, CountInv

LEMMA CountPreserved == IInv /\ CountInv /\ [Next]_vars => CountInv'
<1> SUFFICES ASSUME IInv, CountInv, [Next]_vars PROVE CountInv'
  OBVIOUS
<1>1. /\ now \in Nat /\ discoveries \in Nat /\ discoveryFailures \in Nat
      /\ MetadataTtl \in Nat \ {0}
      /\ metadata # None => metadata.at \in Nat /\ Lifespans(metadata.at) \in Nat
  BY VerificationAssumption, LifespansGrow
     DEF IInv, P!IInv, P!TypeOK, TypeOK, Metadata
<1>2. ASSUME UNCHANGED <<metadata, fetcher, discoveries, discoveryFailures>>,
             now' \in Nat, now <= now'
      PROVE  CountInv'
  BY <1>1, <1>2 DEF CountInv
<1>3. ASSUME NEW r \in Requests, NEW j, SendDiscovery(r, j), ~Known, fetcher = None,
             UNCHANGED <<resolverVars, metadata, discoveryFailures>>
      PROVE  CountInv'
  <2>1. /\ fetcher' = r /\ r # None /\ discoveries' = discoveries + 1
        /\ now' = now
    BY <1>3, VerificationNoneAssumption DEF SendDiscovery, resolverVars
  <2>2. metadata # None => metadata.at + MetadataTtl <= now
    BY <1>1, <1>3 DEF Known
  <2> QED
    BY <1>1, <1>3, <2>1, <2>2 DEF CountInv
<1>4. ASSUME NEW r \in Requests, \/ Begin(r) \/ DiscoveryResume(r)
      PROVE  CountInv'
  <2>1. ASSUME NEW j \in Call, Known, Lookup(r, j, metadata), stage[r] # "keys",
               UNCHANGED <<issuerVars, metadata, fetcher, discoveries, discoveryFailures>>
        PROVE  CountInv'
    <3>1. now' = now
      BY <2>1, KnownServed, LookupStepSettled DEF ResolverPart
    <3> QED
      BY <1>1, <1>2, <2>1, <3>1
  <2>2. CASE Begin(r)
    <3>1. stage[r] # "keys"
      BY <2>2 DEF Begin
    <3> QED
      BY <1>1, <1>2, <1>3, <2>1, <2>2, <3>1, NewCallType
         DEF Begin, lockVars, resolverVars, DiscoveryLockFree
  <2>3. CASE DiscoveryResume(r)
    <3>1. stage[r] # "keys" /\ call[r] \in Call
      BY <2>3 DEF DiscoveryResume, IInv, TypeOK
    <3> QED
      BY <1>1, <1>2, <1>3, <2>1, <2>3, <3>1 DEF DiscoveryResume
  <2> QED
    BY <1>4, <2>2, <2>3
<1>5. ASSUME NEW r \in Requests, DiscoveryStore(r)
      PROVE  CountInv'
  <2> DEFINE meta == [uri |-> call[r].uri, begun |-> call[r].begun, at |-> now]
  <2>1. /\ stage[r] = "replied" /\ metadata' = meta /\ Lookup(r, call[r], meta)
        /\ fetcher' = None
        /\ UNCHANGED <<issuerVars, line, discoveries, discoveryFailures>>
    BY <1>5 DEF DiscoveryStore
  <2>2. /\ call[r] \in Call /\ call[r].uri \in Uris /\ call[r].begun <= now
        /\ AnnouncedSince(call[r].uri, call[r].begun) /\ fetcher = r
    BY <2>1 DEF IInv, TypeOK, HeardInv, PhaseInv
  <2>3. /\ meta \in Metadata /\ meta.begun = call[r].begun /\ meta.uri = call[r].uri
        /\ meta.at = now /\ now < meta.at + MetadataTtl
    BY <1>1, <2>2 DEF Metadata, Call
  <2> HIDE DEF meta
  <2>4. now' = now
    BY <2>1, <2>2, <2>3, LookupStepSettled DEF ResolverPart
  <2>5. /\ Lifespans(now) \in Nat
        /\ metadata # None => Lifespans(metadata.at) + 1 <= Lifespans(now)
    BY <1>1, <2>2, LifespansGrow, VerificationNoneAssumption DEF CountInv
  <2>6. metadata' # None /\ metadata'.at = now
    BY <2>1, <2>3, VerificationNoneAssumption
  <2>7. discoveries <= discoveryFailures + 1 + Lifespans(now)
    BY <1>1, <2>2, <2>5, VerificationNoneAssumption DEF CountInv
  <2> QED
    BY <1>1, <2>1, <2>4, <2>5, <2>6, <2>7 DEF CountInv
<1>6. ASSUME NEW r \in Requests, DiscoveryFail(r)
      PROVE  CountInv'
  <2>1. /\ fetcher' = None /\ discoveryFailures' = discoveryFailures + 1
        /\ UNCHANGED <<resolverVars, metadata, discoveries>>
    BY <1>6 DEF DiscoveryFail
  <2> QED
    BY <1>1, <2>1 DEF CountInv, resolverVars
<1>7. ASSUME NEW r \in Requests,
             DiscoveryRespond(r) \/ CancelDiscoveryWaiter(r) \/ LookupStep(r)
      PROVE  CountInv'
  <2>1. now' = now
    BY <1>7, ResolverAssumptions, P!StepServes, SameStep
       DEF DiscoveryRespond, CancelDiscoveryWaiter, LookupStep, resolverVars, IInv,
           P!Serves
  <2> QED
    BY <1>1, <1>2, <1>7, <2>1
       DEF DiscoveryRespond, CancelDiscoveryWaiter, LookupStep, discoveryVars, lockVars
<1>8. ASSUME Move \/ Tick \/ UNCHANGED vars \/ \E u \in Uris : Rotate(u)
      PROVE  CountInv'
  <2>1. UNCHANGED <<metadata, fetcher, discoveries, discoveryFailures>>
    BY <1>8 DEF Move, Tick, Rotate, vars, discoveryVars, lockVars
  <2>2. now' = now \/ now' = now + 1
    BY <1>8 DEF Move, Tick, Rotate, Resolver!Tick, Resolver!Rotate, vars, resolverVars
  <2> QED
    BY <1>1, <1>2, <2>1, <2>2
<1> QED
  BY <1>4, <1>5, <1>6, <1>7, <1>8 DEF Next

\* However many calls find the discovery cache empty at once, the issuer is
\* asked once per lifespan, and once more per failure.
THEOREM DiscoveryStaysBounded == Spec => []DiscoveryBounded
<1>1. IInv /\ CountInv => DiscoveryBounded
  <2> SUFFICES ASSUME IInv, CountInv PROVE DiscoveryBounded
    OBVIOUS
  <2>1. /\ now \in Nat /\ discoveries \in Nat /\ discoveryFailures \in Nat
        /\ metadata # None => metadata.at \in Nat
    BY DEF IInv, P!IInv, P!TypeOK, TypeOK, Metadata
  <2>2. /\ Lifespans(now) \in Nat
        /\ metadata # None =>
             /\ Lifespans(metadata.at) \in Nat
             /\ Lifespans(metadata.at) <= Lifespans(now)
             /\ fetcher # None => Lifespans(metadata.at) + 1 <= Lifespans(now)
    BY <2>1, LifespansGrow DEF CountInv
  <2>3. discoveries <= discoveryFailures + Lifespans(now) + 1
    BY <2>1, <2>2 DEF CountInv
  <2> QED
    BY <2>3 DEF DiscoveryBounded, Lifespans
<1> QED
  BY <1>1, CountInit, CountPreserved, InvariantHolds, PTL DEF Spec

-----------------------------------------------------------------------------
(* A good token is rejected only for a cause that passes.                  *)

\* While a verification runs, its flag tells of every moment its key was not
\* behind the announced URI; without the flag and given announced metadata, the
\* resolver is asked at that URI and has nothing to note either.
Unflagged(r) == ~call[r].absent /\ call[r].late = None

CauseInv ==
  \A r \in Requests :
    /\ stage[r] # "idle" /\ call[r].token.key \notin published[announced] =>
         call[r].absent
    /\ stage[r] = "keys" /\ Unflagged(r) =>
         call[r].meta.uri = announced /\ ~job[r].absent

\* What the step of a call has to keep.
LEMMA CauseFromStep ==
  ASSUME CauseInv, NEW r \in Requests, LocalPart(r), ResolverPart(r),
         announced' = announced, published' = published,
         stage'[r] # "idle" /\ call'[r].token.key \notin published[announced] =>
           call'[r].absent,
         stage'[r] = "keys" /\ ~call'[r].absent /\ call'[r].late = None =>
           call'[r].meta.uri = announced /\ ~job'[r].absent
  PROVE  CauseInv'
BY DEF CauseInv, Unflagged, LocalPart, ResolverPart

\* The same of a step that leaves the resolver alone.
LEMMA QuietCause ==
  ASSUME IInv, CauseInv, NEW r \in Requests, NEW j \in Call, UNCHANGED resolverVars,
         announced' = announced, stage[r] # "keys",
         (\E where \in Discovering : Await(r, j, where)) \/ Return(r, j, "failed"),
         j.token.key \notin published[announced] => j.absent
  PROVE  CauseInv' /\ RejectedOnlyForCause'
<1>1. LocalPart(r) /\ ResolverPart(r)
  BY QuietStep
<1>2. \/ stage'[r] \in Discovering /\ call'[r] = j /\ outcome' = None
      \/ stage'[r] = "idle" /\ outcome'.result = "failed"
  BY AwaitLocal, ReturnLocal DEF IInv, Discovering, Verifying
<1>3. RejectedOnlyForCause'
  BY <1>2 DEF RejectedOnlyForCause
<1> QED
  BY <1>1, <1>2, <1>3, CauseFromStep DEF resolverVars, Discovering

\* The same of a step of the resolver.
LEMMA SettledCause ==
  ASSUME IInv, CauseInv, NEW r \in Requests, NEW j \in Call, Given(j), P!Next,
         P!Serves(r, j.meta.uri, j.token.key), Settle(r, j), announced' = announced,
         NEW a \in BOOLEAN, P!Answers(r, j.meta.uri, a),
         a => j.absent \/ j.late # None,
         j.token.key \notin published[announced] => j.absent,
         j.late = None => j.meta.uri = announced \/ j.absent
  PROVE  CauseInv' /\ RejectedOnlyForCause'
<1>1. LocalPart(r) /\ ResolverPart(r) /\ published' = published /\ now' = now
  BY SettledStep DEF P!Serves
<1>2. CASE pc'[r] \in P!Waiting /\ Await(r, j, "keys")
  <2>1. stage'[r] = "keys" /\ call'[r] = j /\ outcome' = None
    BY <1>2, AwaitLocal DEF IInv, Verifying
  <2>2. job'[r].absent = a
    BY <1>2 DEF P!Answers
  <2> QED
    BY <1>1, <2>1, <2>2, CauseFromStep DEF RejectedOnlyForCause
<1>3. CASE /\ pc'[r] = "accepted"
           /\ Return(r, j, IF Decodes(j.token) THEN "accepted" ELSE "rejected")
  <2> DEFINE result == IF Decodes(j.token) THEN "accepted" ELSE "rejected"
  <2>1. /\ stage'[r] = "idle"
        /\ outcome' = [request |-> r, call |-> j, result |-> result]
    BY <1>3, ReturnLocal DEF IInv
  <2>2. /\ outcome'.call = j
        /\ outcome'.result = "rejected" => ~Decodes(j.token)
    BY <2>1
  <2>3. ~Decodes(j.token) => ~(j.token.valid /\ j.token.exp + Leeway > now')
    <3>1. j.token.exp \in Int /\ now \in Nat /\ Leeway \in Nat
      BY VerificationAssumption DEF Call, Token, IInv, P!IInv, P!TypeOK
    <3> QED
      BY <1>1, <3>1 DEF Decodes
  <2>4. RejectedOnlyForCause'
    BY <2>2, <2>3 DEF RejectedOnlyForCause, Good
  <2> QED
    BY <1>1, <2>1, <2>4, CauseFromStep
<1>4. CASE pc'[r] = "nokey" /\ Return(r, j, "rejected")
  <2>1. /\ stage'[r] = "idle"
        /\ outcome' = [request |-> r, call |-> j, result |-> "rejected"]
    BY <1>4, ReturnLocal DEF IInv
  <2>2. \/ a
        \/ /\ lastForced'[j.meta.uri] # None
           /\ now' - lastForced'[j.meta.uri] < Cooldown
    BY <1>1, <1>4 DEF P!Answers
  <2>3. outcome'.call = j
    BY <2>1
  <2>4. RejectedOnlyForCause'
    BY <2>2, <2>3 DEF RejectedOnlyForCause, Given, Timely
  <2> QED
    BY <1>1, <2>1, <2>4, CauseFromStep
<1>5. CASE pc'[r] = "error" /\ Return(r, j, "failed")
  <2>1. stage'[r] = "idle" /\ outcome'.result = "failed"
    BY <1>5, ReturnLocal DEF IInv
  <2> QED
    BY <1>1, <2>1, CauseFromStep DEF RejectedOnlyForCause
<1> QED
  BY <1>2, <1>3, <1>4, <1>5, SameTerms DEF Settle

\* The same of the first step of the resolver for a call.
LEMMA LookupCause ==
  ASSUME IInv, CauseInv, NEW r \in Requests, NEW j \in Call, NEW meta \in Metadata,
         meta.begun <= now, AnnouncedSince(meta.uri, meta.begun),
         now < meta.at + MetadataTtl, Lookup(r, j, meta), announced' = announced,
         j.token.key \notin published[announced] => j.absent
  PROVE  CauseInv' /\ RejectedOnlyForCause'
<1>1. PICK given \in Call :
        /\ Given(given) /\ given.meta = meta
        /\ given.token = j.token /\ given.absent = j.absent
        /\ given.late = None => meta.uri = announced
        /\ Settle(r, given)
        /\ \/ P!RejectHeader(r)
           \/ /\ j.token.key \in Keys
              /\ \/ P!BeginCached(r, meta.uri, j.token.key)
                 \/ P!BeginCold(r, meta.uri, j.token.key)
  BY LookupGives
<1>2. P!Next /\ P!Serves(r, given.meta.uri, given.token.key) /\ meta.uri \in Uris
  BY <1>1, ResolverAssumptions, P!BeginServes, P!RejectServes DEF IInv, P!Next, Metadata
<1>3. CASE P!RejectHeader(r)
  <2>1. pc'[r] = "error"
    BY <1>3 DEF P!RejectHeader, P!Raise, IInv, P!IInv, P!TypeOK
  <2>2. P!Answers(r, given.meta.uri, FALSE)
    BY <2>1 DEF P!Answers, P!Waiting
  <2> QED
    BY <1>1, <1>2, <2>2, SettledCause
<1>4. CASE /\ j.token.key \in Keys
           /\ \/ P!BeginCached(r, meta.uri, j.token.key)
              \/ P!BeginCold(r, meta.uri, j.token.key)
  <2> DEFINE a == j.token.key \notin published[meta.uri]
  <2>1. P!Answers(r, given.meta.uri, a)
    BY <1>1, <1>2, <1>4, ResolverAssumptions, P!BeginAnswers DEF IInv, P!IInv
  <2>2. a \in BOOLEAN /\ (a => given.absent \/ given.late # None)
    BY <1>1
  <2> HIDE DEF a
  <2> QED
    BY <1>1, <1>2, <2>1, <2>2, SettledCause
<1> QED
  BY <1>1, <1>3, <1>4

LEMMA CauseInit == Init => CauseInv /\ RejectedOnlyForCause
BY DEF Init, CauseInv, RejectedOnlyForCause

\* Every step of a call.
LEMMA CauseFromCall ==
  ASSUME IInv, P!AbsentInv, CauseInv, NEW r \in Requests,
         \/ Begin(r) \/ DiscoveryResume(r) \/ DiscoveryRespond(r)
         \/ DiscoveryStore(r) \/ DiscoveryFail(r)
         \/ CancelDiscoveryWaiter(r) \/ LookupStep(r)
  PROVE  CauseInv' /\ RejectedOnlyForCause'
<1>1. ASSUME stage[r] # "idle"
      PROVE  /\ call[r] \in Call
             /\ call[r].token.key \notin published[announced] => call[r].absent
  BY <1>1 DEF IInv, TypeOK, CauseInv
<1>2. ASSUME NEW j \in Call, NEW sent, SendDiscovery(r, j), UNCHANGED resolverVars,
             announced' = announced, stage[r] # "keys",
             j.token.key \notin published[announced] => j.absent
      PROVE  CauseInv' /\ RejectedOnlyForCause'
  <2> DEFINE k == [j EXCEPT !.begun = now]
  <2>1. k \in Call /\ k.token = j.token /\ k.absent = j.absent
    BY DEF Call, IInv, P!IInv, P!TypeOK
  <2>2. Await(r, k, "fetching")
    BY <1>2 DEF SendDiscovery
  <2> HIDE DEF k
  <2> QED
    BY <1>2, <2>1, <2>2, QuietCause DEF Discovering
<1>3. CASE Begin(r)
  <2>1. PICK token \in Tokens :
          \/ Known /\ Lookup(r, NewCall(token), metadata)
          \/ Await(r, NewCall(token), "queued") /\ UNCHANGED resolverVars
          \/ SendDiscovery(r, NewCall(token)) /\ UNCHANGED resolverVars
    BY <1>3 DEF Begin
  <2>2. /\ NewCall(token) \in Call /\ announced' = announced /\ stage[r] # "keys"
        /\ NewCall(token).token.key \notin published[announced] => NewCall(token).absent
    BY <1>3, NewCallType DEF Begin, issuerVars, NewCall
  <2>3. CASE Known /\ Lookup(r, NewCall(token), metadata)
    BY <2>2, <2>3, KnownServed, LookupCause
  <2>4. CASE Await(r, NewCall(token), "queued") /\ UNCHANGED resolverVars
    BY <2>2, <2>4, QuietCause DEF Discovering
  <2>5. CASE SendDiscovery(r, NewCall(token)) /\ UNCHANGED resolverVars
    BY <1>2, <2>2, <2>5
  <2> QED
    BY <2>1, <2>3, <2>4, <2>5
<1>4. CASE DiscoveryResume(r)
  <2>1. stage[r] = "queued" /\ announced' = announced
    BY <1>4 DEF DiscoveryResume, issuerVars
  <2>2. CASE Known /\ Lookup(r, call[r], metadata)
    BY <1>1, <2>1, <2>2, KnownServed, LookupCause
  <2>3. CASE SendDiscovery(r, call[r]) /\ UNCHANGED resolverVars
    BY <1>1, <1>2, <2>1, <2>3
  <2> QED
    BY <1>4, <2>2, <2>3 DEF DiscoveryResume
<1>5. CASE DiscoveryRespond(r)
  <2> DEFINE k == [call[r] EXCEPT !.uri = announced]
  <2>1. /\ stage[r] = "fetching" /\ Await(r, k, "replied")
        /\ UNCHANGED resolverVars /\ announced' = announced
    BY <1>5 DEF DiscoveryRespond, issuerVars
  <2>2. k \in Call /\ k.token = call[r].token /\ k.absent = call[r].absent
    BY <1>1, <2>1 DEF Call, IInv, TypeOK
  <2> HIDE DEF k
  <2> QED
    BY <1>1, <2>1, <2>2, QuietCause DEF Discovering
<1>6. CASE DiscoveryStore(r)
  <2> DEFINE meta == [uri |-> call[r].uri, begun |-> call[r].begun, at |-> now]
  <2>1. stage[r] = "replied" /\ Lookup(r, call[r], meta) /\ announced' = announced
    BY <1>6 DEF DiscoveryStore, issuerVars
  <2>2. /\ call[r] \in Call /\ call[r].uri \in Uris /\ call[r].begun <= now
        /\ AnnouncedSince(call[r].uri, call[r].begun)
    BY <2>1 DEF IInv, TypeOK, HeardInv
  <2>3. /\ meta \in Metadata /\ meta.begun = call[r].begun /\ meta.uri = call[r].uri
        /\ now < meta.at + MetadataTtl
    BY <2>2, VerificationAssumption DEF Metadata, Call, IInv, P!IInv, P!TypeOK
  <2> HIDE DEF meta
  <2> QED
    BY <1>1, <2>1, <2>2, <2>3, LookupCause
<1>7. CASE DiscoveryFail(r) \/ CancelDiscoveryWaiter(r)
  <2>1. /\ stage[r] \in Discovering /\ Return(r, call[r], "failed")
        /\ UNCHANGED resolverVars /\ announced' = announced
    BY <1>7 DEF DiscoveryFail, CancelDiscoveryWaiter, issuerVars, Discovering
  <2> QED
    BY <1>1, <2>1, QuietCause DEF Discovering
<1>8. CASE LookupStep(r)
  <2>1. /\ stage[r] = "keys" /\ Settle(r, call[r]) /\ announced' = announced
        /\ \/ P!Resume(r) \/ P!Respond(r) \/ P!Store(r)
           \/ P!FetchFail(r) \/ P!CancelWaiter(r)
    BY <1>8, SameStep DEF LookupStep, issuerVars
  <2>2. /\ call[r] \in Call /\ Given(call[r])
        /\ job[r].uri = call[r].meta.uri /\ job[r].key = call[r].token.key
        /\ job[r].absent \in BOOLEAN
    BY <2>1 DEF IInv, TypeOK, KeysInv, PhaseInv, P!IInv, P!TypeOK, P!Job
  <2>3. P!Next /\ P!Serves(r, call[r].meta.uri, call[r].token.key)
    BY <2>1, <2>2, ResolverAssumptions, P!StepServes DEF IInv, P!Next
  <2>4. P!Answers(r, call[r].meta.uri, job[r].absent)
    BY <2>1, <2>2, ResolverAssumptions, P!StepAnswers DEF IInv, P!IInv
  <2>5. Unflagged(r) => call[r].meta.uri = announced /\ ~job[r].absent
    BY <2>1 DEF CauseInv
  <2> QED
    BY <1>1, <2>1, <2>2, <2>3, <2>4, <2>5, SettledCause DEF Unflagged
<1> QED
  BY <1>3, <1>4, <1>5, <1>6, <1>7, <1>8

\* Every step of the environment.
LEMMA CauseFromMove ==
  ASSUME IInv, CauseInv, Move
  PROVE  CauseInv' /\ RejectedOnlyForCause'
<1> SUFFICES ASSUME NEW r \in Requests, stage[r] # "idle" PROVE call'[r].absent
  BY DEF Move, CauseInv, Unflagged, RejectedOnlyForCause
<1>1. call[r] \in Call /\ stage[r] \in Verifying
  BY DEF IInv, TypeOK
<1>2. call'[r] = [call[r] EXCEPT !.absent = TRUE]
  BY <1>1 DEF Move
<1> QED
  BY <1>1, <1>2 DEF Call

LEMMA CauseFromRotate ==
  ASSUME IInv, CauseInv, NEW u \in Uris, Rotate(u)
  PROVE  CauseInv' /\ RejectedOnlyForCause'
<1> SUFFICES ASSUME NEW r \in Requests, stage[r] # "idle", ~call'[r].absent
             PROVE  /\ call'[r].token.key \in published'[announced]
                    /\ stage[r] = "keys" /\ call'[r].late = None =>
                         call'[r].meta.uri = announced /\ ~job'[r].absent
  BY DEF Rotate, CauseInv, Unflagged, RejectedOnlyForCause, issuerVars
<1>1. call[r] \in Call /\ stage[r] \in Verifying /\ announced \in Uris
  BY DEF IInv, TypeOK
<1>2. /\ call'[r] = call[r] /\ ~call[r].absent
      /\ u = announced => call[r].token.key \in published'[u]
  <2>1. call'[r] = IF u = announced /\ call[r].token.key \notin published'[u]
                     THEN [call[r] EXCEPT !.absent = TRUE] ELSE call[r]
    BY <1>1 DEF Rotate
  <2> QED
    BY <1>1, <2>1 DEF Call
<1>3. PICK ks :
        /\ published' = [published EXCEPT ![u] = ks]
        /\ job' = [s \in Requests |->
             IF pc[s] \in P!Waiting /\ job[s].uri = u /\ job[s].key \notin ks
               THEN [job[s] EXCEPT !.absent = TRUE] ELSE job[s]]
  BY SameEnvironment DEF Rotate, P!Rotate
<1>4. published'[u] = ks /\ \A v \in Uris \ {u} : published'[v] = published[v]
  BY <1>3 DEF IInv, P!IInv, P!TypeOK
<1>5. call[r].token.key \in published'[announced]
  BY <1>1, <1>2, <1>4 DEF CauseInv
<1>6. ASSUME stage[r] = "keys", call[r].late = None
      PROVE  call[r].meta.uri = announced /\ ~job'[r].absent
  <2>1. /\ call[r].meta.uri = announced /\ ~job[r].absent
        /\ job[r].uri = announced /\ job[r].key = call[r].token.key
    BY <1>2, <1>6 DEF CauseInv, Unflagged, IInv, KeysInv
  <2>2. job'[r] = job[r]
    BY <1>3, <1>4, <1>5, <2>1
  <2> QED
    BY <2>1, <2>2
<1> QED
  BY <1>2, <1>5, <1>6

LEMMA CausePreserved ==
  IInv /\ P!AbsentInv /\ CauseInv /\ RejectedOnlyForCause /\ [Next]_vars =>
    P!AbsentInv' /\ CauseInv' /\ RejectedOnlyForCause'
<1> SUFFICES ASSUME IInv, P!AbsentInv, CauseInv, RejectedOnlyForCause, [Next]_vars
             PROVE  P!AbsentInv' /\ CauseInv' /\ RejectedOnlyForCause'
  OBVIOUS
<1>1. P!AbsentInv'
  <2>1. [P!Next]_(P!vars)
    BY ResolverMoves
  <2> QED
    BY <2>1, ResolverAssumptions, P!AbsentPreserved DEF IInv
<1>2. CASE Tick
  <2>1. UNCHANGED <<published, pc, job, stage, call, announced>> /\ outcome' = None
    BY <1>2, SameEnvironment DEF Tick, P!Tick, P!providerVars, P!callVars, issuerVars
  <2> QED
    BY <1>1, <2>1 DEF CauseInv, Unflagged, RejectedOnlyForCause
<1>3. CASE UNCHANGED vars
  <2>1. UNCHANGED <<published, pc, job, stage, call, announced>>
    BY <1>3 DEF vars, resolverVars, callVars, issuerVars
  <2>2. UNCHANGED <<now, lastForced, outcome>>
    BY <1>3 DEF vars, resolverVars, callVars
  <2>3. CauseInv'
    BY <2>1 DEF CauseInv, Unflagged
  <2>4. RejectedOnlyForCause'
    BY <2>2 DEF RejectedOnlyForCause, Good, Timely
  <2> QED
    BY <1>1, <2>3, <2>4
<1> QED
  BY <1>1, <1>2, <1>3, CauseFromCall, CauseFromMove, CauseFromRotate DEF Next

\* Whatever the issuer changes, a good token is rejected only while its caches
\* catch up, which their lifespans and the cooldown bound.
THEOREM RejectionsHaveCause == Spec => []RejectedOnlyForCause
<1>1. Init => P!AbsentInv
  BY ResolverAssumptions, SameTerms, P!AbsentInit DEF Init
<1> QED
  BY <1>1, CauseInit, CausePreserved, InvariantHolds, PTL DEF Spec

=============================================================================
