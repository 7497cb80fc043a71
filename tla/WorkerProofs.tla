---------------------------- MODULE WorkerProofs ----------------------------
(***************************************************************************)
(* Proofs about Worker, for any number of requests, any limit and any      *)
(* settings: slots are counted exactly, resources outlive the requests     *)
(* that use them, and a worker that serves trusts no more than its own     *)
(* validated settings allow.                                               *)
(***************************************************************************)
EXTENDS Worker, FiniteSetTheorems, TLAPS

\* The worker has its tracer from the start and its client from the end of the
\* factory, both until the lifespan ends; it is ready while it serves, has
\* requests only once it served, and when the client closes every request left
\* was cancelled.
PhaseInvariant ==
  /\ phase = "building" => tracer = "open"
  /\ phase \in {"built", "serving", "draining", "teardown"} =>
       client = "open" /\ tracer = "open"
  /\ ready <=> phase \in {"serving", "draining", "teardown"}
  /\ phase \in {"launching", "configuring", "building", "failed", "built"} => Active = {}
  /\ phase \in {"teardown", "closing", "stopped"} => Active \subseteq doomed

\* What the factory builds with passed its own validation, and what it built
\* the network policy's.
SettingsInvariant ==
  /\ phase \in {"building", "built", "serving", "draining", "teardown"} =>
       ValidSettings(settings)
  /\ phase \in {"built", "serving", "draining", "teardown"} => PolicyAccepts(settings)

IInv == TypeOK /\ SlotsExact /\ PhaseInvariant /\ SettingsInvariant

\* Requests inside the application are among the active ones, and few enough
\* to count.
LEMMA InsideFinite ==
  /\ IsFiniteSet(Inside) /\ Cardinality(Inside) \in Nat
  /\ Inside \subseteq Active
<1>1. Inside \subseteq Requests
  BY DEF Inside
<1>2. IsFiniteSet(Inside)
  BY <1>1, CapacityAssumption, FS_Subset
<1> QED
  BY <1>2, FS_CardinalityType DEF Inside, Active, Admitted

\* A step that moves one task keeps or changes the two sets in one element.
LEMMA OneTask ==
  ASSUME TypeOK, NEW r \in Requests,
         NEW p \in {"absent", "arrived", "checking", "done"} \cup Admitted,
         pc' = [pc EXCEPT ![r] = p]
  PROVE  /\ p \in Admitted => Inside' = Inside \cup {r}
         /\ p \notin Admitted => Inside' = Inside \ {r}
         /\ Active' \subseteq Active \cup {r}
         /\ p = "done" => Active' \subseteq Active
<1>1. \A s \in Requests : pc'[s] = IF s = r THEN p ELSE pc[s]
  BY DEF TypeOK
<1>2. Inside' = {s \in Requests : (IF s = r THEN p ELSE pc[s]) \in Admitted}
  BY <1>1 DEF Inside
<1>3. Active' = {s \in Requests : (IF s = r THEN p ELSE pc[s]) \notin {"absent", "done"}}
  BY <1>1 DEF Active
<1> QED
  BY <1>2, <1>3 DEF Inside, Active, Admitted

\* Every initial state satisfies the invariant.
LEMMA InitInvariant == Init => IInv
<1> SUFFICES ASSUME Init PROVE IInv
  OBVIOUS
<1>1. TypeOK
  BY DEF Init, TypeOK
<1>2. Inside = {} /\ Active = {}
  BY DEF Init, Inside, Active, Admitted
<1>3. SlotsExact
  BY <1>2, FS_EmptySet, CapacityAssumption DEF Init, SlotsExact
<1>4. PhaseInvariant
  BY <1>2 DEF Init, PhaseInvariant
<1>5. SettingsInvariant
  BY DEF Init, SettingsInvariant
<1> QED
  BY <1>1, <1>3, <1>4, <1>5 DEF IInv

\* Steps of the process leave the slots alone.
LEMMA ProcessInvariant ==
  ASSUME IInv, Lifecycle
  PROVE  IInv'
<1> USE DEF IInv
<1> USE DEF Lifecycle, Preflight, InvalidSettings, Configure, Build, BuildFails, EnterLifespan,
    Stop, Shutdown, Drained, GracefulTimeout, LeaveLifespan, CloseClient, requests
<1>1. UNCHANGED <<inFlight, pc, kind, wire, answer>> /\ doomed' \in SUBSET Requests
  BY DEF TypeOK, Active
<1>2. Inside' = Inside /\ Active' = Active
  BY <1>1 DEF Inside, Active
<1>3. SlotsExact'
  BY <1>1, <1>2 DEF SlotsExact
<1>4. TypeOK'
  <2>1. /\ phase' \in {"launching", "configuring", "building", "failed", "built", "serving",
                       "draining", "teardown", "closing", "stopped"}
        /\ client' \in {"none", "open", "closing", "closed", "broken"}
        /\ tracer' \in {"none", "open", "shut"}
    BY DEF TypeOK
  <2>2. ready' \in BOOLEAN
    BY DEF TypeOK
  <2>3. settings' \in Environments \cup {None}
    BY DEF TypeOK
  <2> QED
    BY <1>1, <2>1, <2>2, <2>3 DEF TypeOK
<1>5. PhaseInvariant'
  BY <1>1, <1>2 DEF PhaseInvariant, TypeOK
<1>6. SettingsInvariant'
  BY DEF SettingsInvariant
<1> QED
  BY <1>3, <1>4, <1>5, <1>6

\* A step of a task between "arrived" and its admission keeps the invariant.
LEMMA OutsideInvariant ==
  ASSUME IInv, NEW r \in Requests, NEW p \in {"arrived", "checking", "done"},
         pc[r] \notin Admitted,
         phase = "serving" \/ p = "done" \/ pc[r] \in {"arrived", "checking"},
         \A s \in Requests : pc'[s] = IF s = r THEN p ELSE pc[s],
         TypeOK', UNCHANGED <<process, inFlight, doomed>>
  PROVE  IInv'
<1>0. pc' = [pc EXCEPT ![r] = p]
  BY DEF IInv, TypeOK
<1>1. Inside' = Inside
  <2>1. r \notin Inside /\ p \notin Admitted
    BY DEF Inside, Admitted
  <2>2. Inside' = Inside \ {r}
    BY <1>0, <2>1, OneTask DEF IInv
  <2> QED
    BY <2>1, <2>2
<1>2. Active' \subseteq Active \cup {r} /\ (p = "done" => Active' \subseteq Active)
  BY <1>0, OneTask DEF IInv, Admitted
<1>3. pc[r] \in {"arrived", "checking"} => r \in Active
  BY DEF Active
<1>4. PhaseInvariant'
  BY <1>2, <1>3 DEF IInv, PhaseInvariant, process
<1>5. SlotsExact'
  BY <1>1 DEF IInv, SlotsExact
<1>6. SettingsInvariant'
  BY DEF IInv, SettingsInvariant, process
<1> QED
  BY <1>4, <1>5, <1>6 DEF IInv

\* A task that leaves gives its slot back.
LEMMA LeaveInvariant ==
  ASSUME IInv, NEW r \in Requests, pc[r] \in Admitted,
         NEW status \in {200, 401, 403, 500}, Leave(r, status)
  PROVE  IInv'
<1>1. /\ r \in Inside
      /\ Inside' = Inside \ {r} /\ Active' \subseteq Active
  <2>1. r \in Inside /\ "done" \notin Admitted /\ pc' = [pc EXCEPT ![r] = "done"]
    BY DEF Leave, Inside, Admitted
  <2> QED
    BY <2>1, OneTask DEF IInv
<1>2. /\ IsFiniteSet(Inside) /\ Cardinality(Inside) \in Nat
      /\ Cardinality(Inside \ {r}) = Cardinality(Inside) - 1
      /\ Cardinality(Inside \ {r}) \in Nat
  BY <1>1, InsideFinite, FS_RemoveElement, FS_CardinalityType
<1>3. SlotsExact'
  BY <1>1, <1>2, CapacityAssumption DEF IInv, SlotsExact, Leave
<1>4. TypeOK'
  BY <1>2 DEF IInv, TypeOK, SlotsExact, Leave, process
<1>5. PhaseInvariant'
  BY <1>1 DEF IInv, PhaseInvariant, Leave, process
<1>6. SettingsInvariant'
  BY DEF IInv, SettingsInvariant, Leave, process
<1> QED
  BY <1>3, <1>4, <1>5, <1>6 DEF IInv

\* Steps of a request keep the invariant.
LEMMA RequestInvariant ==
  ASSUME IInv, NEW r \in Requests, Arrive(r) \/ Serve(r)
  PROVE  IInv'
<1>1. CASE Arrive(r)
  <2>1. TypeOK'
    BY <1>1 DEF IInv, TypeOK, Arrive, process
  <2>2. \A s \in Requests : pc'[s] = IF s = r THEN "arrived" ELSE pc[s]
    BY <1>1 DEF IInv, TypeOK, Arrive
  <2>3. /\ pc[r] \notin Admitted /\ phase = "serving"
        /\ UNCHANGED <<process, inFlight, doomed>>
    BY <1>1 DEF Arrive, Admitted
  <2> QED
    BY <2>1, <2>2, <2>3, OutsideInvariant
<1>2. ASSUME NEW status \in {200, 400, 403, 405, 421, 431, 500, 503},
             Answer(r, status), pc[r] \in {"arrived", "checking"}
      PROVE  IInv'
  <2>1. TypeOK'
    BY <1>2 DEF IInv, TypeOK, Answer, process
  <2>2. \A s \in Requests : pc'[s] = IF s = r THEN "done" ELSE pc[s]
    BY <1>2 DEF IInv, TypeOK, Answer
  <2>3. pc[r] \notin Admitted /\ UNCHANGED <<process, inFlight, doomed>>
    BY <1>2 DEF Answer, Admitted
  <2> QED
    BY <2>1, <2>2, <2>3, OutsideInvariant
<1>3. CASE RejectEnvelope(r)
  BY <1>2, <1>3 DEF RejectEnvelope
<1>4. CASE Probe(r)
  BY <1>2, <1>4 DEF Probe
<1>5. CASE CheckTransport(r)
  <2>1. TypeOK'
    BY <1>5 DEF IInv, TypeOK, CheckTransport, process
  <2>2. \A s \in Requests : pc'[s] = IF s = r THEN "checking" ELSE pc[s]
    BY <1>5 DEF IInv, TypeOK, CheckTransport
  <2>3. /\ pc[r] \in {"arrived", "checking"} \ Admitted
        /\ UNCHANGED <<process, inFlight, doomed>>
    BY <1>5 DEF CheckTransport, Admitted
  <2> QED
    BY <2>1, <2>2, <2>3, OutsideInvariant
<1>6. CASE RejectTransport(r)
  BY <1>2, <1>6 DEF RejectTransport
<1>7. CASE Refuse(r)
  BY <1>2, <1>7 DEF Refuse, AtSlots
<1>8. CASE Admit(r)
  <2>1. r \notin Inside /\ Inside' = Inside \cup {r}
        /\ r \in Active /\ Active' \subseteq Active \cup {r}
    BY <1>8, OneTask DEF IInv, Admit, AtSlots, Inside, Active, Admitted
  <2>2. /\ Cardinality(Inside) \in Nat
        /\ Cardinality(Inside \cup {r}) = Cardinality(Inside) + 1
    BY <2>1, InsideFinite, FS_AddElement
  <2>3. SlotsExact'
    BY <1>8, <2>1, <2>2, CapacityAssumption DEF IInv, SlotsExact, Admit
  <2>4. TypeOK'
    BY <1>8 DEF IInv, TypeOK, Admit, Admitted, process
  <2>5. PhaseInvariant'
    BY <1>8, <2>1 DEF IInv, PhaseInvariant, Admit, process
  <2>6. SettingsInvariant'
    BY <1>8 DEF IInv, SettingsInvariant, Admit, process
  <2> QED
    BY <2>3, <2>4, <2>5, <2>6 DEF IInv
<1>9. CASE Verified(r)
  <2>1. r \in Inside /\ Inside' = Inside \cup {r}
        /\ r \in Active /\ Active' \subseteq Active \cup {r}
    BY <1>9, OneTask DEF IInv, Verified, Inside, Active, Admitted
  <2>2. Inside' = Inside
    BY <2>1
  <2>3. SlotsExact'
    BY <1>9, <2>2 DEF IInv, SlotsExact, Verified
  <2>4. TypeOK'
    BY <1>9 DEF IInv, TypeOK, Verified, Admitted, process
  <2>5. PhaseInvariant'
    BY <1>9, <2>1 DEF IInv, PhaseInvariant, Verified, process
  <2>6. SettingsInvariant'
    BY <1>9 DEF IInv, SettingsInvariant, Verified, process
  <2> QED
    BY <2>3, <2>4, <2>5, <2>6 DEF IInv
<1>10. CASE Handled(r)
  BY <1>10, LeaveInvariant DEF Handled, Admitted
<1>11. CASE Cancelled(r)
  BY <1>2, <1>11, LeaveInvariant DEF Cancelled
<1> QED
  BY <1>1, <1>3, <1>4, <1>5, <1>6, <1>7, <1>8, <1>9, <1>10, <1>11 DEF Serve

\* Every step keeps the invariant.
LEMMA NextInvariant == IInv /\ [Next]_vars => IInv'
<1>1. ASSUME IInv, UNCHANGED vars PROVE IInv'
  BY <1>1 DEF IInv, TypeOK, SlotsExact, PhaseInvariant, SettingsInvariant, vars, process,
     requests, Inside, Active
<1> QED
  BY <1>1, ProcessInvariant, RequestInvariant DEF Next

\* The invariant holds in every reachable state.
LEMMA InvariantHolds == Spec => []IInv
  BY InitInvariant, NextInvariant, PTL DEF Spec

\* Every variable keeps its type, whatever ends a start, a request or the worker.
THEOREM TypeCorrect == Spec => []TypeOK
<1>1. IInv => TypeOK
  BY DEF IInv
<1> QED
  BY <1>1, InvariantHolds, PTL

\* The in-flight counter is the number of admitted requests and stays within
\* the limit, for any number of tasks, through exceptions and cancellations.
THEOREM SlotsCounted == Spec => []SlotsExact
<1>1. IInv => SlotsExact
  BY DEF IInv
<1> QED
  BY <1>1, InvariantHolds, PTL

\* A worker that says it is ready has its client and its tracer.
THEOREM ReadyIsServed == Spec => []ReadyHasResources
<1>1. IInv => ReadyHasResources
  BY DEF IInv, PhaseInvariant, ReadyHasResources
<1> QED
  BY <1>1, InvariantHolds, PTL

\* No request that was not cancelled meets a closed client or tracer: teardown
\* begins when the drain has left only cancelled ones.
THEOREM ResourcesOutliveRequests == Spec => []NoUseAfterClose
<1>1. IInv => NoUseAfterClose
  BY InsideFinite DEF IInv, TypeOK, PhaseInvariant, NoUseAfterClose
<1> QED
  BY <1>1, InvariantHolds, PTL

\* A worker that is built uses plain HTTP for keys only if its own settings say
\* so, and in production neither that nor a placeholder, whatever the launcher
\* validated before (create_app validates what it reads itself).
THEOREM TrustIsHardened == Spec => []TrustHardened
<1>1. ASSUME IInv PROVE TrustHardened
  <2> SUFFICES ASSUME phase \in {"built", "serving", "draining", "teardown"}
               PROVE  TrustHardened!2
    BY DEF TrustHardened
  <2>1. ValidSettings(settings) /\ PolicyAccepts(settings)
    BY <1>1 DEF IInv, SettingsInvariant
  <2>2. \A url \in TrustedUrls(settings) : url.scheme = "https" \/ settings.loopback
    BY <2>1 DEF PolicyAccepts, TrustedUrls
  <2>3. ASSUME settings.environment = "production"
        PROVE  /\ ~settings.loopback
               /\ \A url \in settings.origins :
                    url.scheme = "https" /\ url.host \notin PlaceholderHosts
               /\ \A url \in TrustedUrls(settings) : url.host \notin PlaceholderHosts
    <3>1. ValidProduction(settings)
      BY <2>1, <2>3 DEF ValidSettings
    <3>2. CASE settings.provider = "entra"
      BY <3>1, <3>2, PlaceholderAssumption
         DEF ValidProduction, TrustedUrls, Issuer, KeyOrigins, Placeholder
    <3>3. CASE settings.provider # "entra"
      <4>1. ValidIssuer(settings)
        BY <3>1, <3>3 DEF ValidProduction
      <4>2. /\ settings.issuer.host \notin PlaceholderHosts
            /\ \A url \in settings.jwks : url.host \notin PlaceholderHosts
        BY <4>1 DEF ValidIssuer, Placeholder
      <4> QED
        BY <3>1, <3>3, <4>2, PlaceholderAssumption
           DEF ValidProduction, TrustedUrls, Issuer, KeyOrigins, Placeholder
    <3> QED
      BY <3>2, <3>3
  <2> QED
    BY <2>2, <2>3
<1> QED
  BY <1>1, InvariantHolds, PTL

-----------------------------------------------------------------------------
\* The advertised URL.

\* A request that is being checked carries one of the possible headers, and has
\* not been answered yet.
WireInvariant ==
  \A r \in Requests :
    /\ pc[r] \in {"arrived", "checking"} => answer[r] = None
    /\ pc[r] = "checking" => wire[r] \in Wires

\* Both ways to write the port are among a URL's own.
LEMMA OwnPortsCover ==
  ASSUME NEW url, NEW port, SamePort(url.scheme, port, url.port)
  PROVE  port \in OwnPorts(url)
BY DEF SamePort, OwnPorts

\* Whoever was given the resource's URL sends headers that are allowed.
LEMMA SentAllowed ==
  ASSUME NEW r \in Requests, wire[r] \in Wires, SentTo(wire[r], settings.resource)
  PROVE  HostAllowed(r) /\ OriginAllowed(r)
<1> DEFINE url == settings.resource
           w == wire[r]
<1>1. w.host = <<url.host, w.host[2]>> /\ w.host[2] \in OwnPorts(url)
  BY OwnPortsCover, WireAssumption DEF SentTo, WireAssumption
<1>2. HostAllowed(r)
  BY <1>1 DEF HostAllowed, AllowedHosts, OwnHosts
<1>3. CASE w.origin = None
  BY <1>2, <1>3 DEF OriginAllowed
<1>4. CASE w.origin # None
  <2>1. /\ w.origin = <<url.scheme, url.host, w.origin[3]>>
        /\ w.origin[3] \in OwnPorts(url) /\ w.origin[3] \in {None, url.port}
    BY <1>4, OwnPortsCover, WireAssumption DEF SentTo, WireAssumption
  <2>2. w.origin[3] \in IF url.port = None THEN {None} ELSE OwnPorts(url)
    BY <2>1
  <2>3. w.origin \in OwnOrigins(url)
    BY <2>1, <2>2 DEF OwnOrigins
  <2> QED
    BY <1>2, <2>3 DEF OriginAllowed, AllowedOrigins
<1> QED
  BY <1>3, <1>4

LEMMA WireNext == TypeOK /\ WireInvariant /\ [Next]_vars => WireInvariant'
<1> SUFFICES ASSUME TypeOK, WireInvariant, [Next]_vars PROVE WireInvariant'
  OBVIOUS
<1>1. CASE UNCHANGED <<pc, wire, answer>>
  BY <1>1 DEF WireInvariant
<1>2. CASE Lifecycle
  BY <1>1, <1>2 DEF Lifecycle, Preflight, InvalidSettings, Configure, Build, BuildFails,
     EnterLifespan, Stop, Shutdown, Drained, GracefulTimeout, LeaveLifespan, CloseClient, requests
<1>3. ASSUME NEW r \in Requests, pc' = [pc EXCEPT ![r] = "done"] \/ pc' = [pc EXCEPT ![r] = "handling"]
                                 \/ pc' = [pc EXCEPT ![r] = "verifying"],
             \A s \in Requests \ {r} : wire'[s] = wire[s] /\ answer'[s] = answer[s]
      PROVE  WireInvariant'
  BY <1>3 DEF TypeOK, WireInvariant
<1>4. ASSUME NEW r \in Requests, NEW status, Answer(r, status) \/ Leave(r, status)
      PROVE  WireInvariant'
  BY <1>3, <1>4 DEF TypeOK, Answer, Leave
<1>5. ASSUME NEW r \in Requests, Arrive(r) PROVE WireInvariant'
  BY <1>5 DEF TypeOK, WireInvariant, Arrive
<1>6. ASSUME NEW r \in Requests, CheckTransport(r) PROVE WireInvariant'
  BY <1>6 DEF TypeOK, WireInvariant, CheckTransport
<1>7. ASSUME NEW r \in Requests, Admit(r) \/ Verified(r) PROVE WireInvariant'
  BY <1>3, <1>7 DEF TypeOK, Admit, Verified
<1>8. ASSUME NEW r \in Requests, Serve(r) PROVE WireInvariant'
  BY <1>4, <1>6, <1>7, <1>8 DEF Serve, RejectEnvelope, Probe, RejectTransport, Refuse, Handled,
     Cancelled
<1>9. UNCHANGED vars => UNCHANGED <<pc, wire, answer>>
  BY DEF vars, requests
<1> QED
  BY <1>1, <1>2, <1>5, <1>8, <1>9 DEF Next

\* A request sent to the advertised URL is not refused for its Host or its Origin
\* (AdvertisedUrlAdmitted of the worker run), for any resource and any headers.
THEOREM AdvertisedAdmitted == Spec => AdvertisedUrlAdmitted
<1> DEFINE Admits == \A r \in Requests :
             pc[r] = "checking" /\ SentTo(wire[r], settings.resource) => answer'[r] \notin {403, 421}
<1>1. Init => WireInvariant
  BY DEF Init, WireInvariant
<1>2. IInv /\ WireInvariant /\ [Next]_vars => [Admits]_vars
  <2> SUFFICES ASSUME TypeOK, WireInvariant, [Next]_vars, NEW r \in Requests, pc[r] = "checking",
                      SentTo(wire[r], settings.resource)
               PROVE  answer'[r] \notin {403, 421}
    BY DEF IInv
  <2>1. answer[r] = None /\ None \notin {403, 421}
    BY NoneAssumption DEF WireInvariant, NoneAssumption
  <2>2. HostAllowed(r) /\ OriginAllowed(r)
    BY SentAllowed DEF WireInvariant
  <2>3. answer'[r] = answer[r] \/ \E status \in {400, 405, 500, 503} : answer'[r] = status
    <3>1. ASSUME NEW s \in Requests, NEW status, Answer(s, status) \/ Leave(s, status)
          PROVE  answer'[r] = IF s = r THEN status ELSE answer[r]
      BY <3>1 DEF TypeOK, Answer, Leave
    <3>2. ASSUME NEW s \in Requests, s # r, Arrive(s) \/ Serve(s) PROVE answer'[r] = answer[r]
      BY <3>1, <3>2 DEF TypeOK, Arrive, Serve, RejectEnvelope, Probe, CheckTransport,
         RejectTransport, Refuse, Admit, Verified, Handled, Cancelled
    <3>3. CASE RejectTransport(r)
      BY <2>2, <3>1, <3>3 DEF RejectTransport
    <3>4. CASE Refuse(r) \/ Cancelled(r)
      BY <3>1, <3>4 DEF Refuse, Cancelled
    <3>5. CASE Admit(r)
      BY <3>5 DEF Admit
    <3>6. CASE Lifecycle \/ UNCHANGED vars
      BY <3>6 DEF Lifecycle, Preflight, InvalidSettings, Configure, Build, BuildFails,
         EnterLifespan, Stop, Shutdown, Drained, GracefulTimeout, LeaveLifespan, CloseClient,
         requests, vars
    <3>7. ~(Arrive(r) \/ RejectEnvelope(r) \/ Probe(r) \/ CheckTransport(r) \/ Verified(r) \/ Handled(r))
      BY DEF Arrive, RejectEnvelope, Probe, CheckTransport, Verified, Handled
    <3> QED
      BY <3>2, <3>3, <3>4, <3>5, <3>6, <3>7 DEF Next, Serve
  <2> QED
    BY <2>1, <2>3
<1> QED
  BY <1>1, <1>2, WireNext, InvariantHolds, PTL DEF Spec, IInv, AdvertisedUrlAdmitted
=============================================================================
