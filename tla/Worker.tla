------------------------------- MODULE Worker -------------------------------
(***************************************************************************)
(* One server process: the application factory and the lifespan of         *)
(* entrypoints/mcp_server.py, the readiness flag                           *)
(* (application/runtime_status.py), the probes                             *)
(* (adapters/runtime_probes.py) and the admission middleware around        *)
(* everything (adapters/http_transport_security.py), under Uvicorn as      *)
(* serve.py starts it.                                                     *)
(*                                                                         *)
(* A request is a task; it suspends in the SDK's transport check, while    *)
(* its token is verified through the shared OIDC client, and in its        *)
(* handler.  Between two suspensions it runs alone.                        *)
(*                                                                         *)
(* The settings are read from the environment twice, by the launcher that  *)
(* validates them and by the factory, and .env may change in between.      *)
(***************************************************************************)
EXTENDS Naturals, Settings

CONSTANTS
  Requests,        \* request tasks, each used again when its request is over
  MaxConcurrent,   \* transport_max_concurrent_requests
  Environments,    \* what the settings may be read as, valid or not
  Wires            \* the Host and Origin a request may have; origin None is no header

ASSUME CapacityAssumption == MaxConcurrent \in Nat \ {0} /\ IsFiniteSet(Requests)
ASSUME NoneAssumption == None \notin Nat

\* A Host header is read as a host and a port, an Origin as a scheme as well.
ASSUME WireAssumption ==
  \A w \in Wires :
    /\ w.host = <<w.host[1], w.host[2]>>
    /\ w.origin # None => w.origin = <<w.origin[1], w.origin[2], w.origin[3]>>

VARIABLES
  phase,      \* of the process
  settings,   \* of the process, None before create_app has read them
  ready,      \* RuntimeStatus._ready
  client,     \* the httpx.AsyncClient all verification shares
  tracer,     \* the Observability facade
  inFlight,   \* HttpTransportAdmissionMiddleware._in_flight
  pc,         \* per request: where its task is
  kind,       \* per request: "live", "ready" (probes) or "mcp"
  wire,       \* per request: its Host and Origin while they are checked
  answer,     \* per request: the status it was answered with, None before
  doomed      \* requests Uvicorn cancelled

process  == <<phase, settings, ready, client, tracer>>
requests == <<inFlight, pc, kind, wire, answer, doomed>>
vars     == <<process, requests>>

Probes == {"live", "ready"}
Kinds  == Probes \cup {"mcp"}

\* Where a task is after its admission and before its release.
Admitted == {"verifying", "handling"}
Inside   == {r \in Requests : pc[r] \in Admitted}
Active   == {r \in Requests : pc[r] \notin {"absent", "done"}}

Init ==
  /\ phase = "launching" /\ settings = None
  /\ ready = FALSE /\ client = "none" /\ tracer = "none"
  /\ inFlight = 0
  /\ pc = [r \in Requests |-> "absent"]
  /\ kind = [r \in Requests |-> None]
  /\ wire = [r \in Requests |-> None]
  /\ answer = [r \in Requests |-> None]
  /\ doomed = {}

-----------------------------------------------------------------------------
(* create_app, the lifespan, and Uvicorn's shutdown.                       *)

\* serve(): the launcher validates what it reads and passes nothing on.
Preflight ==
  /\ phase = "launching"
  /\ \E s \in Environments : ValidSettings(s)
  /\ phase' = "configuring"
  /\ UNCHANGED <<settings, ready, client, tracer, requests>>

\* Either reading raises: nothing is open yet.
InvalidSettings ==
  /\ phase \in {"launching", "configuring"}
  /\ \E s \in Environments : ~ValidSettings(s)
  /\ phase' = "failed"
  /\ UNCHANGED <<settings, ready, client, tracer, requests>>

\* Mutant: the factory relies on the launcher's validation.
ConfigureUnchecked ==
  /\ phase = "configuring"
  /\ \E s \in Environments : settings' = s
  /\ phase' = "building" /\ tracer' = "open"
  /\ UNCHANGED <<ready, client, requests>>

\* create_app reads the settings and opens the tracer.
Configure ==
  /\ phase = "configuring"
  /\ \E s \in Environments : ValidSettings(s) /\ settings' = s
  /\ phase' = "building" /\ tracer' = "open"
  /\ UNCHANGED <<ready, client, requests>>

\* Mutant: build_server closes its client when it returns.
BuildClosesClient ==
  /\ phase = "building"
  /\ PolicyAccepts(settings)
  /\ phase' = "built" /\ client' = "closed"
  /\ UNCHANGED <<settings, ready, tracer, requests>>

\* build_server and _build_streamable_http_app
Build ==
  /\ phase = "building"
  /\ PolicyAccepts(settings)
  /\ phase' = "built" /\ client' = "open"
  /\ UNCHANGED <<settings, ready, tracer, requests>>

\* Either may raise, before or after the client exists, the network policy for
\* settings that are valid; create_app shuts the tracer down and the client is
\* left to the exiting process.
BuildFails ==
  /\ phase = "building"
  /\ phase' = "failed" /\ tracer' = "shut"
  /\ client' \in IF PolicyAccepts(settings) THEN {"none", "open"} ELSE {"none"}
  /\ UNCHANGED <<settings, ready, requests>>

\* Uvicorn listens once the lifespan has started.
EnterLifespan ==
  /\ phase = "built"
  /\ phase' = "serving" /\ ready' = TRUE
  /\ UNCHANGED <<settings, client, tracer, requests>>

\* SIGTERM: no new connections.
Stop ==
  /\ phase = "serving"
  /\ phase' = "draining"
  /\ UNCHANGED <<settings, ready, client, tracer, requests>>

Drained ==
  /\ phase = "draining" /\ Active = {}
  /\ phase' = "teardown"
  /\ UNCHANGED <<settings, ready, client, tracer, requests>>

\* timeout_graceful_shutdown: the remaining tasks are cancelled, and the
\* lifespan ends without waiting for them.
GracefulTimeout ==
  /\ phase = "draining" /\ Active # {}
  /\ phase' = "teardown" /\ doomed' = Active
  /\ UNCHANGED <<settings, ready, client, tracer, inFlight, pc, kind, wire, answer>>

\* Mutant: the client is closed while the worker still says it is ready.
LeaveLifespanClosingFirst ==
  /\ phase = "teardown"
  /\ phase' = "closing" /\ client' = "closing"
  /\ UNCHANGED <<settings, ready, tracer, requests>>

\* The lifespan's finally, up to the await of aclose.
LeaveLifespan ==
  /\ phase = "teardown"
  /\ phase' = "closing" /\ ready' = FALSE /\ client' = "closing"
  /\ UNCHANGED <<settings, tracer, requests>>

\* Mutant: the tracer is shut down only if the client closed cleanly.
CloseClientNoFinally ==
  /\ phase = "closing"
  /\ \/ client' = "closed" /\ tracer' = "shut"
     \/ client' = "broken" /\ UNCHANGED tracer
  /\ phase' = "stopped"
  /\ UNCHANGED <<settings, ready, requests>>

\* aclose returns or raises, and the tracer is shut down in either case.
CloseClient ==
  /\ phase = "closing"
  /\ client' \in {"closed", "broken"}
  /\ tracer' = "shut" /\ phase' = "stopped"
  /\ UNCHANGED <<settings, ready, requests>>

-----------------------------------------------------------------------------
(* Requests: HttpTransportAdmissionMiddleware.__call__ and what it wraps.  *)

Arrive(r) ==
  /\ phase = "serving" /\ pc[r] \in {"absent", "done"}
  /\ \E k \in Kinds : kind' = [kind EXCEPT ![r] = k]
  /\ pc' = [pc EXCEPT ![r] = "arrived"]
  /\ answer' = [answer EXCEPT ![r] = None]
  /\ UNCHANGED <<process, inFlight, wire, doomed>>

\* The task ends outside the admitted section, with the status it sent.
Answer(r, status) ==
  /\ pc' = [pc EXCEPT ![r] = "done"]
  /\ wire' = [wire EXCEPT ![r] = None]
  /\ answer' = [answer EXCEPT ![r] = status]
  /\ UNCHANGED <<process, inFlight, kind, doomed>>

\* _validate_envelope
RejectEnvelope(r) ==
  /\ pc[r] = "arrived" /\ r \notin doomed
  /\ \E status \in {431, 400} : Answer(r, status)

\* Mutant: the probes need a slot too.
ProbeIfCapacity(r) ==
  /\ pc[r] = "arrived" /\ kind[r] \in Probes /\ r \notin doomed
  /\ inFlight < MaxConcurrent
  /\ \/ Answer(r, 405)
     \/ Answer(r, IF kind[r] = "ready" /\ ~ready THEN 503 ELSE 200)

\* The operational paths go straight to OperationalProbeMiddleware, which
\* answers a GET, and refuses any other method.
Probe(r) ==
  /\ pc[r] = "arrived" /\ kind[r] \in Probes /\ r \notin doomed
  /\ \/ Answer(r, 405)
     \/ Answer(r, IF kind[r] = "ready" /\ ~ready THEN 503 ELSE 200)

CheckTransport(r) ==
  /\ pc[r] = "arrived" /\ kind[r] = "mcp" /\ r \notin doomed
  /\ pc' = [pc EXCEPT ![r] = "checking"]
  /\ \E w \in Wires : wire' = [wire EXCEPT ![r] = w]
  /\ UNCHANGED <<process, inFlight, kind, answer, doomed>>

HostAllowed(r)   == wire[r].host \in AllowedHosts(settings)
OriginAllowed(r) == wire[r].origin \in AllowedOrigins(settings) \cup {None}

\* The SDK refuses the Content-Type, the Host or the Origin; then the
\* middleware any method but POST.
RejectTransport(r) ==
  /\ pc[r] = "checking" /\ r \notin doomed
  /\ \/ Answer(r, 400)
     \/ ~HostAllowed(r) /\ Answer(r, 421)
     \/ HostAllowed(r) /\ ~OriginAllowed(r) /\ Answer(r, 403)
     \/ HostAllowed(r) /\ OriginAllowed(r) /\ Answer(r, 405)

\* The transport check passed and the slots come next.
AtSlots(r) ==
  pc[r] = "checking" /\ r \notin doomed /\ HostAllowed(r) /\ OriginAllowed(r)

\* Mutant: the release also covers requests that were not admitted.
RefuseReleasing(r) ==
  /\ AtSlots(r)
  /\ inFlight >= MaxConcurrent
  /\ inFlight' = inFlight - 1
  /\ pc' = [pc EXCEPT ![r] = "done"]
  /\ wire' = [wire EXCEPT ![r] = None]
  /\ answer' = [answer EXCEPT ![r] = 503]
  /\ UNCHANGED <<process, kind, doomed>>

\* _try_admit finds no slot.
Refuse(r) ==
  /\ AtSlots(r)
  /\ inFlight >= MaxConcurrent
  /\ Answer(r, 503)

\* Mutant: one request too many.
AdmitOneMore(r) ==
  /\ AtSlots(r)
  /\ inFlight <= MaxConcurrent
  /\ inFlight' = inFlight + 1
  /\ pc' = [pc EXCEPT ![r] = "verifying"]
  /\ wire' = [wire EXCEPT ![r] = None]
  /\ UNCHANGED <<process, kind, answer, doomed>>

\* _try_admit takes a slot, and the SDK starts to verify the token.
Admit(r) ==
  /\ AtSlots(r)
  /\ inFlight < MaxConcurrent
  /\ inFlight' = inFlight + 1
  /\ pc' = [pc EXCEPT ![r] = "verifying"]
  /\ wire' = [wire EXCEPT ![r] = None]
  /\ UNCHANGED <<process, kind, answer, doomed>>

Verified(r) ==
  /\ pc[r] = "verifying" /\ r \notin doomed
  /\ pc' = [pc EXCEPT ![r] = "handling"]
  /\ UNCHANGED <<process, inFlight, kind, wire, answer, doomed>>

\* The finally around the wrapped application.
Leave(r, status) ==
  /\ inFlight' = inFlight - 1
  /\ pc' = [pc EXCEPT ![r] = "done"]
  /\ answer' = [answer EXCEPT ![r] = status]
  /\ UNCHANGED <<process, kind, wire, doomed>>

\* The application answers, or an exception leaves it.
Handled(r) ==
  /\ r \notin doomed
  /\ \/ pc[r] = "verifying" /\ \E status \in {401, 403, 500} : Leave(r, status)
     \/ pc[r] = "handling" /\ \E status \in {200, 500} : Leave(r, status)

\* CancelledError at the await the task is suspended in; 500 stands for an
\* exception that reaches Uvicorn.
Cancelled(r) ==
  /\ r \in doomed
  /\ \/ pc[r] \in {"arrived", "checking"} /\ Answer(r, 500)
     \/ pc[r] \in Admitted /\ Leave(r, 500)

Serve(r) ==
  \/ RejectEnvelope(r) \/ Probe(r) \/ CheckTransport(r) \/ RejectTransport(r)
  \/ Refuse(r) \/ Admit(r) \/ Verified(r) \/ Handled(r) \/ Cancelled(r)

Shutdown == Drained \/ GracefulTimeout \/ LeaveLifespan \/ CloseClient

Lifecycle ==
  \/ Preflight \/ InvalidSettings \/ Configure \/ Build \/ BuildFails
  \/ EnterLifespan \/ Stop \/ Shutdown

Next ==
  \/ Lifecycle
  \/ \E r \in Requests : Arrive(r) \/ Serve(r)

Spec == Init /\ [][Next]_vars

\* The event loop runs the process's own steps and the probes.  A handler may
\* hang: nothing here obliges it to end.
FairSpec ==
  /\ Spec
  /\ WF_vars(Shutdown)
  /\ \A r \in Requests : WF_vars(Probe(r))

-----------------------------------------------------------------------------
(* Properties.                                                             *)

\* Every variable keeps its type.
TypeOK ==
  /\ phase \in {"launching", "configuring", "building", "failed", "built", "serving",
                "draining", "teardown", "closing", "stopped"}
  /\ settings \in Environments \cup {None}
  /\ ready \in BOOLEAN
  /\ client \in {"none", "open", "closing", "closed", "broken"}
  /\ tracer \in {"none", "open", "shut"}
  /\ inFlight \in Nat
  /\ pc \in [Requests -> {"absent", "arrived", "checking", "done"} \cup Admitted]
  /\ kind \in [Requests -> Kinds \cup {None}]
  /\ wire \in [Requests -> Wires \cup {None}]
  /\ answer \in [Requests -> {None, 200, 400, 401, 403, 405, 421, 431, 500, 503}]
  /\ doomed \subseteq Requests

\* The counter is the number of requests inside the application, through
\* answers, exceptions and cancellations, and never exceeds the limit
\* (_try_admit and _release).
SlotsExact == inFlight = Cardinality(Inside) /\ Cardinality(Inside) <= MaxConcurrent

SamePort(scheme, a, b) ==
  \/ a = b
  \/ a = None /\ b = DefaultPort(scheme)
  \/ b = None /\ a = DefaultPort(scheme)

\* A request as it is sent by a client that was given this URL: the default
\* port may be left out or not, in an Origin only if the URL has it.
SentTo(w, url) ==
  /\ w.host[1] = url.host /\ SamePort(url.scheme, w.host[2], url.port)
  /\ w.origin # None =>
       /\ w.origin[1] = url.scheme /\ w.origin[2] = url.host
       /\ SamePort(url.scheme, w.origin[3], url.port) /\ w.origin[3] \in {None, url.port}

\* .env.example: "The public resource URL's Host and same Origin are trusted
\* automatically", however the URL spells its port (_transport_authority).
AdvertisedUrlAdmitted ==
  [][\A r \in Requests :
       pc[r] = "checking" /\ SentTo(wire[r], settings.resource) =>
         answer'[r] \notin {403, 421}]_vars

\* Whatever .env becomes between the launcher's validation and the factory's,
\* a worker that is built fetches keys over plain HTTP only if it was told to,
\* and in production never, nor from a placeholder (ADR-0011: example
\* configuration cannot silently become production configuration).
TrustHardened ==
  phase \in {"built", "serving", "draining", "teardown"} =>
    /\ \A url \in TrustedUrls(settings) : url.scheme = "https" \/ settings.loopback
    /\ settings.environment = "production" =>
         /\ ~settings.loopback
         /\ \A url \in TrustedUrls(settings) \cup settings.origins :
              url.scheme = "https" /\ url.host \notin PlaceholderHosts

\* A worker that says it is ready has its client and its tracer (ADR-0010: not
\* ready before shared runtime resources are closed).
ReadyHasResources == ready => client = "open" /\ tracer = "open"

\* A request that is verifying its token and was not cancelled finds the shared
\* client open: the lifespan closes it after the last of them.
NoUseAfterClose ==
  \A r \in Inside \ doomed : client = "open" /\ tracer = "open"

\* A request to stop ends with the tracer shut down, even if handlers hang and
\* the client cannot be closed (the lifespan's nested finally).
ShutdownCompletes ==
  phase = "draining" ~> (phase = "stopped" /\ tracer = "shut" /\ ~ready)

\* A probe is answered or cancelled by shutdown, however many handlers hang
\* (ADR-0010: probes skip the concurrency limiter).
ProbesAnswered ==
  \A r \in Requests :
    pc[r] = "arrived" /\ kind[r] \in Probes ~> pc[r] = "done" \/ r \in doomed
=============================================================================
