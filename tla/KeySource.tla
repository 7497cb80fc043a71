------------------------------ MODULE KeySource ------------------------------
(***************************************************************************)
(* What a verifier of tokens may rely on when it asks for a signing key,   *)
(* with nothing said of how the key is found: no lock, no requests, no     *)
(* order among the callers.  A source has one view of what each provider   *)
(* publishes, which only moves forward, and answers every call from it.    *)
(***************************************************************************)
EXTENDS Integers

CONSTANTS Requests, Uris, Keys, Ttl, Cooldown, None

VARIABLES
  now,                          \* the time
  published, epoch, removedAt,  \* the provider: its keys, how often they
                                \* changed, when each was last withdrawn
  view,                         \* per URI what the source last learned, or None
  refreshed,                    \* per URI when a miss last made it ask again
  call                          \* each caller's last call

provider == <<published, epoch, removedAt>>
vars == <<now, provider, view, refreshed, call>>

\* What was published at some moment from `begun`, when the source asked for
\* it, to `at`, when the source learned it.
Document == [keys: SUBSET Keys, epoch: Nat, begun: Nat, at: Nat]

\* `absent` tells whether the provider did not publish the key at some moment
\* of the call, `missed` whether a view lacked it, for a call that still waits.
Call == [uri: Uris, key: Keys, absent: BOOLEAN, missed: BOOLEAN,
         answer: {"pending", "accepted", "nokey"}]

\* No call yet, or one that failed.
Silent == [answer |-> "none"]

Init ==
  /\ now = 0
  /\ published \in [Uris -> SUBSET Keys]
  /\ epoch = [u \in Uris |-> 0]
  /\ removedAt = [u \in Uris |-> [k \in Keys |-> 0]]
  /\ view = [u \in Uris |-> None]
  /\ refreshed = [u \in Uris |-> None]
  /\ call = [r \in Requests |-> Silent]

Pending(r) == call[r].answer = "pending"

Begun(u, k) ==
  [uri |-> u, key |-> k, absent |-> k \notin published[u], missed |-> FALSE,
   answer |-> "pending"]

\* The call that r is making, or may begin to make.
Open(r) ==
  IF Pending(r) THEN {call[r]} ELSE {Begun(u, k) : u \in Uris, k \in Keys}

-----------------------------------------------------------------------------
(* The view.                                                               *)

\* The source learns a document.  It asked for it when the view was too old,
\* or a miss made it ask, and after it had learned the one before, so the view
\* moves forward; a key of it that is no longer published was withdrawn after
\* the source asked.
Learn(u) ==
  LET d == view'[u]
  IN  /\ view' = [view EXCEPT ![u] = d]
      /\ d \in Document
      /\ d.at = now /\ d.begun <= now
      /\ view[u] # None =>
           /\ d.begun >= view[u].at /\ d.epoch >= view[u].epoch
           /\ d.begun >= view[u].at + Ttl \/ d.begun = refreshed[u]
      /\ d.epoch <= epoch[u]
      /\ d.epoch = epoch[u] => d.keys = published[u]
      /\ \A k \in d.keys : k \in published[u] \/ removedAt[u][k] >= d.begun

\* The step ends with a view that is recent enough, in which the key is found
\* or missing.
Finds(u, k) == view'[u] # None /\ now - view'[u].at < Ttl /\ k \in view'[u].keys
Lacks(u, k) == view'[u] # None /\ now - view'[u].at < Ttl /\ k \notin view'[u].keys

Cooling(u) == refreshed[u] # None /\ now - refreshed[u] < Cooldown

-----------------------------------------------------------------------------
(* The calls.                                                              *)

Answer(r, c, a, missed) ==
  call' = [call EXCEPT ![r] = [uri |-> c.uri, key |-> c.key, absent |-> c.absent,
                               missed |-> missed, answer |-> a]]

\* A call that waits remembers that a view lacked its key.
Wait(r, c) ==
  /\ \/ Answer(r, c, "pending", c.missed)
     \/ Lacks(c.uri, c.key) /\ Answer(r, c, "pending", TRUE)
  /\ UNCHANGED refreshed

Give(r, c) ==
  /\ Finds(c.uri, c.key)
  /\ Answer(r, c, "accepted", FALSE)
  /\ UNCHANGED refreshed

\* A miss has its reason: the provider did not publish the key throughout the
\* call, or may not be asked again yet.
Miss(r, c) ==
  /\ Lacks(c.uri, c.key)
  /\ c.absent \/ Cooling(c.uri)
  /\ Answer(r, c, "nokey", FALSE)
  /\ UNCHANGED refreshed

\* Only a call that missed makes the source ask again before its view is too
\* old, and not during the cooldown; it may do so although the key has arrived
\* since.
Retry(r, c) ==
  /\ c.missed \/ Lacks(c.uri, c.key)
  /\ ~Cooling(c.uri)
  /\ refreshed' = [refreshed EXCEPT ![c.uri] = now]
  /\ Answer(r, c, "pending", TRUE)

Serve(r) ==
  \E c \in Open(r) :
    /\ view' = view \/ Learn(c.uri)
    /\ Wait(r, c) \/ Give(r, c) \/ Miss(r, c) \/ Retry(r, c)
    /\ UNCHANGED <<now, provider>>

\* A call may always fail, and then says nothing.
Fail(r) ==
  /\ call' = [call EXCEPT ![r] = Silent]
  /\ UNCHANGED <<now, provider, view, refreshed>>

-----------------------------------------------------------------------------
(* The provider and the time.                                              *)

Rotate(u) ==
  /\ epoch' = [epoch EXCEPT ![u] = @ + 1]
  /\ \E ks \in (SUBSET Keys) \ {published[u]} :
       /\ published' = [published EXCEPT ![u] = ks]
       /\ removedAt' = [removedAt EXCEPT ![u] =
            [k \in Keys |-> IF k \in ks THEN 0
                            ELSE IF k \in published[u] THEN now ELSE @[k]]]
       /\ call' = [r \in Requests |->
            IF Pending(r) /\ call[r].uri = u /\ call[r].key \notin ks
              THEN [call[r] EXCEPT !.absent = TRUE] ELSE call[r]]
  /\ UNCHANGED <<now, view, refreshed>>

Tick ==
  /\ now' = now + 1
  /\ UNCHANGED <<provider, view, refreshed, call>>

Next ==
  \/ \E r \in Requests : Serve(r) \/ Fail(r)
  \/ \E u \in Uris : Rotate(u)
  \/ Tick

Spec == Init /\ [][Next]_vars
=============================================================================
