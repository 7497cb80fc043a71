----------------------------- MODULE Publication -----------------------------
(***************************************************************************)
(* What the release workflows promise to whoever installs a version: the   *)
(* image a version's tag names is fixed from the moment the version is     *)
(* listed in the registry, and it is the one its release describes.        *)
(***************************************************************************)
CONSTANTS Versions, None

VARIABLES
  image,     \* the digest that each version's tag names, or None
  released,  \* the digest that the release of each version states, or None
  listed     \* the digest an installer gets from the registry's entry, or None

vars == <<image, released, listed>>

Init ==
  /\ image    = [v \in Versions |-> None]
  /\ released = [v \in Versions |-> None]
  /\ listed   = [v \in Versions |-> None]

Upload(v) ==
  /\ image[v] = None
  /\ image' = [image EXCEPT ![v] = image'[v]]
  /\ UNCHANGED <<released, listed>>

\* Images may go away only while nothing describes them.
Withdraw(v) ==
  /\ released[v] = None
  /\ image' = [image EXCEPT ![v] = None]
  /\ UNCHANGED <<released, listed>>

Release(v) ==
  /\ released[v] = None
  /\ released' = [released EXCEPT ![v] = released'[v]]
  /\ UNCHANGED <<image, listed>>

List(v) ==
  /\ listed[v] = None
  /\ released[v] # None /\ image[v] = released[v]
  /\ listed' = [listed EXCEPT ![v] = released[v]]
  /\ UNCHANGED <<image, released>>

Next == \E v \in Versions : Upload(v) \/ Withdraw(v) \/ Release(v) \/ List(v)

Spec == Init /\ [][Next]_vars
=============================================================================
