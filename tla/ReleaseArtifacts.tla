--------------------------- MODULE ReleaseArtifacts ---------------------------
(***************************************************************************)
(* scripts/prepare_release_artifacts.py: which wheels and source archives  *)
(* a release may carry, and how two builds become one set of packages.     *)
(*                                                                         *)
(* A member's name is the sequence of its parts between slashes, so        *)
(* "a/b/" is <<"a", "b", "">> and "/a" is <<"", "a">>.  The module, its    *)
(* dist-info directory and the source archive's root stand for the names   *)
(* that load_project_identity derives from the project's name and version; *)
(* "other" is any part without a meaning here, "a\\b" one with a           *)
(* backslash.  Contents are abstract: equal values have equal digests.     *)
(***************************************************************************)
EXTENDS Integers, Sequences, SequencesExt, Functions

CONSTANTS MaxMembers   \* MAX_ARCHIVE_MEMBERS

ASSUME ArchiveAssumption == MaxMembers \in Nat \ {0}

Backslashed == "a\\b"

\* The part before a slash that is first, or after one that is last.
Empty == ""

Parts == {"module", "dist-info", "METADATA", "root", "src", "PKG-INFO",
          "LICENSE", "other", Empty, ".", "..", Backslashed}

\* ALLOWED_SDIST_ROOT_FILES, of which one stands for those but PKG-INFO.
RootFiles == {"PKG-INFO", "LICENSE"}

\* A clean name loses one slash at its end.
Clean(path) == IF path[Len(path)] = Empty THEN Front(path) ELSE path

\* Mutation of Safe: a part may lead to the directory above.
SafeButParents(path) ==
  /\ Clean(path) # <<>>
  /\ Range(Clean(path)) \cap {Empty, ".", Backslashed} = {}

Safe(path) ==
  /\ Clean(path) # <<>>
  /\ Range(Clean(path)) \cap {Empty, ".", "..", Backslashed} = {}

\* Every archive that is accepted: names that are safe, and no name twice.
WellFormed(members) ==
  /\ Len(members) <= MaxMembers
  /\ \A i \in DOMAIN members : Safe(members[i].path)
  /\ IsInjective([i \in DOMAIN members |-> Clean(members[i].path)])

Names(members) == {Clean(members[i].path) : i \in DOMAIN members}

\* The metadata that is read has to name the project and its version.
Describes(archive, identity) == archive.metadata = identity

WheelAccepted(wheel, identity) ==
  /\ wheel.kind = "wheel" /\ wheel.name = identity
  /\ WellFormed(wheel.members)
  /\ \A i \in DOMAIN wheel.members :
       /\ wheel.members[i].type # "link"
       /\ wheel.members[i].path[1] \in {"module", "dist-info"}
  /\ <<"dist-info", "METADATA">> \in Names(wheel.members)
  /\ \E name \in Names(wheel.members) : name[1] = "module" /\ Len(name) > 1
  /\ Describes(wheel, identity)

\* A root file, or something under src/<module>; the root itself is skipped.
Allowed(relative) ==
  \/ relative = <<>>
  \/ Len(relative) = 1 /\ relative[1] \in RootFiles
  \/ Len(relative) >= 2 /\ SubSeq(relative, 1, 2) = <<"src", "module">>

SdistAccepted(sdist, identity) ==
  /\ sdist.kind = "sdist" /\ sdist.name = identity
  /\ WellFormed(sdist.members)
  /\ \A i \in DOMAIN sdist.members :
       /\ sdist.members[i].type \in {"file", "dir"}
       /\ sdist.members[i].path[1] = "root"
       /\ Allowed(Tail(Clean(sdist.members[i].path)))
       /\ Clean(sdist.members[i].path) = <<"root", "PKG-INFO">> =>
            sdist.members[i].type = "file"
  /\ \A file \in RootFiles : <<"root", file>> \in Names(sdist.members)
  /\ \E i \in DOMAIN sdist.members :
       sdist.members[i].type = "file" /\ Len(Clean(sdist.members[i].path)) >= 3
  /\ Describes(sdist, identity)

\* _artifact_paths: one wheel, one source archive and uv's sentinel at most.
Complete(build) == build.entries \ {"sentinel"} = {"wheel", "sdist"}

\* prepare_release_artifacts: two builds, byte for byte the same.  The
\* packages are staged with the digests of their contents.
Prepared(first, second, identity, tag) ==
  /\ tag = identity
  /\ \A build \in {first, second} :
       /\ Complete(build)
       /\ WheelAccepted(build.wheel, identity)
       /\ SdistAccepted(build.sdist, identity)
  /\ first.wheel = second.wheel /\ first.sdist = second.sdist

Staged(build) ==
  [wheel |-> build.wheel, sdist |-> build.sdist,
   sums |-> [wheel |-> build.wheel, sdist |-> build.sdist]]
=============================================================================
