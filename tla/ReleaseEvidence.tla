--------------------------- MODULE ReleaseEvidence ---------------------------
(***************************************************************************)
(* scripts/validate_security_evidence.py, prepare_multiarch_image_evidence *)
(* .py and prepare_release_publication.py: what the documents that travel  *)
(* between the jobs of a release have to say of each other.                *)
(*                                                                         *)
(* Digests name contents, so the digest of an index is its list of         *)
(* platform manifests.  The evidence directory is a function from the      *)
(* names of its files to what is read from them; the names are pairs such  *)
(* as <<"policy", "amd64">>.                                               *)
(***************************************************************************)
EXTENDS FiniteSets, ReleaseArtifacts

Platforms == {"amd64", "arm64"}

EvidenceFiles ==
  ({"sbom"} \X {"source", "amd64", "arm64"}) \cup ({"grype", "policy"} \X Platforms)
    \cup ({"index"} \X {"platforms", "digest"})

\* A directory after a document was written into it.
Written(files, name, document) ==
  [n \in DOMAIN files \cup {name} |-> IF n = name THEN document ELSE files[n]]

\* validate_cyclonedx: the project and something it depends on, at any depth.
SbomAccepted(sbom) ==
  sbom.valid /\ "project" \in sbom.names /\ Cardinality(sbom.names) >= 2

\* validate_grype_report: a report of the local image of this commit.
GrypeAccepted(grype, image) == grype.valid /\ grype.image = image

\* prepare_multiarch_image_evidence: the index in the registry is the one
\* that was made, and lists the two digests that were resolved, once each.
IndexAccepted(manifest, index, digests) ==
  /\ digests["amd64"] # digests["arm64"]
  /\ manifest = index
  /\ Len(manifest) = 2
  /\ \A i \in DOMAIN manifest : manifest[i].platform \in Platforms
  /\ IsInjective([i \in DOMAIN manifest |-> manifest[i].platform])
  /\ \A i \in DOMAIN manifest : manifest[i].digest = digests[manifest[i].platform]

PlatformRecords(index, digests, tag, commit) ==
  [index |-> index, platforms |-> digests, tags |-> <<tag, commit>>]

\* _validate_platform_evidence
PlatformsAccepted(records, index, tag, commit) ==
  /\ records.index = index
  /\ records.tags = <<tag, commit>>
  /\ DOMAIN records.platforms = Platforms
  /\ IsInjective(records.platforms)

\* prepare_release_publication: everything the release is made of, again.
PublicationAccepted(packages, evidence, identity, tag, commit, index) ==
  /\ tag = identity
  /\ DOMAIN evidence = EvidenceFiles
  /\ WheelAccepted(packages.wheel, identity)
  /\ SdistAccepted(packages.sdist, identity)
  /\ packages.sums = [wheel |-> packages.wheel, sdist |-> packages.sdist]
  /\ SbomAccepted(evidence[<<"sbom", "source">>])
  /\ PlatformsAccepted(evidence[<<"index", "platforms">>], index, tag, commit)
  /\ \A arch \in Platforms :
       /\ SbomAccepted(evidence[<<"sbom", arch>>])
       /\ GrypeAccepted(evidence[<<"grype", arch>>], <<commit, arch>>)
       /\ evidence[<<"policy", arch>>].status = "passed"
  /\ evidence[<<"index", "digest">>] = index
=============================================================================
