--------------------------- MODULE ReleasePipeline ---------------------------
(***************************************************************************)
(* .github/workflows/release-artifacts.yml and publish-mcp-registry.yml:   *)
(* from a pushed tag to the image registry, the GitHub Release and the     *)
(* entry in the MCP registry.                                              *)
(*                                                                         *)
(* A release run has three jobs: packages, container and release.  Any     *)
(* step may fail; the run can then be started again, whole or from the job *)
(* that failed, with what earlier attempts uploaded.  Runs of one tag are  *)
(* serialised, runs of different tags are not.  Every attempt that ends    *)
(* starts the registry workflow, of which one run is active and one        *)
(* pending at most; after a failure it has nothing to do.  Maintainers     *)
(* move tags and remove the images of a version that was not released.     *)
(* The checks are those of the scripts, in ReleaseEvidence,                *)
(* VulnerabilityPolicy and RegistryEntry.                                  *)
(***************************************************************************)
EXTENDS ReleaseEvidence, VulnerabilityPolicy, RegistryEntry

CONSTANTS
  Versions,        \* the tag and the version it names are one value
  Commits,
  Runs,            \* the tags that are pushed: pairs of a version and a commit
  VersionOf,       \* project.version of each commit
  Merged,          \* the commits that reach the default branch
  ServerOf,        \* server.json of each commit
  FilesOf,         \* what the metadata check reads of its other files
  ExceptionsOf,    \* security/vulnerability-exceptions.json of each commit
  PackageBuilds,   \* what uv build may leave, per version
  Sboms, Reports,  \* what syft and grype may say of an image
  Retention,       \* retention-days
  InspectReliable, \* an image that is there is always found
  MaxImageBuilds, MaxDay,
  None

\* Image tags: a version or a commit, for one platform or for the index.
Refs == (Versions \cup Commits) \X (Platforms \cup {"index"})

\* The images of one build differ from those of any other; an index is the
\* list of what it points to, attestations included.
PlatformImages == Nat \X Platforms
Descriptors    == [platform : Platforms \cup {"unknown"}, digest : PlatformImages \cup {None}]

ASSUME PipelineAssumption ==
  /\ Runs \subseteq Versions \X Commits
  /\ VersionOf \in [Commits -> Versions] /\ Merged \subseteq Commits
  /\ Versions \cap Commits = {}
  /\ InspectReliable \in BOOLEAN
  /\ MaxImageBuilds \in Nat /\ MaxDay \in Nat /\ Retention \in Nat
  /\ None \notin Runs \X BOOLEAN

ASSUME ImageAssumption == None \notin PlatformImages

\* The dates of an exception are read as days (_parse_date).
ASSUME DateAssumption ==
  \A c \in Commits : \A i \in DOMAIN ExceptionsOf[c] :
    {ExceptionsOf[c][i].reviewed, ExceptionsOf[c][i].expires} \subseteq Int

\* The names in an archive are split at their slashes, into one part at least.
ASSUME PackageAssumption ==
  \A v \in Versions : \A build \in PackageBuilds[v] :
    \A archive \in {build.wheel, build.sdist} :
      archive.members \in
        Seq([path : Seq(STRING) \ {<<>>}, type : {"file", "dir", "link"}])

VARIABLES
  gitTag,     \* the commit each tag names, or None
  runs,       \* each run of the release workflow: where it stands
  directory,  \* build/release-evidence of each container job under way
  packages,   \* python artifacts uploaded by each run, with their day
  evidence,   \* evidence artifacts uploaded by each run, with their day
  images,     \* the digest each image tag names, or None
  releases,   \* the GitHub Release of each version, or None
  registry,   \* the entry of each version in the MCP registry, or None
  active,     \* the registry workflow's active run: the release run that started
              \* it and whether that succeeded, or None
  phase,      \* and where it stands
  pending,    \* its pending run, or None
  triggered,  \* the release runs whose success ever started it
  builds,     \* container builds so far: their number names their images
  day,
  approved    \* history: the platform digests whose scan passed

releaseVars  == <<gitTag, runs, directory, packages, evidence, images, releases,
                  builds, approved>>
registryVars == <<registry, active, phase, pending, triggered>>
vars == <<releaseVars, registryVars, day>>

Tag(r)    == r[1]
Commit(r) == r[2]

\* The order in which the tags of a run are pushed.
RefsOf(r) ==
  << <<Tag(r), "amd64">>, <<Commit(r), "amd64">>,
     <<Tag(r), "arm64">>, <<Commit(r), "arm64">>,
     <<Tag(r), "index">>, <<Commit(r), "index">> >>

NoDigests == [arch \in Platforms |-> None]

\* pushed counts the tags pushed; build is the local candidates' number, index
\* the digest of the version's index as it was made, output the one that the
\* container job hands on; overnight says that midnight passed in this job.
NewRun ==
  [status |-> "none", job |-> "packages", step |-> "start", pushed |-> 0,
   build |-> 0, digests |-> NoDigests, index |-> None, output |-> None,
   overnight |-> FALSE]

Init ==
  /\ gitTag    = [v \in Versions |-> None]
  /\ runs      = [r \in Runs |-> NewRun]
  /\ directory = [r \in Runs |-> <<>>]
  /\ packages  = [r \in Runs |-> {}]
  /\ evidence  = [r \in Runs |-> {}]
  /\ images    = [ref \in Refs |-> None]
  /\ releases  = [v \in Versions |-> None]
  /\ registry  = [v \in Versions |-> None]
  /\ active = None /\ phase = "idle" /\ pending = None /\ triggered = {}
  /\ builds = 0 /\ day = 0
  /\ approved = {}

----------------------------------------------------------------------------
\* Runs of the release workflow start, fail and start again.

InJob(r, job, step) ==
  runs[r].status = "running" /\ runs[r].job = job /\ runs[r].step = step

InContainer(r) == runs[r].status = "running" /\ runs[r].job = "container"

\* concurrency: secure-release-<ref>
GroupFree(r) == \A s \in Runs : Tag(s) = Tag(r) => runs[s].status # "running"

PushTag(r) ==
  /\ runs[r].status = "none"
  /\ gitTag' = [gitTag EXCEPT ![Tag(r)] = Commit(r)]
  /\ runs' = [runs EXCEPT ![r].status = "queued"]
  /\ UNCHANGED <<directory, packages, evidence, images, releases, builds,
                 approved, registryVars, day>>

\* Of a job that ended nothing stays but its output; the next one starts on a
\* clean machine.
Ended(r, status) ==
  [NewRun EXCEPT !.status = status, !.job = runs[r].job, !.output = runs[r].output]

Started(r, job) ==
  [NewRun EXCEPT !.status = "running", !.job = job,
                 !.output = IF job = "release" THEN runs[r].output ELSE None]

Start(r, job) ==
  /\ GroupFree(r)
  /\ \/ runs[r].status = "queued" /\ job = "packages"
     \/ runs[r].status \in {"failed", "success"} /\ job = "packages"
     \/ runs[r].status = "failed" /\ job = runs[r].job
  /\ runs' = [runs EXCEPT ![r] = Started(r, job)]
  /\ UNCHANGED <<gitTag, directory, packages, evidence, images, releases, builds,
                 approved, registryVars, day>>

\* Whatever way a run ends, the registry workflow starts; what waited there
\* for the active run is cancelled.
Trigger(r, success) ==
  /\ triggered' = IF success THEN triggered \cup {r} ELSE triggered
  /\ IF active = None
       THEN active' = <<r, success>> /\ phase' = "handoff" /\ UNCHANGED pending
       ELSE pending' = <<r, success>> /\ UNCHANGED <<active, phase>>

\* The evidence is kept whatever happened to the job, unless the machine was
\* lost.  What is not complete is left out here: nothing would accept it.
Fail(r) ==
  /\ runs[r].status = "running"
  /\ runs' = [runs EXCEPT ![r] = Ended(r, "failed")]
  /\ directory' = [directory EXCEPT ![r] = <<>>]
  /\ \/ UNCHANGED evidence
     \/ /\ DOMAIN directory[r] = EvidenceFiles
        /\ evidence' = [evidence EXCEPT ![r] = @ \cup {[files |-> directory[r], day |-> day]}]
  /\ Trigger(r, FALSE)
  /\ UNCHANGED <<gitTag, packages, images, releases, builds, approved, registry,
                 day>>

----------------------------------------------------------------------------
\* build-python-artifacts

\* The metadata and the tag are validated, the packages built twice.
BuildPackages(r) ==
  LET identity == VersionOf[Commit(r)] IN
  /\ InJob(r, "packages", "start")
  /\ ValidMetadata(ServerOf[Commit(r)], FilesOf[Commit(r)], identity, Tag(r))
  /\ \E first, second \in PackageBuilds[identity] :
       /\ Prepared(first, second, identity, Tag(r))
       /\ packages' = [packages EXCEPT ![r] =
            @ \cup {[files |-> Staged(first), day |-> day]}]
  /\ runs' = [runs EXCEPT ![r] = Started(r, "container")]
  /\ UNCHANGED <<gitTag, directory, evidence, images, releases, builds,
                 approved, registryVars, day>>

----------------------------------------------------------------------------
\* publish-container

\* The packages are fetched, the source is inventoried, both images built.
BuildImages(r) ==
  /\ InJob(r, "container", "start")
  /\ packages[r] # {}
  /\ builds < MaxImageBuilds
  /\ builds' = builds + 1
  /\ runs' = [runs EXCEPT ![r].step = "amd64", ![r].build = builds + 1]
  /\ \E sbom \in Sboms :
       directory' = [directory EXCEPT ![r] = Written(<<>>, <<"sbom", "source">>, sbom)]
  /\ UNCHANGED <<gitTag, packages, evidence, images, releases, approved,
                 registryVars, day>>

\* One round of the loop over the platforms: inventory, report, policy.
Scan(r, arch) ==
  LET image == [valid |-> TRUE, image |-> <<Commit(r), arch>>] IN
  /\ InJob(r, "container", arch)
  /\ \E sbom \in Sboms, report \in Reports :
       LET result == PolicyResult(report, ExceptionsOf[Commit(r)], day) IN
       /\ SbomAccepted(directory[r][<<"sbom", "source">>]) /\ SbomAccepted(sbom)
       /\ GrypeAccepted(image, <<Commit(r), arch>>)
       /\ result.status = "passed"
       /\ directory' = [directory EXCEPT ![r] =
            Written(Written(Written(@, <<"sbom", arch>>, sbom), <<"grype", arch>>, image),
                    <<"policy", arch>>, result)]
  /\ runs' = [runs EXCEPT ![r].step = IF arch = "amd64" THEN "arm64" ELSE "check"]
  /\ approved' = approved \cup {<<runs[r].build, arch>>}
  /\ UNCHANGED <<gitTag, packages, evidence, images, releases, builds,
                 registryVars, day>>

\* Mutation of CheckRefs: the tags are pushed whatever is there.
CheckNothing(r) ==
  /\ InJob(r, "container", "check")
  /\ runs' = [runs EXCEPT ![r].step = "push"]
  /\ UNCHANGED <<gitTag, directory, packages, evidence, images, releases, builds,
                 approved, registryVars, day>>

\* Refuse to overwrite; a registry that cannot be asked counts as "absent".
CheckRefs(r) ==
  /\ InJob(r, "container", "check")
  /\ InspectReliable => \A i \in 1 .. 6 : images[RefsOf(r)[i]] = None
  /\ runs' = [runs EXCEPT ![r].step = "push"]
  /\ UNCHANGED <<gitTag, directory, packages, evidence, images, releases, builds,
                 approved, registryVars, day>>

Pushing(r, tags) == InJob(r, "container", "push") /\ runs[r].pushed \in tags

Pushed(r, digest) ==
  images' = [images EXCEPT ![RefsOf(r)[runs[r].pushed + 1]] = digest]

PushVersion(r, arch) ==
  /\ Pushing(r, IF arch = "amd64" THEN {0} ELSE {2})
  /\ Pushed(r, <<runs[r].build, arch>>)
  /\ runs' = [runs EXCEPT ![r].pushed = @ + 1]
  /\ UNCHANGED <<gitTag, directory, packages, evidence, releases, builds, approved,
                 registryVars, day>>

\* Both tags are read back from the registry and must name one image.
PushCommit(r, arch) ==
  /\ Pushing(r, IF arch = "amd64" THEN {1} ELSE {3})
  /\ Pushed(r, <<runs[r].build, arch>>)
  /\ runs' = [runs EXCEPT ![r].pushed = @ + 1,
       ![r].digests[arch] = images'[<<Tag(r), arch>>],
       ![r].step = IF images'[<<Commit(r), arch>>] = images'[<<Tag(r), arch>>]
                        /\ images'[<<Tag(r), arch>>] # None
                     THEN @ ELSE "refused"]
  /\ UNCHANGED <<gitTag, directory, packages, evidence, releases, builds, approved,
                 registryVars, day>>

\* What imagetools makes of two digests: external.  An attestation of an
\* image would be listed as a manifest of its own.
Made(digests) ==
  LET platforms == << [platform |-> "amd64", digest |-> digests["amd64"]],
                      [platform |-> "arm64", digest |-> digests["arm64"]] >>
  IN {platforms, Append(platforms, [platform |-> "unknown", digest |-> digests["amd64"]])}

PushVersionIndex(r) ==
  /\ Pushing(r, {4})
  /\ \E index \in Made(runs[r].digests) :
       /\ Pushed(r, index)
       /\ runs' = [runs EXCEPT ![r].pushed = 5, ![r].index = index]
  /\ UNCHANGED <<gitTag, directory, packages, evidence, releases, builds, approved,
                 registryVars, day>>

PushCommitIndex(r) ==
  /\ Pushing(r, {5})
  /\ \E index \in Made(runs[r].digests) :
       /\ Pushed(r, index)
       /\ runs' = [runs EXCEPT ![r].pushed = 6,
            ![r].step = IF index = runs[r].index /\ index # None
                          THEN "verify" ELSE "refused"]
  /\ UNCHANGED <<gitTag, directory, packages, evidence, releases, builds, approved,
                 registryVars, day>>

\* The version's index is read back and its evidence written.
RecordIndex(r) ==
  LET index   == runs[r].index
      records == PlatformRecords(index, runs[r].digests, Tag(r), Commit(r))
  IN
  /\ InJob(r, "container", "verify")
  /\ IndexAccepted(images[<<Tag(r), "index">>], index, runs[r].digests)
  /\ directory' = [directory EXCEPT ![r] =
       Written(Written(@, <<"index", "platforms">>, records), <<"index", "digest">>, index)]
  /\ runs' = [runs EXCEPT ![r].step = "attest"]
  /\ UNCHANGED <<gitTag, packages, evidence, images, releases, builds, approved,
                 registryVars, day>>

\* The attestations are made, the evidence kept, the digest handed on.
FinishContainer(r) ==
  /\ InJob(r, "container", "attest")
  /\ evidence' = [evidence EXCEPT ![r] = @ \cup {[files |-> directory[r], day |-> day]}]
  /\ directory' = [directory EXCEPT ![r] = <<>>]
  /\ runs' = [runs EXCEPT ![r] = [Started(r, "release") EXCEPT !.output = runs[r].index]]
  /\ UNCHANGED <<gitTag, packages, images, releases, builds, approved,
                 registryVars, day>>

----------------------------------------------------------------------------
\* publish-github-release

\* Which of several artifacts with one name is downloaded is the service's
\* choice.  gh release create refuses a tag that has a release or does not
\* exist; it may create the release and be reported failed all the same.
PublishRelease(r) ==
  /\ InJob(r, "release", "start")
  /\ gitTag[Tag(r)] # None /\ releases[Tag(r)] = None
  /\ \E p \in packages[r], e \in evidence[r] :
       /\ PublicationAccepted(p.files, e.files, VersionOf[Commit(r)], Tag(r), Commit(r),
                              runs[r].output)
       /\ releases' = [releases EXCEPT ![Tag(r)] =
            [commit |-> Commit(r), index |-> runs[r].output, packages |-> p.files,
             evidence |-> e.files, day |-> day]]
  /\ \E success \in BOOLEAN :
       /\ runs' = [runs EXCEPT ![r] = Ended(r, IF success THEN "success" ELSE "failed")]
       /\ Trigger(r, success)
  /\ UNCHANGED <<gitTag, directory, packages, evidence, images, builds, approved,
                 registry, day>>

\* Maintainers remove the images of a version that failed to be published,
\* with the tags of its commits.
RemoveImages(r) ==
  /\ runs[r].status = "failed" /\ GroupFree(r)
  /\ releases[Tag(r)] = None
  /\ \E kind \in Platforms \cup {"index"} : images[<<Tag(r), kind>>] # None
  /\ images' = [ref \in Refs |->
       IF ref[1] = Tag(r) \/ (ref[1] \in Commits /\ VersionOf[ref[1]] = Tag(r))
         THEN None ELSE images[ref]]
  /\ UNCHANGED <<gitTag, runs, directory, packages, evidence, releases, builds,
                 approved, registryVars, day>>

----------------------------------------------------------------------------
\* publish-mcp-registry.yml

At(r, step) == active = <<r, TRUE>> /\ phase = step

\* Mutation of Handoff: the release's digest is not compared with the images.
HandoffTrustingTags(r) ==
  /\ At(r, "handoff")
  /\ gitTag[Tag(r)] = Commit(r) /\ Commit(r) \in Merged
  /\ releases[Tag(r)] # None
  /\ ValidServer(ServerOf[Commit(r)], Tag(r))
  /\ phase' = "precheck"
  /\ UNCHANGED <<releaseVars, registry, active, pending, triggered, day>>

\* The release, its evidence and the registry of images, before a credential.
Handoff(r) ==
  LET release == releases[Tag(r)] IN
  /\ At(r, "handoff")
  /\ gitTag[Tag(r)] = Commit(r) /\ Commit(r) \in Merged
  /\ release # None
  /\ ValidServer(ServerOf[Commit(r)], Tag(r))
  /\ images[<<Tag(r), "index">>] = release.index
  /\ images[<<Commit(r), "index">>] = release.index
  /\ phase' = "precheck"
  /\ UNCHANGED <<releaseVars, registry, active, pending, triggered, day>>

\* What the registry answers for a version it has; its operators may withdraw
\* an entry, and another version may be the latest.
Answers(v) ==
  [server : {registry[v]}, meta : [status : {"active", "deleted"}, isLatest : BOOLEAN]]

\* Mutation of Precheck: an entry that matches is published again.
PrecheckPublishing(r) ==
  /\ At(r, "precheck")
  /\ phase' = "publish"
  /\ UNCHANGED <<releaseVars, registry, active, pending, triggered, day>>

\* An entry that exists must be this one; then there is nothing to publish.
Precheck(r) ==
  /\ At(r, "precheck")
  /\ \/ registry[Tag(r)] = None /\ phase' = "publish"
     \/ /\ registry[Tag(r)] # None
        /\ \E entry \in Answers(Tag(r)) : ValidEntry(entry, Tag(r), "any")
        /\ phase' = "verify"
  /\ UNCHANGED <<releaseVars, registry, active, pending, triggered, day>>

\* Mutation of Finished: the phase of the run that ended stays.
FinishedKeepingPhase ==
  /\ active' = pending /\ pending' = None
  /\ UNCHANGED phase

\* The next run begins, if one waits.
Finished ==
  /\ active' = pending /\ pending' = None
  /\ phase' = IF pending = None THEN "idle" ELSE "handoff"

\* The registry takes a version once (external); its answer may be lost.
PublishEntry(r) ==
  /\ At(r, "publish")
  /\ registry[Tag(r)] = None
  /\ registry' = [registry EXCEPT ![Tag(r)] = ServerOf[Commit(r)]]
  /\ \/ phase' = "verify" /\ UNCHANGED <<active, pending>>
     \/ Finished
  /\ UNCHANGED <<releaseVars, triggered, day>>

\* The exact version, and if it is the latest also the lists that show it.
VerifyEntry(r) ==
  /\ At(r, "verify") /\ registry[Tag(r)] # None
  /\ \E entry \in Answers(Tag(r)) :
       /\ ValidEntry(entry, Tag(r), "any")
       /\ entry.meta.isLatest =>
            ValidEntry(entry, Tag(r), "true") /\ ValidDiscovery({entry}, Tag(r))
  /\ Finished
  /\ UNCHANGED <<releaseVars, registry, triggered, day>>

\* Nothing to do after a failed release, or an error, or a cancellation.
RegistryEnds(r) ==
  /\ active \in {r} \X BOOLEAN
  /\ Finished
  /\ UNCHANGED <<releaseVars, registry, triggered, day>>

\* A failed or cancelled registry run of a successful release runs again.
RegistryRerun(r) ==
  /\ r \in triggered /\ <<r, TRUE>> \notin {active, pending}
  /\ Trigger(r, TRUE)
  /\ UNCHANGED <<releaseVars, registry, day>>

----------------------------------------------------------------------------
\* Time.  The container job is over within 55 minutes: it meets one midnight at most.
\* Artifacts go when their retention ends.
Kept(artifacts) == {a \in artifacts : day' - a.day <= Retention}

Tick ==
  /\ day < MaxDay
  /\ \A r \in Runs : InContainer(r) => ~runs[r].overnight
  /\ day' = day + 1
  /\ runs' = [r \in Runs |-> [runs[r] EXCEPT !.overnight = InContainer(r)]]
  /\ packages' = [r \in Runs |-> Kept(packages[r])]
  /\ evidence' = [r \in Runs |-> Kept(evidence[r])]
  /\ UNCHANGED <<gitTag, directory, images, releases, builds,
                 approved, registryVars>>

ReleaseStep(r) ==
  \/ PushTag(r) \/ (\E job \in {"packages", "container", "release"} : Start(r, job))
  \/ Fail(r) \/ BuildPackages(r) \/ BuildImages(r)
  \/ (\E arch \in Platforms : Scan(r, arch) \/ PushVersion(r, arch) \/ PushCommit(r, arch))
  \/ CheckRefs(r) \/ PushVersionIndex(r) \/ PushCommitIndex(r) \/ RecordIndex(r)
  \/ FinishContainer(r) \/ PublishRelease(r) \/ RemoveImages(r)

RegistryStep(r) ==
  \/ Handoff(r) \/ Precheck(r) \/ PublishEntry(r) \/ VerifyEntry(r)
  \/ RegistryEnds(r) \/ RegistryRerun(r)

Next == (\E r \in Runs : ReleaseStep(r) \/ RegistryStep(r)) \/ Tick

Spec == Init /\ [][Next]_vars

----------------------------------------------------------------------------

Indexes == Seq(Descriptors) \cup {None}

RunRecords ==
  [status : {"none", "queued", "running", "failed", "success"},
   job : {"packages", "container", "release"},
   step : {"start", "amd64", "arm64", "check", "push", "verify", "attest", "refused"},
   pushed : 0 .. 6, build : Nat, digests : [Platforms -> PlatformImages \cup {None}],
   index : Indexes, output : Indexes, overnight : BOOLEAN]

TypeOK ==
  /\ gitTag \in [Versions -> Commits \cup {None}]
  /\ runs \in [Runs -> RunRecords]
  /\ DOMAIN directory = Runs /\ DOMAIN packages = Runs /\ DOMAIN evidence = Runs
  /\ \A r \in Runs : DOMAIN directory[r] \subseteq EvidenceFiles
  /\ \A r \in Runs : \A a \in packages[r] \cup evidence[r] : a.day \in 0 .. day
  /\ DOMAIN images = Refs
  /\ \A name \in Versions \cup Commits :
       /\ images[<<name, "index">>] \in Indexes
       /\ \A arch \in Platforms : images[<<name, arch>>] \in PlatformImages \cup {None}
  /\ DOMAIN releases = Versions /\ DOMAIN registry = Versions
  /\ \A v \in Versions : releases[v] # None =>
       releases[v].commit \in Commits /\ releases[v].index \in Indexes
  /\ {active, pending} \subseteq (Runs \X BOOLEAN) \cup {None}
  /\ phase \in {"idle", "handoff", "precheck", "publish", "verify"}
  /\ active = None <=> phase = "idle"
  /\ triggered \subseteq Runs
  /\ builds \in 0 .. MaxImageBuilds /\ day \in 0 .. MaxDay
  /\ approved \subseteq PlatformImages

\* What an installer is promised (Publication), with the image an installer
\* gets from the registry's entry found through the tag the entry names.
Abstract == INSTANCE Publication WITH
  image    <- [v \in Versions |-> images[<<v, "index">>]],
  released <- [v \in Versions |-> IF releases[v] = None THEN None ELSE releases[v].index],
  listed   <- [v \in Versions |->
                 IF registry[v] = None THEN None
                   ELSE images[<<registry[v].packages[1].image, "index">>]]

\* Tags of a version change only by being pushed once or withdrawn before the
\* release, and what the registry lists is at every later moment the image the
\* release states, whatever fails, is run again, moved or removed in between.
PublicationSafe == Abstract!Spec

\* If the image a release states is there, every tag of the release names a
\* part of it, and each platform's image is one whose scan passed.
ReleaseBacked ==
  \A v \in Versions : releases[v] # None /\ images[<<v, "index">>] = releases[v].index =>
    LET release == releases[v]
        digests == release.evidence[<<"index", "platforms">>].platforms
    IN /\ images[<<release.commit, "index">>] = release.index
       /\ \A name \in {v, release.commit}, arch \in Platforms :
            images[<<name, arch>>] = digests[arch]
       /\ {release.index[i].digest : i \in DOMAIN release.index} = Range(digests)
       /\ Range(digests) \subseteq approved

\* Each fixable high or critical finding in a release was reviewed recently:
\* the window, the midnight in the job and the evidence's retention, together,
\* bound the age of the review, although the release job reads only "passed".
ReviewsRecent ==
  \A v \in Versions : releases[v] # None =>
    \A arch \in Platforms : \A key \in releases[v].evidence[<<"policy", arch>>].approved :
      LET exceptions == ExceptionsOf[releases[v].commit]
      IN \E i \in DOMAIN exceptions :
           /\ exceptions[i].key = key
           /\ releases[v].day <= exceptions[i].reviewed + MaxWindow + 1 + Retention

\* Unpacking reads a name part by part: an empty one and "." stay, ".." goes up.
Descend(at, part) ==
  IF part \in {Empty, "."} THEN at
  ELSE IF part = ".." /\ at # <<>> /\ at[Len(at)] # ".." THEN Front(at)
  ELSE Append(at, part)

Walk(path) ==
  LET at[i \in 0 .. Len(path)] == IF i = 0 THEN <<>> ELSE Descend(at[i - 1], path[i])
  IN at

\* Where unpacking puts a member: a slash at the front is the file system's
\* root, and a backslash separates on some systems.
Landing(path) ==
  IF path[1] = Empty \/ Backslashed \in Range(path) THEN <<>> ELSE Walk(path)[Len(path)]

Confined(archive, roots) ==
  LET places == [i \in DOMAIN archive.members |-> Landing(archive.members[i].path)]
  IN /\ \A i \in DOMAIN places :
          places[i] # <<>> /\ places[i][1] \in roots /\ archive.members[i].type # "link"
     /\ IsInjective(places)

\* Unpacking what a release carries writes inside the directories of the
\* package only, and no member replaces another.
ExtractionConfined ==
  \A v \in Versions : releases[v] # None =>
    /\ Confined(releases[v].packages.wheel, {"module", "dist-info"})
    /\ Confined(releases[v].packages.sdist, {"root"})

\* A registry run that is about to publish does so for the first time, however
\* often runs were cancelled, failed after publishing or were started again.
NeverRepublished ==
  \A r \in Runs : active = <<r, TRUE>> /\ phase = "publish" => registry[Tag(r)] = None

\* docs/adr/0022: "Refuse to overwrite either image tag."
TagsImmutable ==
  [][\A ref \in Refs : images[ref] # None => images'[ref] \in {images[ref], None}]_images
=============================================================================
