---------------------------- MODULE ReleaseProofs ----------------------------
(***************************************************************************)
(* Theorems about ReleasePipeline, for any versions, commits, runs and     *)
(* bounds: type correctness, and, if the image registry answers, that no   *)
(* tag is overwritten and that the pipeline implements Publication.        *)
(***************************************************************************)
EXTENDS ReleasePipeline, TLAPS

----------------------------------------------------------------------------
\* Types.

\* The variables of the registry workflow, whose types go together.
RegistryTyped ==
  /\ {active, pending} \subseteq (Runs \X BOOLEAN) \cup {None}
  /\ phase \in {"idle", "handoff", "precheck", "publish", "verify"}
  /\ active = None <=> phase = "idle"
  /\ triggered \subseteq Runs

\* What a step needs to know of the run it is about.
LEMMA RunFacts ==
  ASSUME TypeOK, NEW r \in Runs
  PROVE  /\ Tag(r) \in Versions /\ Commit(r) \in Commits
         /\ r = <<Tag(r), Commit(r)>>
         /\ Tag(r) # Commit(r)
         /\ runs \in [Runs -> RunRecords]
         /\ runs[r] \in RunRecords
BY PipelineAssumption DEF PipelineAssumption, TypeOK, Tag, Commit

\* Of the records that replace a run's, each is one.
LEMMA RecordFacts ==
  ASSUME TypeOK, NEW r \in Runs
  PROVE  /\ NewRun \in RunRecords
         /\ \A status \in {"failed", "success"} : Ended(r, status) \in RunRecords
         /\ \A job \in {"packages", "container", "release"} : Started(r, job) \in RunRecords
<1>1. runs[r] \in RunRecords
  BY DEF TypeOK
<1>2. NewRun \in RunRecords
  BY DEF NewRun, NoDigests, RunRecords, Indexes
<1>3. ASSUME NEW status \in {"failed", "success"}
      PROVE  Ended(r, status) \in RunRecords
  BY <1>1, <1>2 DEF Ended, RunRecords, Indexes
<1>4. ASSUME NEW job \in {"packages", "container", "release"}
      PROVE  Started(r, job) \in RunRecords
  <2>1. (IF job = "release" THEN runs[r].output ELSE None) \in Indexes
    BY <1>1 DEF RunRecords, Indexes
  <2>2. QED
    BY <1>2, <2>1 DEF Started, RunRecords
<1>5. QED
  BY <1>2, <1>3, <1>4

\* A step that changes nothing but one run's record.
LEMMA TypeOfRun ==
  ASSUME TypeOK, NEW r \in Runs, NEW record \in RunRecords,
         runs' = [runs EXCEPT ![r] = record],
         UNCHANGED <<gitTag, directory, packages, evidence, images, releases, builds,
                     approved, registryVars, day>>
  PROVE  TypeOK'
<1>1. runs' \in [Runs -> RunRecords]
  BY RunFacts
<1>2. QED
  BY <1>1 DEF TypeOK, registryVars

LEMMA TypePushTag ==
  ASSUME TypeOK, NEW r \in Runs, PushTag(r)
  PROVE  TypeOK'
<1>1. [runs[r] EXCEPT !.status = "queued"] \in RunRecords
  BY RunFacts DEF RunRecords
<1>2. runs' \in [Runs -> RunRecords]
  BY <1>1, RunFacts DEF PushTag
<1>3. gitTag' \in [Versions -> Commits \cup {None}]
  BY RunFacts DEF PushTag, TypeOK
<1>4. QED
  BY <1>2, <1>3 DEF PushTag, TypeOK, registryVars

LEMMA TypeStart ==
  ASSUME TypeOK, NEW r \in Runs, NEW job \in {"packages", "container", "release"},
         Start(r, job)
  PROVE  TypeOK'
<1>1. Started(r, job) \in RunRecords
  BY RecordFacts
<1>2. QED
  BY <1>1, TypeOfRun DEF Start

LEMMA TypeTrigger ==
  ASSUME RegistryTyped, NEW r \in Runs, NEW success \in BOOLEAN, Trigger(r, success)
  PROVE  RegistryTyped'
BY PipelineAssumption DEF PipelineAssumption, Trigger, RegistryTyped

LEMMA TypeFail ==
  ASSUME TypeOK, NEW r \in Runs, Fail(r)
  PROVE  TypeOK'
<1>1. runs' \in [Runs -> RunRecords]
  BY RunFacts, RecordFacts DEF Fail
<1>2. RegistryTyped'
  BY TypeTrigger DEF Fail, TypeOK, RegistryTyped
<1>3. /\ DOMAIN directory' = Runs
      /\ \A s \in Runs : DOMAIN directory'[s] \subseteq EvidenceFiles
  BY DEF Fail, TypeOK
<1>4. /\ DOMAIN evidence' = Runs
      /\ \A s \in Runs : \A a \in packages'[s] \cup evidence'[s] : a.day \in 0 .. day'
  BY DEF Fail, TypeOK
<1>5. QED
  BY <1>1, <1>2, <1>3, <1>4 DEF Fail, TypeOK, RegistryTyped

LEMMA TypeBuildPackages ==
  ASSUME TypeOK, NEW r \in Runs, BuildPackages(r)
  PROVE  TypeOK'
<1>1. runs' \in [Runs -> RunRecords]
  BY RunFacts, RecordFacts DEF BuildPackages
<1>2. PICK files : packages' = [packages EXCEPT ![r] = @ \cup {[files |-> files, day |-> day]}]
  BY DEF BuildPackages
<1>3. /\ DOMAIN packages' = Runs
      /\ \A s \in Runs : \A a \in packages'[s] \cup evidence'[s] : a.day \in 0 .. day'
  BY <1>2 DEF BuildPackages, TypeOK
<1>4. QED
  BY <1>1, <1>3 DEF BuildPackages, TypeOK, registryVars

\* A step of one run that writes into its directory.
LEMMA TypeOfDirectory ==
  ASSUME TypeOK, NEW r \in Runs, NEW files, DOMAIN files \subseteq EvidenceFiles,
         directory' = [directory EXCEPT ![r] = files]
  PROVE  /\ DOMAIN directory' = Runs
         /\ \A s \in Runs : DOMAIN directory'[s] \subseteq EvidenceFiles
BY DEF TypeOK

LEMMA NumberedRecord ==
  ASSUME NEW record \in RunRecords, NEW n \in Nat
  PROVE  [record EXCEPT !.step = "amd64", !.build = n] \in RunRecords
BY DEF RunRecords

LEMMA TypeBuildImages ==
  ASSUME TypeOK, NEW r \in Runs, BuildImages(r)
  PROVE  TypeOK'
<1>1. builds' \in 0 .. MaxImageBuilds /\ builds + 1 \in Nat
  BY PipelineAssumption DEF PipelineAssumption, BuildImages, TypeOK
<1>2. [runs[r] EXCEPT !.step = "amd64", !.build = builds + 1] \in RunRecords
  BY <1>1, RunFacts, NumberedRecord
<1>3. runs' \in [Runs -> RunRecords]
  BY <1>2, RunFacts DEF BuildImages
<1>4. PICK sbom : directory' = [directory EXCEPT ![r] = Written(<<>>, <<"sbom", "source">>, sbom)]
  BY DEF BuildImages
<1>5. DOMAIN Written(<<>>, <<"sbom", "source">>, sbom) \subseteq EvidenceFiles
  <2>1. DOMAIN Written(<<>>, <<"sbom", "source">>, sbom) = {<<"sbom", "source">>}
    BY DEF Written
  <2>2. QED
    BY <2>1 DEF EvidenceFiles
<1>6. /\ DOMAIN directory' = Runs
      /\ \A s \in Runs : DOMAIN directory'[s] \subseteq EvidenceFiles
  BY <1>4, <1>5, TypeOfDirectory
<1>7. QED
  BY <1>1, <1>3, <1>6 DEF BuildImages, TypeOK, registryVars

LEMMA TypeScan ==
  ASSUME TypeOK, NEW r \in Runs, NEW arch \in Platforms, Scan(r, arch)
  PROVE  TypeOK'
<1>1. [runs[r] EXCEPT !.step = IF arch = "amd64" THEN "arm64" ELSE "check"] \in RunRecords
  BY RunFacts DEF RunRecords
<1>2. runs' \in [Runs -> RunRecords]
  BY <1>1, RunFacts DEF Scan
<1>3. PICK sbom, report, result :
        directory' = [directory EXCEPT ![r] =
          Written(Written(Written(@, <<"sbom", arch>>, sbom), <<"grype", arch>>, report),
                  <<"policy", arch>>, result)]
  BY DEF Scan
<1>4. DOMAIN Written(Written(Written(directory[r], <<"sbom", arch>>, sbom),
                             <<"grype", arch>>, report), <<"policy", arch>>, result)
        \subseteq EvidenceFiles
  <2>1. DOMAIN directory[r] \subseteq EvidenceFiles
    BY DEF TypeOK
  <2>2. {<<"sbom", arch>>, <<"grype", arch>>, <<"policy", arch>>} \subseteq EvidenceFiles
    BY DEF EvidenceFiles, Platforms
  <2>3. QED
    BY <2>1, <2>2 DEF Written
<1>5. /\ DOMAIN directory' = Runs
      /\ \A s \in Runs : DOMAIN directory'[s] \subseteq EvidenceFiles
  BY <1>3, <1>4, TypeOfDirectory
<1>6. approved' \subseteq PlatformImages
  BY RunFacts DEF Scan, TypeOK, PlatformImages, RunRecords
<1>7. QED
  BY <1>2, <1>5, <1>6 DEF Scan, TypeOK, registryVars

LEMMA TypeCheckRefs ==
  ASSUME TypeOK, NEW r \in Runs, CheckRefs(r)
  PROVE  TypeOK'
<1>1. [runs[r] EXCEPT !.step = "push"] \in RunRecords
  BY RunFacts DEF RunRecords
<1>2. QED
  BY <1>1, TypeOfRun DEF CheckRefs

\* Which tag a push writes.
LEMMA NextRef ==
  ASSUME NEW r
  PROVE  /\ runs[r].pushed = 0 => RefsOf(r)[runs[r].pushed + 1] = <<Tag(r), "amd64">>
         /\ runs[r].pushed = 1 => RefsOf(r)[runs[r].pushed + 1] = <<Commit(r), "amd64">>
         /\ runs[r].pushed = 2 => RefsOf(r)[runs[r].pushed + 1] = <<Tag(r), "arm64">>
         /\ runs[r].pushed = 3 => RefsOf(r)[runs[r].pushed + 1] = <<Commit(r), "arm64">>
         /\ runs[r].pushed = 4 => RefsOf(r)[runs[r].pushed + 1] = <<Tag(r), "index">>
         /\ runs[r].pushed = 5 => RefsOf(r)[runs[r].pushed + 1] = <<Commit(r), "index">>
BY DEF RefsOf

\* The records that a push leaves.
LEMMA PushedRecord ==
  ASSUME NEW record \in RunRecords, NEW k \in 0 .. 6
  PROVE  /\ [record EXCEPT !.pushed = k] \in RunRecords
         /\ \A index \in Indexes : [record EXCEPT !.pushed = k, !.index = index] \in RunRecords
         /\ \A step \in {record.step, "verify", "refused"} :
              [record EXCEPT !.pushed = k, !.step = step] \in RunRecords
BY DEF RunRecords

LEMMA ResolvedRecord ==
  ASSUME NEW record \in RunRecords, NEW k \in 0 .. 6, NEW arch \in Platforms,
         NEW digest \in PlatformImages \cup {None},
         NEW step \in {record.step, "verify", "refused"}
  PROVE  [record EXCEPT !.pushed = k, !.digests[arch] = digest, !.step = step] \in RunRecords
BY DEF RunRecords

\* A step of one run that pushes one tag.
LEMMA TypeOfPush ==
  ASSUME TypeOK, NEW r \in Runs, NEW record \in RunRecords, NEW name \in Versions \cup Commits,
         NEW kind \in Platforms \cup {"index"}, NEW digest,
         kind = "index" => digest \in Indexes,
         kind \in Platforms => digest \in PlatformImages,
         images' = [images EXCEPT ![<<name, kind>>] = digest],
         runs' = [runs EXCEPT ![r] = record],
         UNCHANGED <<gitTag, directory, packages, evidence, releases, builds, approved,
                     registryVars, day>>
  PROVE  TypeOK'
<1>1. runs' \in [Runs -> RunRecords]
  BY RunFacts
<1>2. "index" \notin Platforms
  BY DEF Platforms
<1>3. /\ DOMAIN images' = Refs
      /\ \A n \in Versions \cup Commits :
           /\ images'[<<n, "index">>] \in Indexes
           /\ \A arch \in Platforms : images'[<<n, arch>>] \in PlatformImages \cup {None}
  BY <1>2 DEF TypeOK, Refs
<1>4. QED
  BY <1>1, <1>3 DEF TypeOK, registryVars

LEMMA TypePushVersion ==
  ASSUME TypeOK, NEW r \in Runs, NEW arch \in Platforms, PushVersion(r, arch)
  PROVE  TypeOK'
<1> DEFINE k == runs[r].pushed + 1
           record == [runs[r] EXCEPT !.pushed = k]
<1>1. k \in 0 .. 6
  BY DEF PushVersion, Pushing
<1>2. record \in RunRecords
  BY <1>1, RunFacts, PushedRecord
<1>3. images' = [images EXCEPT ![<<Tag(r), arch>>] = <<runs[r].build, arch>>]
  BY NextRef DEF PushVersion, Pushing, Pushed, Platforms
<1>4. <<runs[r].build, arch>> \in PlatformImages
  BY RunFacts DEF RunRecords, PlatformImages
<1>5. runs' = [runs EXCEPT ![r] = record]
  BY DEF PushVersion
<1>6. "index" \notin Platforms
  BY DEF Platforms
<1>7. QED
  <2> HIDE DEF record
  <2> QED BY <1>2, <1>3, <1>4, <1>5, <1>6, RunFacts, TypeOfPush DEF PushVersion

LEMMA TypePushCommit ==
  ASSUME TypeOK, NEW r \in Runs, NEW arch \in Platforms, PushCommit(r, arch)
  PROVE  TypeOK'
<1> DEFINE k      == runs[r].pushed + 1
           digest == images'[<<Tag(r), arch>>]
           step   == IF images'[<<Commit(r), arch>>] = digest /\ digest # None
                       THEN runs[r].step ELSE "refused"
           record == [runs[r] EXCEPT !.pushed = k, !.digests[arch] = digest, !.step = step]
<1>1. k \in 0 .. 6 /\ step \in {runs[r].step, "verify", "refused"}
  BY DEF PushCommit, Pushing
<1>2. images' = [images EXCEPT ![<<Commit(r), arch>>] = <<runs[r].build, arch>>]
  BY NextRef DEF PushCommit, Pushing, Pushed, Platforms
<1>3. <<runs[r].build, arch>> \in PlatformImages
  BY RunFacts DEF RunRecords, PlatformImages
<1>4. digest \in PlatformImages \cup {None}
  <2>1. <<Tag(r), arch>> # <<Commit(r), arch>> /\ <<Tag(r), arch>> \in DOMAIN images
    BY RunFacts DEF TypeOK, Refs
  <2>2. digest = images[<<Tag(r), arch>>]
    BY <1>2, <2>1
  <2>3. QED
    BY <2>2, RunFacts DEF TypeOK
<1>5. runs' = [runs EXCEPT ![r] = record]
  <2>1. runs' = [runs EXCEPT ![r].pushed = k, ![r].digests[arch] = digest, ![r].step = step]
    BY DEF PushCommit
  <2>2. QED
    <3> HIDE DEF k, digest, step
    <3> QED BY <2>1, Zenon
<1>6. record \in RunRecords
  <2>1. runs[r] \in RunRecords /\ runs[r].index \in Indexes
    BY RunFacts DEF RunRecords
  <2>2. QED
    <3> HIDE DEF k, digest, step
    <3> QED BY <1>1, <1>4, <2>1, ResolvedRecord
<1>7. "index" \notin Platforms
  BY DEF Platforms
<1>8. QED
  <2> HIDE DEF record
  <2> QED BY <1>2, <1>3, <1>5, <1>6, <1>7, RunFacts, TypeOfPush DEF PushCommit

\* An index is a list of descriptors, with the attestation or without.
LEMMA MadeType ==
  ASSUME NEW digests \in [Platforms -> PlatformImages \cup {None}], NEW index \in Made(digests)
  PROVE  index \in Indexes
<1> DEFINE amd64 == [platform |-> "amd64", digest |-> digests["amd64"]]
           arm64 == [platform |-> "arm64", digest |-> digests["arm64"]]
           extra == [platform |-> "unknown", digest |-> digests["amd64"]]
<1>1. amd64 \in Descriptors /\ arm64 \in Descriptors /\ extra \in Descriptors
  BY DEF Descriptors, Platforms
<1>2. index \in {<<amd64, arm64>>, Append(<<amd64, arm64>>, extra)}
  BY DEF Made
<1>3. <<amd64, arm64>> \in Seq(Descriptors)
  BY <1>1
<1>4. Append(<<amd64, arm64>>, extra) \in Seq(Descriptors)
  <2> HIDE DEF amd64, arm64, extra
  <2> QED BY <1>1, <1>3
<1>5. QED
  BY <1>2, <1>3, <1>4 DEF Indexes

LEMMA TypePushVersionIndex ==
  ASSUME TypeOK, NEW r \in Runs, PushVersionIndex(r)
  PROVE  TypeOK'
<1>1. PICK index \in Made(runs[r].digests) :
        /\ Pushed(r, index)
        /\ runs' = [runs EXCEPT ![r].pushed = 5, ![r].index = index]
  BY DEF PushVersionIndex
<1> DEFINE record == [runs[r] EXCEPT !.pushed = 5, !.index = index]
<1>2. index \in Indexes
  BY RunFacts, MadeType DEF RunRecords
<1>3. images' = [images EXCEPT ![<<Tag(r), "index">>] = index]
  BY <1>1, NextRef DEF PushVersionIndex, Pushing, Pushed
<1>4. record \in RunRecords
  <2>1. runs[r] \in RunRecords /\ 5 \in 0 .. 6
    BY RunFacts
  <2>2. QED
    BY <1>2, <2>1, PushedRecord
<1>5. runs' = [runs EXCEPT ![r] = record]
  BY <1>1
<1>6. "index" \notin Platforms
  BY DEF Platforms
<1>7. QED
  <2> HIDE DEF record
  <2> QED BY <1>2, <1>3, <1>4, <1>5, <1>6, RunFacts, TypeOfPush DEF PushVersionIndex

LEMMA TypePushCommitIndex ==
  ASSUME TypeOK, NEW r \in Runs, PushCommitIndex(r)
  PROVE  TypeOK'
<1>1. PICK index \in Made(runs[r].digests) :
        /\ Pushed(r, index)
        /\ runs' = [runs EXCEPT ![r].pushed = 6,
             ![r].step = IF index = runs[r].index /\ index # None
                           THEN "verify" ELSE "refused"]
  BY DEF PushCommitIndex
<1> DEFINE step   == IF index = runs[r].index /\ index # None THEN "verify" ELSE "refused"
           record == [runs[r] EXCEPT !.pushed = 6, !.step = step]
<1>2. index \in Indexes
  BY RunFacts, MadeType DEF RunRecords
<1>3. images' = [images EXCEPT ![<<Commit(r), "index">>] = index]
  BY <1>1, NextRef DEF PushCommitIndex, Pushing, Pushed
<1>4. record \in RunRecords
  <2>1. runs[r] \in RunRecords /\ 6 \in 0 .. 6
    BY RunFacts
  <2>2. step \in {runs[r].step, "verify", "refused"}
    OBVIOUS
  <2>3. QED
    <3> HIDE DEF step
    <3> QED BY <2>1, <2>2, PushedRecord
<1>5. runs' = [runs EXCEPT ![r] = record]
  BY <1>1
<1>6. "index" \notin Platforms
  BY DEF Platforms
<1>7. QED
  <2> HIDE DEF record
  <2> QED BY <1>2, <1>3, <1>4, <1>5, <1>6, RunFacts, TypeOfPush DEF PushCommitIndex

LEMMA TypeRecordIndex ==
  ASSUME TypeOK, NEW r \in Runs, RecordIndex(r)
  PROVE  TypeOK'
<1>1. PICK records, index : directory' = [directory EXCEPT ![r] =
        Written(Written(@, <<"index", "platforms">>, records), <<"index", "digest">>, index)]
  BY DEF RecordIndex
<1>2. DOMAIN Written(Written(directory[r], <<"index", "platforms">>, records),
                     <<"index", "digest">>, index) \subseteq EvidenceFiles
  <2>1. DOMAIN directory[r] \subseteq EvidenceFiles
    BY DEF TypeOK
  <2>2. {<<"index", "platforms">>, <<"index", "digest">>} \subseteq EvidenceFiles
    BY DEF EvidenceFiles
  <2>3. QED
    BY <2>1, <2>2 DEF Written
<1>3. /\ DOMAIN directory' = Runs
      /\ \A s \in Runs : DOMAIN directory'[s] \subseteq EvidenceFiles
  BY <1>1, <1>2, TypeOfDirectory
<1>4. [runs[r] EXCEPT !.step = "attest"] \in RunRecords
  BY RunFacts DEF RunRecords
<1>5. runs' \in [Runs -> RunRecords]
  BY <1>4, RunFacts DEF RecordIndex
<1>6. QED
  BY <1>3, <1>5 DEF RecordIndex, TypeOK, registryVars

LEMMA TypeFinishContainer ==
  ASSUME TypeOK, NEW r \in Runs, FinishContainer(r)
  PROVE  TypeOK'
<1>1. runs[r].index \in Indexes /\ Started(r, "release") \in RunRecords
  BY RunFacts, RecordFacts DEF RunRecords
<1>2. [Started(r, "release") EXCEPT !.output = runs[r].index] \in RunRecords
  BY <1>1 DEF RunRecords
<1>3. runs' \in [Runs -> RunRecords]
  BY <1>2, RunFacts DEF FinishContainer
<1>4. /\ DOMAIN directory' = Runs
      /\ \A s \in Runs : DOMAIN directory'[s] \subseteq EvidenceFiles
  BY DEF FinishContainer, TypeOK
<1>5. /\ DOMAIN evidence' = Runs
      /\ \A s \in Runs : \A a \in packages'[s] \cup evidence'[s] : a.day \in 0 .. day'
  BY DEF FinishContainer, TypeOK
<1>6. QED
  BY <1>3, <1>4, <1>5 DEF FinishContainer, TypeOK, registryVars

LEMMA TypePublishRelease ==
  ASSUME TypeOK, NEW r \in Runs, PublishRelease(r)
  PROVE  TypeOK'
<1>1. runs' \in [Runs -> RunRecords]
  BY RunFacts, RecordFacts DEF PublishRelease
<1>2. RegistryTyped'
  BY TypeTrigger DEF PublishRelease, TypeOK, RegistryTyped
<1>3. /\ DOMAIN releases' = Versions
      /\ \A v \in Versions : releases'[v] # None =>
           releases'[v].commit \in Commits /\ releases'[v].index \in Indexes
  <2>1. Commit(r) \in Commits /\ runs[r].output \in Indexes
    BY RunFacts DEF RunRecords
  <2>2. PICK p, e : releases' = [releases EXCEPT ![Tag(r)] =
          [commit |-> Commit(r), index |-> runs[r].output, packages |-> p.files,
           evidence |-> e.files, day |-> day]]
    BY DEF PublishRelease
  <2>3. QED
    BY <2>1, <2>2 DEF TypeOK
<1>4. QED
  BY <1>1, <1>2, <1>3 DEF PublishRelease, TypeOK, RegistryTyped

LEMMA TypeRemoveImages ==
  ASSUME TypeOK, NEW r \in Runs, RemoveImages(r)
  PROVE  TypeOK'
<1>1. /\ DOMAIN images' = Refs
      /\ \A n \in Versions \cup Commits :
           /\ images'[<<n, "index">>] \in Indexes
           /\ \A arch \in Platforms : images'[<<n, arch>>] \in PlatformImages \cup {None}
  BY DEF RemoveImages, TypeOK, Refs, Indexes
<1>2. QED
  BY <1>1 DEF RemoveImages, TypeOK, registryVars

\* A step that changes nothing but the registry workflow's variables.
LEMMA TypeOfRegistry ==
  ASSUME TypeOK, RegistryTyped', DOMAIN registry' = Versions, UNCHANGED <<releaseVars, day>>
  PROVE  TypeOK'
BY DEF TypeOK, RegistryTyped, releaseVars

LEMMA TypeRegistryStep ==
  ASSUME TypeOK, NEW r \in Runs, RegistryStep(r)
  PROVE  TypeOK'
<1>1. RegistryTyped /\ DOMAIN registry = Versions
  BY DEF TypeOK, RegistryTyped
<1>2. None \notin Runs \X BOOLEAN
  BY PipelineAssumption DEF PipelineAssumption
<1>3. CASE Handoff(r)
  BY <1>1, <1>2, <1>3, TypeOfRegistry DEF Handoff, At, RegistryTyped
<1>4. CASE Precheck(r)
  BY <1>1, <1>2, <1>4, TypeOfRegistry DEF Precheck, At, RegistryTyped
<1>5. CASE PublishEntry(r)
  BY <1>1, <1>2, <1>5, TypeOfRegistry DEF PublishEntry, Finished, At, RegistryTyped
<1>6. CASE VerifyEntry(r)
  BY <1>1, <1>2, <1>6, TypeOfRegistry DEF VerifyEntry, Finished, At, RegistryTyped
<1>7. CASE RegistryEnds(r)
  BY <1>1, <1>2, <1>7, TypeOfRegistry DEF RegistryEnds, Finished, RegistryTyped
<1>8. CASE RegistryRerun(r)
  BY <1>1, <1>8, TypeTrigger, TypeOfRegistry DEF RegistryRerun
<1>9. QED
  BY <1>3, <1>4, <1>5, <1>6, <1>7, <1>8 DEF RegistryStep

LEMMA TypeTick ==
  ASSUME TypeOK, Tick
  PROVE  TypeOK'
<1>1. day' \in 0 .. MaxDay
  BY PipelineAssumption DEF PipelineAssumption, Tick, TypeOK
<1>2. runs' \in [Runs -> RunRecords]
  <2>1. ASSUME NEW r \in Runs
        PROVE  [runs[r] EXCEPT !.overnight = InContainer(r)] \in RunRecords
    <3>1. runs[r] \in RunRecords
      BY RunFacts
    <3>2. InContainer(r) \in BOOLEAN
      BY DEF InContainer
    <3>3. QED
      BY <3>1, <3>2 DEF RunRecords
  <2>2. QED
    BY <2>1 DEF Tick
<1>3. /\ DOMAIN packages' = Runs /\ DOMAIN evidence' = Runs
      /\ \A r \in Runs : \A a \in packages'[r] \cup evidence'[r] : a.day \in 0 .. day'
  <2>1. \A r \in Runs : packages'[r] \subseteq packages[r] /\ evidence'[r] \subseteq evidence[r]
    BY DEF Tick, Kept
  <2>2. \A d \in 0 .. day : d \in 0 .. day'
    BY DEF Tick, TypeOK
  <2>3. QED
    BY <2>1, <2>2 DEF Tick, TypeOK
<1>4. QED
  BY <1>1, <1>2, <1>3 DEF Tick, TypeOK, registryVars

LEMMA TypeReleaseStep ==
  ASSUME TypeOK, NEW r \in Runs, ReleaseStep(r)
  PROVE  TypeOK'
BY TypePushTag, TypeStart, TypeFail, TypeBuildPackages, TypeBuildImages, TypeScan,
   TypeCheckRefs, TypePushVersion, TypePushCommit, TypePushVersionIndex,
   TypePushCommitIndex, TypeRecordIndex, TypeFinishContainer, TypePublishRelease,
   TypeRemoveImages
   DEF ReleaseStep

LEMMA TypeInit == Init => TypeOK
<1> SUFFICES ASSUME Init PROVE TypeOK
  OBVIOUS
<1>1. runs \in [Runs -> RunRecords]
  BY DEF Init, NewRun, NoDigests, RunRecords, Indexes
<1>2. /\ \A r \in Runs : DOMAIN directory[r] \subseteq EvidenceFiles
      /\ \A r \in Runs : \A a \in packages[r] \cup evidence[r] : a.day \in 0 .. day
  BY DEF Init
<1>3. /\ DOMAIN images = Refs
      /\ \A name \in Versions \cup Commits :
           /\ images[<<name, "index">>] \in Indexes
           /\ \A arch \in Platforms : images[<<name, arch>>] \in PlatformImages \cup {None}
  BY DEF Init, Refs, Indexes
<1>4. builds \in 0 .. MaxImageBuilds /\ day \in 0 .. MaxDay
  BY PipelineAssumption DEF PipelineAssumption, Init
<1>5. QED
  BY <1>1, <1>2, <1>3, <1>4 DEF Init, TypeOK

LEMMA TypeNext == TypeOK /\ [Next]_vars => TypeOK'
<1> SUFFICES ASSUME TypeOK, [Next]_vars PROVE TypeOK'
  OBVIOUS
<1>1. CASE Next
  BY <1>1, TypeReleaseStep, TypeRegistryStep, TypeTick DEF Next
<1>2. CASE UNCHANGED vars
  BY <1>2 DEF TypeOK, vars, releaseVars, registryVars, InContainer
<1>3. QED
  BY <1>1, <1>2

\* Every variable of the release workflows keeps its type (TypeOK of the
\* release_pipeline run).
THEOREM TypeCorrect == Spec => []TypeOK
BY TypeInit, TypeNext, PTL DEF Spec

----------------------------------------------------------------------------
\* Runs: one of a tag at a time, of the commit whose version the tag names,
\* and what a run has written down exists.

OneRunPerTag ==
  \A r, s \in Runs :
    runs[r].status = "running" /\ runs[s].status = "running" /\ Tag(r) = Tag(s) => r = s

Identified ==
  \A r \in Runs : runs[r].job # "packages" => VersionOf[Commit(r)] = Tag(r)

Recorded ==
  \A r \in Runs :
    /\ runs[r].step \in {"verify", "attest"} => runs[r].index # None
    /\ runs[r].job = "release" => runs[r].output # None

RunsInv == OneRunPerTag /\ Identified /\ Recorded

\* What a step of one run has to respect.
LEMMA RunsStep ==
  ASSUME RunsInv, NEW r \in Runs, \A s \in Runs \ {r} : runs'[s] = runs[s],
         runs'[r].status = "running" => runs[r].status = "running" \/ GroupFree(r),
         runs'[r].job # "packages" => runs[r].job # "packages" \/ VersionOf[Commit(r)] = Tag(r),
         runs'[r].step \in {"verify", "attest"} => runs'[r].index # None,
         runs'[r].job = "release" => runs'[r].output # None
  PROVE  RunsInv'
<1>1. OneRunPerTag'
  BY DEF RunsInv, OneRunPerTag, GroupFree, Tag
<1>2. Identified'
  BY DEF RunsInv, Identified, Tag, Commit
<1>3. Recorded'
  BY DEF RunsInv, Recorded
<1>4. QED
  BY <1>1, <1>2, <1>3 DEF RunsInv

LEMMA RunsReleaseStep ==
  ASSUME TypeOK, RunsInv, NEW r \in Runs, ReleaseStep(r)
  PROVE  RunsInv'
<1>1. runs \in [Runs -> RunRecords] /\ runs[r] \in RunRecords
  BY RunFacts
<1>2. /\ runs[r].job # "packages" => VersionOf[Commit(r)] = Tag(r)
      /\ runs[r].step \in {"verify", "attest"} => runs[r].index # None
      /\ runs[r].job = "release" => runs[r].output # None
  BY DEF RunsInv, Identified, Recorded
<1>3. CASE PushTag(r)
  <2>1. runs' = [runs EXCEPT ![r].status = "queued"]
    BY <1>3 DEF PushTag
  <2>2. QED
    BY <1>1, <1>2, <2>1, RunsStep DEF RunRecords
<1>4. ASSUME NEW job \in {"packages", "container", "release"}, Start(r, job) PROVE RunsInv'
  <2>1. runs' = [runs EXCEPT ![r] = Started(r, job)] /\ GroupFree(r)
    BY <1>4 DEF Start
  <2>2. job # "packages" => job = runs[r].job
    BY <1>4 DEF Start
  <2>3. /\ Started(r, job).job = job /\ Started(r, job).step = "start"
        /\ job = "release" => Started(r, job).output = runs[r].output
    BY DEF Started, NewRun
  <2>4. QED
    BY <1>1, <1>2, <2>1, <2>2, <2>3, RunsStep
<1>5. ASSUME NEW status \in {"failed", "success"}, runs' = [runs EXCEPT ![r] = Ended(r, status)]
      PROVE  RunsInv'
  <2>1. /\ Ended(r, status).status = status /\ Ended(r, status).job = runs[r].job
        /\ Ended(r, status).step = "start" /\ Ended(r, status).output = runs[r].output
    BY DEF Ended, NewRun
  <2>2. QED
    BY <1>1, <1>2, <1>5, <2>1, RunsStep
<1>6. CASE Fail(r) \/ PublishRelease(r)
  BY <1>5, <1>6 DEF Fail, PublishRelease
<1>7. CASE BuildPackages(r)
  <2>1. runs' = [runs EXCEPT ![r] = Started(r, "container")] /\ runs[r].status = "running"
    BY <1>7 DEF BuildPackages, InJob
  <2>2. VersionOf[Commit(r)] = Tag(r)
    BY <1>7 DEF BuildPackages, Prepared
  <2>3. Started(r, "container").job = "container" /\ Started(r, "container").step = "start"
    BY DEF Started, NewRun
  <2>4. QED
    BY <1>1, <2>1, <2>2, <2>3, RunsStep
<1>8. CASE BuildImages(r)
  <2>1. /\ runs' = [runs EXCEPT ![r].step = "amd64", ![r].build = builds + 1]
        /\ runs[r].status = "running" /\ runs[r].job = "container"
    BY <1>8 DEF BuildImages, InJob
  <2>2. QED
    BY <1>1, <1>2, <2>1, RunsStep DEF RunRecords
<1>9. ASSUME NEW arch \in Platforms, Scan(r, arch) PROVE RunsInv'
  <2>1. /\ runs' = [runs EXCEPT ![r].step = IF arch = "amd64" THEN "arm64" ELSE "check"]
        /\ runs[r].status = "running" /\ runs[r].job = "container"
    BY <1>9 DEF Scan, InJob
  <2>2. QED
    BY <1>1, <1>2, <2>1, RunsStep DEF RunRecords
<1>10. CASE CheckRefs(r)
  <2>1. /\ runs' = [runs EXCEPT ![r].step = "push"]
        /\ runs[r].status = "running" /\ runs[r].job = "container"
    BY <1>10 DEF CheckRefs, InJob
  <2>2. QED
    BY <1>1, <1>2, <2>1, RunsStep DEF RunRecords
<1>11. ASSUME NEW arch \in Platforms, PushVersion(r, arch) PROVE RunsInv'
  <2>1. /\ runs' = [runs EXCEPT ![r].pushed = @ + 1]
        /\ runs[r].status = "running" /\ runs[r].job = "container"
    BY <1>11 DEF PushVersion, Pushing, InJob
  <2>2. QED
    BY <1>1, <1>2, <2>1, RunsStep DEF RunRecords
<1>12. ASSUME NEW arch \in Platforms, PushCommit(r, arch) PROVE RunsInv'
  <2>1. PICK digest, step :
          runs' = [runs EXCEPT ![r].pushed = @ + 1, ![r].digests[arch] = digest,
                               ![r].step = IF step THEN @ ELSE "refused"]
    BY <1>12 DEF PushCommit
  <2>2. runs[r].status = "running" /\ runs[r].job = "container"
    BY <1>12 DEF PushCommit, Pushing, InJob
  <2>3. QED
    BY <1>1, <1>2, <2>1, <2>2, RunsStep DEF RunRecords
<1>13. CASE PushVersionIndex(r)
  <2>1. PICK index : runs' = [runs EXCEPT ![r].pushed = 5, ![r].index = index]
    BY <1>13 DEF PushVersionIndex
  <2>2. runs[r].status = "running" /\ runs[r].job = "container" /\ runs[r].step = "push"
    BY <1>13 DEF PushVersionIndex, Pushing, InJob
  <2>3. QED
    BY <1>1, <1>2, <2>1, <2>2, RunsStep DEF RunRecords
<1>14. CASE PushCommitIndex(r)
  <2>1. PICK index :
          runs' = [runs EXCEPT ![r].pushed = 6,
                     ![r].step = IF index = runs[r].index /\ index # None
                                   THEN "verify" ELSE "refused"]
    BY <1>14 DEF PushCommitIndex
  <2>2. runs[r].status = "running" /\ runs[r].job = "container"
    BY <1>14 DEF PushCommitIndex, Pushing, InJob
  <2>3. QED
    BY <1>1, <1>2, <2>1, <2>2, RunsStep DEF RunRecords
<1>15. CASE RecordIndex(r)
  <2>1. /\ runs' = [runs EXCEPT ![r].step = "attest"]
        /\ runs[r].status = "running" /\ runs[r].job = "container" /\ runs[r].step = "verify"
    BY <1>15 DEF RecordIndex, InJob
  <2>2. QED
    BY <1>1, <1>2, <2>1, RunsStep DEF RunRecords
<1>16. CASE FinishContainer(r)
  <2>1. /\ runs' = [runs EXCEPT ![r] = [Started(r, "release") EXCEPT !.output = runs[r].index]]
        /\ runs[r].status = "running" /\ runs[r].job = "container" /\ runs[r].step = "attest"
    BY <1>16 DEF FinishContainer, InJob
  <2>2. Started(r, "release") \in RunRecords /\ Started(r, "release").step = "start"
    BY RecordFacts DEF Started, NewRun
  <2>3. QED
    BY <1>1, <1>2, <2>1, <2>2, RunsStep DEF RunRecords
<1>17. CASE RemoveImages(r)
  BY <1>17 DEF RemoveImages, RunsInv, OneRunPerTag, Identified, Recorded, Tag, Commit
<1>18. QED
  BY <1>3, <1>4, <1>6, <1>7, <1>8, <1>9, <1>10, <1>11, <1>12, <1>13, <1>14, <1>15,
     <1>16, <1>17 DEF ReleaseStep

LEMMA RunsTick ==
  ASSUME TypeOK, RunsInv, Tick
  PROVE  RunsInv'
<1>1. \A r \in Runs : /\ runs'[r].status = runs[r].status /\ runs'[r].job = runs[r].job
                      /\ runs'[r].step = runs[r].step /\ runs'[r].index = runs[r].index
                      /\ runs'[r].output = runs[r].output
  BY RunFacts DEF Tick, RunRecords
<1>2. QED
  BY <1>1 DEF RunsInv, OneRunPerTag, Identified, Recorded, Tag, Commit

LEMMA RunsInit == Init => RunsInv
BY DEF Init, NewRun, RunsInv, OneRunPerTag, Identified, Recorded

LEMMA RunsNext == TypeOK /\ RunsInv /\ [Next]_vars => RunsInv'
<1> SUFFICES ASSUME TypeOK, RunsInv, [Next]_vars PROVE RunsInv'
  OBVIOUS
<1>1. CASE \E r \in Runs : ReleaseStep(r)
  BY <1>1, RunsReleaseStep
<1>2. CASE Tick
  BY <1>2, RunsTick
<1>3. CASE UNCHANGED runs
  BY <1>3 DEF RunsInv, OneRunPerTag, Identified, Recorded, Tag, Commit
<1>4. ASSUME NEW r \in Runs, RegistryStep(r) PROVE UNCHANGED runs
  BY <1>4 DEF RegistryStep, Handoff, Precheck, PublishEntry, VerifyEntry, RegistryEnds,
     RegistryRerun, releaseVars
<1>5. QED
  BY <1>1, <1>2, <1>3, <1>4 DEF Next, vars, releaseVars

----------------------------------------------------------------------------
\* Tags: what a run has still to push is free, if the registry of images
\* answers when it is asked.

AheadFree ==
  \A r \in Runs : InJob(r, "container", "push") =>
    \A i \in runs[r].pushed + 1 .. 6 : images[RefsOf(r)[i]] = None

\* Different runs that are both in the container job push different tags, and
\* no run pushes one twice.
LEMMA RefsApart ==
  ASSUME TypeOK, RunsInv, NEW r \in Runs, NEW s \in Runs, InContainer(r), InContainer(s),
         NEW i \in 1 .. 6, NEW j \in 1 .. 6, RefsOf(r)[i] = RefsOf(s)[j]
  PROVE  r = s /\ i = j
<1>1. /\ Tag(r) \in Versions /\ Commit(r) \in Commits
      /\ Tag(s) \in Versions /\ Commit(s) \in Commits
      /\ Versions \cap Commits = {}
  BY RunFacts, PipelineAssumption DEF PipelineAssumption
<1>2. Tag(r) # Commit(s) /\ Commit(r) # Tag(s)
  BY <1>1
<1>3. i = j /\ (Tag(r) = Tag(s) \/ Commit(r) = Commit(s))
  BY <1>2 DEF RefsOf
<1>4. Tag(r) = Tag(s)
  BY <1>3 DEF InContainer, RunsInv, Identified
<1>5. QED
  BY <1>3, <1>4 DEF InContainer, RunsInv, OneRunPerTag

LEMMA RefsTyped ==
  ASSUME TypeOK, NEW r \in Runs, NEW i \in 1 .. 6
  PROVE  RefsOf(r)[i] \in DOMAIN images
BY RunFacts DEF TypeOK, RefsOf, Refs, Platforms

\* A step of one run that pushes nothing.
LEMMA AheadStep ==
  ASSUME AheadFree, NEW r \in Runs, \A s \in Runs \ {r} : runs'[s] = runs[s],
         UNCHANGED images,
         InJob(r, "container", "push")' =>
           \A i \in runs'[r].pushed + 1 .. 6 : images[RefsOf(r)[i]] = None
  PROVE  AheadFree'
BY DEF AheadFree, InJob, RefsOf, Tag, Commit

Push(r) ==
  \/ \E arch \in Platforms : PushVersion(r, arch) \/ PushCommit(r, arch)
  \/ PushVersionIndex(r) \/ PushCommitIndex(r)

\* What every push does.
LEMMA PushFacts ==
  ASSUME TypeOK, NEW r \in Runs, Push(r)
  PROVE  /\ InJob(r, "container", "push") /\ runs[r].pushed \in 0 .. 5
         /\ runs'[r].pushed = runs[r].pushed + 1
         /\ \A s \in Runs \ {r} : runs'[s] = runs[s]
         /\ \E digest : images' = [images EXCEPT ![RefsOf(r)[runs[r].pushed + 1]] = digest]
         /\ UNCHANGED <<releases, registry, active, phase>>
<1>1. runs \in [Runs -> RunRecords] /\ runs[r] \in RunRecords
  BY RunFacts
<1>2. InJob(r, "container", "push") /\ runs[r].pushed \in 0 .. 5
  <2>1. ASSUME NEW arch \in Platforms, PushVersion(r, arch) \/ PushCommit(r, arch) PROVE <1>2
    BY <2>1 DEF PushVersion, PushCommit, Pushing
  <2>2. CASE PushVersionIndex(r) \/ PushCommitIndex(r)
    BY <2>2 DEF PushVersionIndex, PushCommitIndex, Pushing
  <2>3. QED
    BY <2>1, <2>2 DEF Push
<1>3. \E digest : images' = [images EXCEPT ![RefsOf(r)[runs[r].pushed + 1]] = digest]
  BY DEF Push, PushVersion, PushCommit, PushVersionIndex, PushCommitIndex, Pushed
<1>4. UNCHANGED <<releases, registry, active, phase>>
  BY DEF Push, PushVersion, PushCommit, PushVersionIndex, PushCommitIndex, registryVars
<1>5. /\ runs'[r].pushed = runs[r].pushed + 1
      /\ \A s \in Runs \ {r} : runs'[s] = runs[s]
  <2>1. ASSUME NEW arch \in Platforms, PushVersion(r, arch) PROVE <1>5
    BY <1>1, <2>1 DEF PushVersion, RunRecords
  <2>2. ASSUME NEW arch \in Platforms, PushCommit(r, arch) PROVE <1>5
    <3>1. PICK digest, step :
            runs' = [runs EXCEPT ![r].pushed = @ + 1, ![r].digests[arch] = digest,
                                 ![r].step = IF step THEN @ ELSE "refused"]
      BY <2>2 DEF PushCommit
    <3>2. QED
      BY <1>1, <3>1 DEF RunRecords
  <2>3. CASE PushVersionIndex(r)
    BY <1>1, <2>3 DEF PushVersionIndex, Pushing, RunRecords
  <2>4. CASE PushCommitIndex(r)
    BY <1>1, <2>4 DEF PushCommitIndex, Pushing, RunRecords
  <2>5. QED
    BY <2>1, <2>2, <2>3, <2>4 DEF Push
<1>6. QED
  BY <1>2, <1>3, <1>4, <1>5

LEMMA AheadPush ==
  ASSUME TypeOK, RunsInv, AheadFree, NEW r \in Runs, Push(r)
  PROVE  /\ AheadFree'
         /\ \A ref \in Refs : images[ref] # None => images'[ref] = images[ref]
<1> DEFINE next == runs[r].pushed + 1
<1>1. /\ InJob(r, "container", "push") /\ next \in 1 .. 6 /\ runs'[r].pushed = next
      /\ \A s \in Runs \ {r} : runs'[s] = runs[s]
  BY PushFacts
<1>2. PICK digest : images' = [images EXCEPT ![RefsOf(r)[next]] = digest]
  BY PushFacts
<1>3. images[RefsOf(r)[next]] = None
  BY <1>1 DEF AheadFree
<1>4. ASSUME NEW s \in Runs, InJob(s, "container", "push")',
             NEW i \in runs'[s].pushed + 1 .. 6
      PROVE  images'[RefsOf(s)[i]] = None
  <2>1. InJob(s, "container", "push") /\ runs[s].pushed \in 0 .. 6
    BY <1>1, <1>4, RunFacts DEF InJob, RunRecords
  <2>2. i \in runs[s].pushed + 1 .. 6 /\ i \in 1 .. 6 /\ (s = r => i # next)
    BY <1>1, <1>4, <2>1
  <2>3. images[RefsOf(s)[i]] = None
    BY <2>1, <2>2 DEF AheadFree
  <2>4. RefsOf(s)[i] # RefsOf(r)[next]
    <3>1. InContainer(r) /\ InContainer(s)
      BY <1>1, <2>1 DEF InJob, InContainer
    <3>2. QED
      <4> HIDE DEF next
      <4> QED BY <1>1, <2>2, <3>1, RefsApart
  <2>5. QED
    BY <1>2, <2>2, <2>3, <2>4, RefsTyped
<1>5. AheadFree'
  BY <1>4 DEF AheadFree, RefsOf, Tag, Commit
<1>6. \A ref \in Refs : images[ref] # None => images'[ref] = images[ref]
  BY <1>2, <1>3 DEF TypeOK
<1>7. QED
  BY <1>5, <1>6

LEMMA AheadReleaseStep ==
  ASSUME InspectReliable, TypeOK, RunsInv, AheadFree, NEW r \in Runs, ReleaseStep(r)
  PROVE  AheadFree'
<1>1. runs \in [Runs -> RunRecords] /\ runs[r] \in RunRecords
  BY RunFacts
<1>2. CASE PushTag(r)
  BY <1>1, <1>2, AheadStep DEF PushTag, InJob, RunRecords
<1>3. ASSUME NEW job \in {"packages", "container", "release"}, Start(r, job) PROVE AheadFree'
  <2>1. runs' = [runs EXCEPT ![r] = Started(r, job)] /\ UNCHANGED images
    BY <1>3 DEF Start
  <2>2. Started(r, job).step = "start"
    BY DEF Started, NewRun
  <2>3. QED
    BY <1>1, <2>1, <2>2, AheadStep DEF InJob
<1>4. CASE Fail(r) \/ PublishRelease(r)
  <2>1. PICK status : runs' = [runs EXCEPT ![r] = Ended(r, status)] /\ UNCHANGED images
    BY <1>4 DEF Fail, PublishRelease
  <2>2. Ended(r, status).step = "start"
    BY DEF Ended, NewRun
  <2>3. QED
    BY <1>1, <2>1, <2>2, AheadStep DEF InJob
<1>5. CASE BuildPackages(r)
  <2>1. runs' = [runs EXCEPT ![r] = Started(r, "container")] /\ UNCHANGED images
    BY <1>5 DEF BuildPackages
  <2>2. Started(r, "container").step = "start"
    BY DEF Started, NewRun
  <2>3. QED
    BY <1>1, <2>1, <2>2, AheadStep DEF InJob
<1>6. CASE BuildImages(r)
  <2>1. /\ runs' = [runs EXCEPT ![r].step = "amd64", ![r].build = builds + 1]
        /\ UNCHANGED images
    BY <1>6 DEF BuildImages
  <2>2. QED
    BY <1>1, <2>1, AheadStep DEF InJob, RunRecords
<1>7. ASSUME NEW arch \in Platforms, Scan(r, arch) PROVE AheadFree'
  <2>1. /\ runs' = [runs EXCEPT ![r].step = IF arch = "amd64" THEN "arm64" ELSE "check"]
        /\ UNCHANGED images
    BY <1>7 DEF Scan
  <2>2. QED
    BY <1>1, <2>1, AheadStep DEF InJob, RunRecords
<1>8. CASE CheckRefs(r)
  <2>1. /\ runs' = [runs EXCEPT ![r].step = "push"] /\ UNCHANGED images
        /\ \A i \in 1 .. 6 : images[RefsOf(r)[i]] = None
    BY <1>8 DEF CheckRefs
  <2>2. runs'[r].pushed \in 0 .. 6 /\ \A s \in Runs \ {r} : runs'[s] = runs[s]
    BY <1>1, <2>1 DEF RunRecords
  <2>3. QED
    BY <2>1, <2>2, AheadStep
<1>9. CASE Push(r)
  BY <1>9, AheadPush
<1>10. CASE RecordIndex(r)
  <2>1. runs' = [runs EXCEPT ![r].step = "attest"] /\ UNCHANGED images
    BY <1>10 DEF RecordIndex
  <2>2. QED
    BY <1>1, <2>1, AheadStep DEF InJob, RunRecords
<1>11. CASE FinishContainer(r)
  <2>1. /\ runs' = [runs EXCEPT ![r] = [Started(r, "release") EXCEPT !.output = runs[r].index]]
        /\ UNCHANGED images
    BY <1>11 DEF FinishContainer
  <2>2. Started(r, "release") \in RunRecords /\ Started(r, "release").step = "start"
    BY RecordFacts DEF Started, NewRun
  <2>3. QED
    BY <1>1, <2>1, <2>2, AheadStep DEF InJob, RunRecords
<1>12. CASE RemoveImages(r)
  <2>1. UNCHANGED runs /\ \A ref \in Refs : images[ref] = None => images'[ref] = None
    BY <1>12 DEF RemoveImages
  <2>2. \A s \in Runs : runs[s].pushed \in 0 .. 6
    BY RunFacts DEF RunRecords
  <2>3. \A s \in Runs : \A i \in 1 .. 6 : RefsOf(s)[i] \in Refs
    BY RefsTyped DEF TypeOK
  <2>4. \A s \in Runs : \A i \in runs[s].pushed + 1 .. 6 : i \in 1 .. 6
    BY <2>2
  <2>5. QED
    BY <2>1, <2>3, <2>4 DEF AheadFree, InJob, RefsOf, Tag, Commit
<1>13. QED
  BY <1>2, <1>3, <1>4, <1>5, <1>6, <1>7, <1>8, <1>9, <1>10, <1>11, <1>12
     DEF ReleaseStep, Push

LEMMA AheadInit == Init => AheadFree
BY DEF Init, NewRun, AheadFree, InJob

LEMMA AheadNext ==
  ASSUME InspectReliable, TypeOK, RunsInv, AheadFree, [Next]_vars
  PROVE  AheadFree'
<1>1. CASE \E r \in Runs : ReleaseStep(r)
  BY <1>1, AheadReleaseStep
<1>2. CASE Tick
  <2>1. \A r \in Runs : /\ runs'[r].status = runs[r].status /\ runs'[r].job = runs[r].job
                        /\ runs'[r].step = runs[r].step /\ runs'[r].pushed = runs[r].pushed
    BY <1>2, RunFacts DEF Tick, RunRecords
  <2>2. UNCHANGED images
    BY <1>2 DEF Tick
  <2>3. QED
    BY <2>1, <2>2 DEF AheadFree, InJob, RefsOf, Tag, Commit
<1>3. CASE UNCHANGED <<runs, images>>
  BY <1>3 DEF AheadFree, InJob, RefsOf, Tag, Commit
<1>4. ASSUME NEW r \in Runs, RegistryStep(r) PROVE UNCHANGED <<runs, images>>
  BY <1>4 DEF RegistryStep, Handoff, Precheck, PublishEntry, VerifyEntry, RegistryEnds,
     RegistryRerun, releaseVars
<1>5. QED
  BY <1>1, <1>2, <1>3, <1>4 DEF Next, vars, releaseVars

\* What a step may do to the tags and to the releases.
LEMMA TagsStep ==
  ASSUME InspectReliable, TypeOK, RunsInv, AheadFree, [Next]_vars
  PROVE  /\ \A ref \in Refs : images[ref] # None =>
              \/ images'[ref] = images[ref]
              \/ images'[ref] = None /\ (ref[1] \in Versions => releases[ref[1]] = None)
         /\ \A v \in Versions : releases[v] # None => releases'[v] = releases[v]
<1> DEFINE Goal == /\ \A ref \in Refs : images[ref] # None =>
                        \/ images'[ref] = images[ref]
                        \/ images'[ref] = None /\ (ref[1] \in Versions => releases[ref[1]] = None)
                   /\ \A v \in Versions : releases[v] # None => releases'[v] = releases[v]
<1>1. ASSUME NEW r \in Runs, Push(r) PROVE Goal
  BY <1>1, AheadPush, PushFacts
<1>2. ASSUME NEW r \in Runs, RemoveImages(r) PROVE Goal
  <2>1. /\ UNCHANGED releases /\ releases[Tag(r)] = None
        /\ \A ref \in Refs : images'[ref] =
             IF ref[1] = Tag(r) \/ (ref[1] \in Commits /\ VersionOf[ref[1]] = Tag(r))
               THEN None ELSE images[ref]
    BY <1>2 DEF RemoveImages
  <2>2. Versions \cap Commits = {}
    BY PipelineAssumption DEF PipelineAssumption
  <2>3. QED
    BY <2>1, <2>2
<1>3. ASSUME NEW r \in Runs, PublishRelease(r) PROVE Goal
  <2>1. /\ UNCHANGED images /\ releases[Tag(r)] = None
        /\ \E release : releases' = [releases EXCEPT ![Tag(r)] = release]
    BY <1>3 DEF PublishRelease
  <2>2. QED
    BY <2>1 DEF TypeOK
<1>4. CASE UNCHANGED <<images, releases>>
  BY <1>4
<1>5. ASSUME NEW r \in Runs, ReleaseStep(r), ~Push(r), ~RemoveImages(r), ~PublishRelease(r)
      PROVE  UNCHANGED <<images, releases>>
  BY <1>5 DEF ReleaseStep, Push, PushTag, Start, Fail, BuildPackages, BuildImages, Scan,
     CheckRefs, RecordIndex, FinishContainer
<1>6. ASSUME NEW r \in Runs, RegistryStep(r) PROVE UNCHANGED <<images, releases>>
  BY <1>6 DEF RegistryStep, Handoff, Precheck, PublishEntry, VerifyEntry, RegistryEnds,
     RegistryRerun, releaseVars
<1>7. Tick \/ UNCHANGED vars => UNCHANGED <<images, releases>>
  BY DEF Tick, vars, releaseVars
<1>8. QED
  BY <1>1, <1>2, <1>3, <1>4, <1>5, <1>6, <1>7 DEF Next

PipelineInv == TypeOK /\ RunsInv /\ AheadFree

LEMMA PipelineInvariant ==
  ASSUME InspectReliable
  PROVE  Spec => []PipelineInv
<1>1. Init => PipelineInv
  BY TypeInit, RunsInit, AheadInit DEF PipelineInv
<1>2. PipelineInv /\ [Next]_vars => PipelineInv'
  BY TypeNext, RunsNext, AheadNext DEF PipelineInv
<1>3. QED
  BY <1>1, <1>2, PTL DEF Spec

\* No tag of an image is ever overwritten, if the registry answers when the
\* workflow asks what is there (TagsImmutable, which the release_retag run
\* refutes without that assumption).
THEOREM TagsKept ==
  ASSUME InspectReliable
  PROVE  Spec => TagsImmutable
<1>1. PipelineInv /\ [Next]_vars =>
        [\A ref \in Refs : images[ref] # None => images'[ref] \in {images[ref], None}]_images
  BY TagsStep DEF PipelineInv
<1>2. QED
  BY <1>1, PipelineInvariant, PTL DEF Spec, TagsImmutable

----------------------------------------------------------------------------
\* The registry workflow.

\* Ending a run or starting one leaves no run inside the workflow.
LEMMA Between ==
  ASSUME NEW r, NEW success, Trigger(r, success) \/ Finished
  PROVE  UNCHANGED <<active, phase>> \/ phase' \in {"idle", "handoff"}
BY DEF Trigger, Finished

\* What a step may do to the registry and to the run active there.
LEMMA RegistryMoves ==
  ASSUME [Next]_vars
  PROVE  \/ /\ UNCHANGED registry
            /\ UNCHANGED <<active, phase>> \/ phase' \in {"idle", "handoff"}
         \/ \E r \in Runs : Handoff(r) \/ Precheck(r) \/ PublishEntry(r)
<1> DEFINE Quiet == /\ UNCHANGED registry
                    /\ UNCHANGED <<active, phase>> \/ phase' \in {"idle", "handoff"}
<1>1. ASSUME NEW r \in Runs, Fail(r) \/ PublishRelease(r) PROVE Quiet
  BY <1>1, Between DEF Fail, PublishRelease
<1>2. ASSUME NEW r \in Runs, ReleaseStep(r), ~Fail(r), ~PublishRelease(r) PROVE Quiet
  BY <1>2 DEF ReleaseStep, PushTag, Start, BuildPackages, BuildImages, Scan, CheckRefs,
     PushVersion, PushCommit, PushVersionIndex, PushCommitIndex, RecordIndex,
     FinishContainer, RemoveImages, registryVars
<1>3. ASSUME NEW r \in Runs, VerifyEntry(r) \/ RegistryEnds(r) \/ RegistryRerun(r) PROVE Quiet
  BY <1>3, Between DEF VerifyEntry, RegistryEnds, RegistryRerun
<1>4. Tick \/ UNCHANGED vars => Quiet
  BY DEF Tick, vars, registryVars
<1>5. QED
  BY <1>1, <1>2, <1>3, <1>4 DEF Next, RegistryStep

\* A run that is about to publish a version is the first to do so
\* (NeverRepublished of the release_pipeline run), however often runs failed,
\* were cancelled or were started again, and whatever was pushed in between.
THEOREM FirstPublication == Spec => []NeverRepublished
<1>1. Init => NeverRepublished
  BY DEF Init, NeverRepublished
<1>2. ASSUME TypeOK, NeverRepublished, [Next]_vars PROVE NeverRepublished'
  <2>1. CASE /\ UNCHANGED registry
             /\ UNCHANGED <<active, phase>> \/ phase' \in {"idle", "handoff"}
    BY <1>2, <2>1 DEF NeverRepublished, Tag
  <2>2. ASSUME NEW r \in Runs, Handoff(r) \/ PublishEntry(r) PROVE NeverRepublished'
    BY <2>2 DEF Handoff, PublishEntry, Finished, NeverRepublished
  <2>3. ASSUME NEW r \in Runs, Precheck(r) PROVE NeverRepublished'
    <3>1. /\ active = <<r, TRUE>> /\ UNCHANGED <<active, registry>>
          /\ phase' = "publish" => registry[Tag(r)] = None
      BY <2>3 DEF Precheck, At
    <3>2. \A s \in Runs : active' = <<s, TRUE>> => s = r
      BY <3>1
    <3>3. QED
      BY <3>1, <3>2 DEF NeverRepublished, Tag
  <2>4. QED
    BY <1>2, <2>1, <2>2, <2>3, RegistryMoves
<1>3. TypeOK /\ NeverRepublished /\ [Next]_vars => NeverRepublished'
  BY <1>2
<1>4. QED
  BY <1>1, <1>3, TypeCorrect, PTL DEF Spec

----------------------------------------------------------------------------
\* The refinement of Publication.

\* The release of v states an image and the tag of v names it.
Backed(v) ==
  releases[v] # None /\ releases[v].index # None /\ images[<<v, "index">>] = releases[v].index

Described == \A v \in Versions : releases[v] # None => releases[v].index # None

Handed ==
  \A r \in Runs : active = <<r, TRUE>> /\ phase \in {"precheck", "publish", "verify"} =>
    Backed(Tag(r)) /\ ServerOf[Commit(r)].packages[1].image = Tag(r)

ListedBacked ==
  \A v \in Versions : registry[v] # None =>
    Backed(v) /\ registry[v].packages[1].image = v

PublicationInv == Described /\ Handed /\ ListedBacked

LEMMA DescribedNext ==
  ASSUME TypeOK, RunsInv, Described, [Next]_vars
  PROVE  Described'
<1>1. ASSUME NEW r \in Runs, PublishRelease(r) PROVE Described'
  <2>1. PICK p, e :
          releases' = [releases EXCEPT ![Tag(r)] =
            [commit |-> Commit(r), index |-> runs[r].output, packages |-> p.files,
             evidence |-> e.files, day |-> day]]
    BY <1>1 DEF PublishRelease
  <2>2. runs[r].output # None
    BY <1>1 DEF PublishRelease, InJob, RunsInv, Recorded
  <2>3. QED
    BY <2>1, <2>2 DEF Described, TypeOK
<1>2. CASE UNCHANGED releases
  BY <1>2 DEF Described
<1>3. ASSUME NEW r \in Runs, ReleaseStep(r), ~PublishRelease(r) PROVE UNCHANGED releases
  BY <1>3 DEF ReleaseStep, PushTag, Start, Fail, BuildPackages, BuildImages, Scan,
     CheckRefs, PushVersion, PushCommit, PushVersionIndex, PushCommitIndex, RecordIndex,
     FinishContainer, RemoveImages
<1>4. ASSUME NEW r \in Runs, RegistryStep(r) PROVE UNCHANGED releases
  BY <1>4 DEF RegistryStep, Handoff, Precheck, PublishEntry, VerifyEntry, RegistryEnds,
     RegistryRerun, releaseVars
<1>5. Tick \/ UNCHANGED vars => UNCHANGED releases
  BY DEF Tick, vars, releaseVars
<1>6. QED
  BY <1>1, <1>2, <1>3, <1>4, <1>5 DEF Next

LEMMA BackedKept ==
  ASSUME InspectReliable, TypeOK, RunsInv, AheadFree, [Next]_vars,
         NEW v \in Versions, Backed(v)
  PROVE  Backed(v)'
<1>1. <<v, "index">> \in Refs /\ <<v, "index">>[1] = v
  BY DEF Refs
<1>2. releases'[v] = releases[v] /\ images'[<<v, "index">>] = images[<<v, "index">>]
  BY <1>1, TagsStep DEF Backed
<1>3. QED
  BY <1>2 DEF Backed

LEMMA HandedNext ==
  ASSUME InspectReliable, TypeOK, RunsInv, AheadFree, PublicationInv, [Next]_vars
  PROVE  Handed' /\ ListedBacked'
<1>1. \A r \in Runs : Tag(r) \in Versions
  BY RunFacts
<1>2. \A v \in Versions : Backed(v) => Backed(v)'
  BY BackedKept
<1>3. CASE /\ UNCHANGED registry
           /\ UNCHANGED <<active, phase>> \/ phase' \in {"idle", "handoff"}
  BY <1>1, <1>2, <1>3 DEF PublicationInv, Handed, ListedBacked, Tag, Commit
<1>4. ASSUME NEW r \in Runs, Handoff(r) PROVE Handed' /\ ListedBacked'
  <2>1. /\ active = <<r, TRUE>> /\ UNCHANGED <<active, registry>>
        /\ Backed(Tag(r)) /\ ServerOf[Commit(r)].packages[1].image = Tag(r)
    BY <1>1, <1>4 DEF Handoff, At, ValidServer, ValidPackage, PublicationInv, Described, Backed
  <2>2. \A s \in Runs : active' = <<s, TRUE>> => s = r
    BY <2>1
  <2>3. Handed'
    BY <1>1, <1>2, <2>1, <2>2 DEF Handed, Tag, Commit
  <2>4. QED
    BY <1>2, <2>1, <2>3 DEF PublicationInv, ListedBacked
<1>5. ASSUME NEW r \in Runs, Precheck(r) PROVE Handed' /\ ListedBacked'
  <2>1. phase = "precheck" /\ UNCHANGED <<active, registry>>
    BY <1>5 DEF Precheck, At
  <2>2. QED
    BY <1>1, <1>2, <2>1 DEF PublicationInv, Handed, ListedBacked, Tag, Commit
<1>6. ASSUME NEW r \in Runs, PublishEntry(r) PROVE Handed' /\ ListedBacked'
  <2>1. /\ active = <<r, TRUE>> /\ phase = "publish"
        /\ registry' = [registry EXCEPT ![Tag(r)] = ServerOf[Commit(r)]]
        /\ UNCHANGED active \/ phase' \in {"idle", "handoff"}
    BY <1>6 DEF PublishEntry, At, Finished
  <2>2. Backed(Tag(r)) /\ ServerOf[Commit(r)].packages[1].image = Tag(r)
    BY <2>1 DEF PublicationInv, Handed
  <2>3. Handed'
    BY <1>1, <1>2, <2>1 DEF PublicationInv, Handed, Tag, Commit
  <2>4. ListedBacked'
    BY <1>1, <1>2, <2>1, <2>2 DEF PublicationInv, ListedBacked, TypeOK
  <2>5. QED
    BY <2>3, <2>4
<1>7. QED
  BY <1>3, <1>4, <1>5, <1>6, RegistryMoves

LEMMA PublicationInvariant ==
  ASSUME InspectReliable
  PROVE  Spec => [](PipelineInv /\ PublicationInv)
<1>1. Init => PublicationInv
  BY DEF Init, PublicationInv, Described, Handed, ListedBacked
<1>2. PipelineInv /\ PublicationInv /\ [Next]_vars => PublicationInv'
  BY DescribedNext, HandedNext DEF PipelineInv, PublicationInv
<1>3. QED
  BY <1>1, <1>2, PipelineInvariant, PTL DEF Spec

\* The variables of Publication, as the pipeline implements them.
Image    == [v \in Versions |-> images[<<v, "index">>]]
Released == [v \in Versions |-> IF releases[v] = None THEN None ELSE releases[v].index]
Listed   == [v \in Versions |->
               IF registry[v] = None THEN None
                 ELSE images[<<registry[v].packages[1].image, "index">>]]

AbstractStep ==
  \/ UNCHANGED <<Image, Released, Listed>>
  \/ \E v \in Versions :
       \/ /\ Image[v] = None /\ UNCHANGED <<Released, Listed>>
          /\ Image' = [Image EXCEPT ![v] = Image'[v]]
       \/ /\ Released[v] = None /\ UNCHANGED <<Released, Listed>>
          /\ Image' = [Image EXCEPT ![v] = None]
       \/ /\ Released[v] = None /\ UNCHANGED <<Image, Listed>>
          /\ Released' = [Released EXCEPT ![v] = Released'[v]]
       \/ /\ Listed[v] = None /\ Released[v] # None /\ Image[v] = Released[v]
          /\ Listed' = [Listed EXCEPT ![v] = Released[v]]
          /\ UNCHANGED <<Image, Released>>

LEMMA AbstractNext == AbstractStep => [Abstract!Next]_(Abstract!vars)
BY DEF AbstractStep, Image, Released, Listed, Abstract!Next, Abstract!Upload,
   Abstract!Withdraw, Abstract!Release, Abstract!List, Abstract!vars

\* What the registry lists is what the releases say, before a step and after.
LEMMA ListedKept ==
  ASSUME ListedBacked, ListedBacked', UNCHANGED <<releases, registry>>
  PROVE  UNCHANGED Listed
<1>1. \A v \in Versions : registry[v] # None =>
        images'[<<registry[v].packages[1].image, "index">>]
          = images[<<registry[v].packages[1].image, "index">>]
  <2> SUFFICES ASSUME NEW v \in Versions, registry[v] # None
               PROVE  images'[<<registry[v].packages[1].image, "index">>]
                        = images[<<registry[v].packages[1].image, "index">>]
    OBVIOUS
  <2>1. registry[v].packages[1].image = v /\ images[<<v, "index">>] = releases[v].index
    BY DEF ListedBacked, Backed
  <2>2. images'[<<v, "index">>] = releases[v].index
    BY DEF ListedBacked, Backed
  <2>3. QED
    BY <2>1, <2>2
<1>2. QED
  BY <1>1 DEF Listed

LEMMA AbstractPush ==
  ASSUME TypeOK, RunsInv, AheadFree, ListedBacked, ListedBacked', NEW r \in Runs, Push(r)
  PROVE  AbstractStep
<1>1. UNCHANGED <<releases, registry>>
  BY PushFacts
<1>2. UNCHANGED <<Released, Listed>>
  BY <1>1, ListedKept DEF Released
<1>3. PICK ref \in Refs : \E digest : images' = [images EXCEPT ![ref] = digest]
  <2>1. runs[r].pushed + 1 \in 1 .. 6
    BY PushFacts
  <2>2. RefsOf(r)[runs[r].pushed + 1] \in Refs
    BY <2>1, RefsTyped DEF TypeOK
  <2>3. QED
    BY <2>2, PushFacts
<1>4. DOMAIN images = Refs
  BY DEF TypeOK
<1>5. \/ images[ref] = None
      \/ \A other \in Refs : images'[other] = images[other]
  <2>1. images[ref] # None => images'[ref] = images[ref]
    BY AheadPush
  <2>2. \A other \in Refs \ {ref} : images'[other] = images[other]
    BY <1>3, <1>4
  <2>3. QED
    BY <2>1, <2>2
<1>6. ASSUME NEW v \in Versions, ref = <<v, "index">> PROVE AbstractStep
  <2>1. \A w \in Versions \ {v} : images'[<<w, "index">>] = images[<<w, "index">>]
    BY <1>3, <1>4, <1>6 DEF Refs
  <2>2. Image' = [Image EXCEPT ![v] = Image'[v]]
    BY <2>1 DEF Image
  <2>3. CASE images[ref] = None
    BY <1>2, <1>6, <2>2, <2>3 DEF AbstractStep, Image
  <2>4. CASE \A other \in Refs : images'[other] = images[other]
    <3>1. \A w \in Versions : images'[<<w, "index">>] = images[<<w, "index">>]
      BY <2>4 DEF Refs
    <3>2. UNCHANGED Image
      BY <3>1 DEF Image
    <3>3. QED
      BY <1>2, <3>2 DEF AbstractStep
  <2>5. QED
    BY <1>5, <2>3, <2>4
<1>7. CASE \A v \in Versions : ref # <<v, "index">>
  <2>1. \A v \in Versions : images'[<<v, "index">>] = images[<<v, "index">>]
    BY <1>3, <1>4, <1>7 DEF Refs
  <2>2. QED
    BY <1>2, <2>1 DEF AbstractStep, Image
<1>8. QED
  BY <1>6, <1>7

LEMMA AbstractRemoval ==
  ASSUME TypeOK, ListedBacked, ListedBacked', NEW r \in Runs, RemoveImages(r)
  PROVE  AbstractStep
<1>1. /\ UNCHANGED <<releases, registry>> /\ releases[Tag(r)] = None
      /\ \A ref \in Refs : images'[ref] =
           IF ref[1] = Tag(r) \/ (ref[1] \in Commits /\ VersionOf[ref[1]] = Tag(r))
             THEN None ELSE images[ref]
  BY DEF RemoveImages, registryVars
<1>2. UNCHANGED <<Released, Listed>>
  BY <1>1, ListedKept DEF Released
<1>3. \A v \in Versions : <<v, "index">> \in Refs /\ v \notin Commits
  BY PipelineAssumption DEF PipelineAssumption, Refs
<1>4. \A v \in Versions : images'[<<v, "index">>] = IF v = Tag(r) THEN None
                                                   ELSE images[<<v, "index">>]
  BY <1>1, <1>3
<1>5. Tag(r) \in Versions /\ Released[Tag(r)] = None
  BY <1>1, RunFacts DEF Released
<1>6. Image' = [Image EXCEPT ![Tag(r)] = None]
  BY <1>4, <1>5 DEF Image
<1>7. QED
  BY <1>2, <1>5, <1>6 DEF AbstractStep

LEMMA AbstractRelease ==
  ASSUME TypeOK, NEW r \in Runs, PublishRelease(r)
  PROVE  AbstractStep
<1>1. /\ UNCHANGED <<images, registry>> /\ releases[Tag(r)] = None
      /\ \E release : releases' = [releases EXCEPT ![Tag(r)] = release]
  BY DEF PublishRelease
<1>2. Tag(r) \in Versions /\ Released[Tag(r)] = None /\ DOMAIN releases = Versions
  BY <1>1, RunFacts DEF Released, TypeOK
<1>3. \A v \in Versions \ {Tag(r)} : releases'[v] = releases[v]
  BY <1>1, <1>2
<1>4. Released' = [Released EXCEPT ![Tag(r)] = Released'[Tag(r)]]
  BY <1>2, <1>3 DEF Released
<1>5. UNCHANGED <<Image, Listed>>
  BY <1>1 DEF Image, Listed
<1>6. QED
  BY <1>2, <1>4, <1>5 DEF AbstractStep

LEMMA AbstractListing ==
  ASSUME TypeOK, PublicationInv, ListedBacked', NEW r \in Runs, PublishEntry(r)
  PROVE  AbstractStep
<1>1. /\ active = <<r, TRUE>> /\ phase = "publish"
      /\ UNCHANGED <<images, releases>> /\ registry[Tag(r)] = None
      /\ registry' = [registry EXCEPT ![Tag(r)] = ServerOf[Commit(r)]]
  BY DEF PublishEntry, At, releaseVars
<1>2. Backed(Tag(r)) /\ Tag(r) \in Versions /\ DOMAIN registry = Versions
  BY <1>1, RunFacts DEF PublicationInv, Handed, TypeOK
<1>3. Listed[Tag(r)] = None /\ Released[Tag(r)] # None /\ Image[Tag(r)] = Released[Tag(r)]
  BY <1>1, <1>2 DEF Listed, Released, Image, Backed
<1>4. UNCHANGED <<Image, Released>>
  BY <1>1 DEF Image, Released
<1>5. \A v \in Versions \ {Tag(r)} : Listed'[v] = Listed[v]
  BY <1>1, <1>2 DEF Listed
<1>6. Listed'[Tag(r)] \in {None, Released[Tag(r)]}
  BY <1>1, <1>2 DEF Listed, Released, ListedBacked, Backed
<1>7. Listed' = [v \in Versions |-> Listed'[v]] /\ Listed = [v \in Versions |-> Listed[v]]
  BY DEF Listed
<1>8. CASE Listed'[Tag(r)] = None
  BY <1>3, <1>4, <1>5, <1>7, <1>8 DEF AbstractStep
<1>9. CASE Listed'[Tag(r)] = Released[Tag(r)]
  <2>1. Listed' = [Listed EXCEPT ![Tag(r)] = Released[Tag(r)]]
    BY <1>5, <1>7, <1>9
  <2>2. QED
    BY <1>2, <1>3, <1>4, <2>1 DEF AbstractStep
<1>10. QED
  BY <1>6, <1>8, <1>9

LEMMA AbstractStutter ==
  ASSUME UNCHANGED <<images, releases, registry>>
  PROVE  AbstractStep
BY DEF AbstractStep, Image, Released, Listed

LEMMA EveryStep ==
  ASSUME InspectReliable, PipelineInv, PublicationInv, PublicationInv', [Next]_vars
  PROVE  AbstractStep
<1>1. ASSUME NEW r \in Runs, ReleaseStep(r) PROVE AbstractStep
  <2>1. ASSUME ~Push(r), ~RemoveImages(r), ~PublishRelease(r)
        PROVE  UNCHANGED <<images, releases, registry>>
    BY <1>1, <2>1 DEF ReleaseStep, Push, PushTag, Start, Fail, BuildPackages, BuildImages,
       Scan, CheckRefs, RecordIndex, FinishContainer, registryVars
  <2>2. QED
    BY <2>1, AbstractPush, AbstractRemoval, AbstractRelease, AbstractStutter
       DEF PipelineInv, PublicationInv
<1>2. ASSUME NEW r \in Runs, RegistryStep(r) PROVE AbstractStep
  <2>1. ASSUME ~PublishEntry(r) PROVE UNCHANGED <<images, releases, registry>>
    BY <1>2, <2>1 DEF RegistryStep, Handoff, Precheck, VerifyEntry, RegistryEnds,
       RegistryRerun, releaseVars
  <2>2. QED
    BY <2>1, AbstractListing, AbstractStutter DEF PipelineInv, PublicationInv
<1>3. Tick \/ UNCHANGED vars => UNCHANGED <<images, releases, registry>>
  BY DEF Tick, vars, releaseVars, registryVars
<1>4. QED
  BY <1>1, <1>2, <1>3, AbstractStutter DEF Next

\* The pipeline implements Publication, if the registry of images answers when
\* it is asked (PublicationSafe of the release_pipeline run).
THEOREM Refinement ==
  ASSUME InspectReliable
  PROVE  Spec => PublicationSafe
<1>1. Init => Abstract!Init
  BY DEF Init, Abstract!Init, Refs
<1>2. PipelineInv /\ PublicationInv /\ PublicationInv' /\ [Next]_vars
        => [Abstract!Next]_(Abstract!vars)
  BY EveryStep, AbstractNext
<1>3. QED
  BY <1>1, <1>2, PublicationInvariant, PTL DEF Spec, PublicationSafe, Abstract!Spec

=============================================================================
