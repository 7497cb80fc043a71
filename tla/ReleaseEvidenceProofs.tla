------------------------ MODULE ReleaseEvidenceProofs ------------------------
(***************************************************************************)
(* What ReleasePipeline promises of a release's contents, proved: reviews  *)
(* are recent, the tags name images that were scanned, and the archives    *)
(* unpack inside the directories of the package.                           *)
(***************************************************************************)
EXTENDS ReleaseProofs, SetInduction

----------------------------------------------------------------------------
\* Reviews.

\* Each approved key of a policy result has an exception of the commit whose
\* review is at most MaxWindow and some days more before the given day.
Recent(c, files, today, more) ==
  \A arch \in Platforms : <<"policy", arch>> \in DOMAIN files =>
    \A key \in files[<<"policy", arch>>].approved :
      \E i \in DOMAIN ExceptionsOf[c] :
        /\ ExceptionsOf[c][i].key = key
        /\ today <= ExceptionsOf[c][i].reviewed + MaxWindow + more

Nights(r) == IF runs[r].overnight THEN 1 ELSE 0

\* What a container job has written down, what was uploaded, what was released.
DirectoryReviewed ==
  \A r \in Runs :
    /\ ~InContainer(r) => directory[r] = <<>>
    /\ Recent(Commit(r), directory[r], day, Nights(r))

EvidenceReviewed ==
  \A r \in Runs : \A e \in evidence[r] :
    day - e.day <= Retention /\ Recent(Commit(r), e.files, e.day, 1)

ReleaseReviewed ==
  \A v \in Versions : releases[v] # None =>
    /\ DOMAIN releases[v].evidence = EvidenceFiles
    /\ Recent(releases[v].commit, releases[v].evidence, releases[v].day, 1 + Retention)

ReviewInv == DirectoryReviewed /\ EvidenceReviewed /\ ReleaseReviewed

\* A document stays recent for longer if more days are granted.
LEMMA RecentMonotone ==
  ASSUME NEW c \in Commits, NEW files, NEW today \in Int, NEW later \in Int,
         NEW more \in Int, NEW most \in Int, later - today <= most - more,
         Recent(c, files, today, more)
  PROVE  Recent(c, files, later, most)
<1> SUFFICES ASSUME NEW arch \in Platforms, <<"policy", arch>> \in DOMAIN files,
                    NEW key \in files[<<"policy", arch>>].approved
             PROVE  \E i \in DOMAIN ExceptionsOf[c] :
                      /\ ExceptionsOf[c][i].key = key
                      /\ later <= ExceptionsOf[c][i].reviewed + MaxWindow + most
  BY DEF Recent
<1>1. PICK i \in DOMAIN ExceptionsOf[c] :
        /\ ExceptionsOf[c][i].key = key
        /\ today <= ExceptionsOf[c][i].reviewed + MaxWindow + more
  BY DEF Recent
<1>2. ExceptionsOf[c][i].reviewed \in Int /\ MaxWindow \in Int
  BY DateAssumption, PolicyAssumption DEF DateAssumption, PolicyAssumption
<1>3. later <= ExceptionsOf[c][i].reviewed + MaxWindow + most
  BY <1>1, <1>2
<1> QED
  BY <1>1, <1>3

\* A document without policy results is recent, and stays recent when anything
\* else is written into it.
LEMMA RecentWritten ==
  ASSUME NEW c, NEW files, NEW today, NEW more, NEW name, NEW document,
         Recent(c, files, today, more), name \notin {"policy"} \X Platforms
  PROVE  Recent(c, Written(files, name, document), today, more)
BY DEF Recent, Written

LEMMA RecentEmpty ==
  ASSUME NEW c, NEW today, NEW more
  PROVE  Recent(c, <<>>, today, more)
BY DEF Recent

\* A result of today's scan is recent.
LEMMA RecentScan ==
  ASSUME NEW c \in Commits, NEW files, NEW today \in Int, NEW arch \in Platforms,
         NEW more \in Nat, NEW report,
         Recent(c, files, today, more),
         PolicyResult(report, ExceptionsOf[c], today).status = "passed"
  PROVE  Recent(c, Written(files, <<"policy", arch>>,
                           PolicyResult(report, ExceptionsOf[c], today)), today, more)
<1> DEFINE exceptions == ExceptionsOf[c]
           result == PolicyResult(report, exceptions, today)
<1>1. PolicyPasses(report, exceptions, today) /\ result.approved = Actionable(report)
  BY DEF PolicyResult
<1>2. ASSUME NEW key \in result.approved
      PROVE  \E i \in DOMAIN exceptions :
               exceptions[i].key = key /\ today <= exceptions[i].reviewed + MaxWindow + more
  <2>1. PICK i \in DOMAIN exceptions : exceptions[i].key = key
    BY <1>1, <1>2 DEF PolicyPasses, Keys
  <2>2. ValidException(exceptions[i], today)
    BY <1>1 DEF PolicyPasses
  <2>3. /\ exceptions[i].reviewed \in Int /\ exceptions[i].expires \in Int
        /\ MaxWindow \in Int
    BY DateAssumption, PolicyAssumption DEF DateAssumption, PolicyAssumption
  <2>4. today <= exceptions[i].reviewed + MaxWindow + more
    BY <2>2, <2>3 DEF ValidException
  <2> QED
    BY <2>1, <2>4
<1> HIDE DEF result, exceptions
<1>3. Recent(c, Written(files, <<"policy", arch>>, result), today, more)
  BY <1>2 DEF Recent, Written, exceptions
<1> QED
  BY <1>3 DEF result, exceptions

LEMMA ReviewInit == Init => ReviewInv
<1> SUFFICES ASSUME Init PROVE ReviewInv
  OBVIOUS
<1>1. \A r \in Runs : directory[r] = <<>> /\ evidence[r] = {}
  BY DEF Init
<1>2. \A v \in Versions : releases[v] = None
  BY DEF Init
<1> QED
  BY <1>1, <1>2, RecentEmpty DEF ReviewInv, DirectoryReviewed, EvidenceReviewed, ReleaseReviewed

\* A step of one run that uploads nothing and releases nothing.
LEMMA DirectoryStep ==
  ASSUME TypeOK, ReviewInv, NEW r \in Runs, NEW files,
         \A s \in Runs \ {r} : runs'[s] = runs[s],
         \A s \in Runs : directory'[s] = IF s = r THEN files ELSE directory[s],
         ~InContainer(r)' => files = <<>>,
         Recent(Commit(r), files, day, IF runs'[r].overnight THEN 1 ELSE 0),
         UNCHANGED <<evidence, releases, day>>
  PROVE  ReviewInv'
<1>2. DirectoryReviewed'
  BY DEF ReviewInv, DirectoryReviewed, Recent, InContainer, Nights, Commit
<1>3. EvidenceReviewed' /\ ReleaseReviewed'
  BY DEF ReviewInv, EvidenceReviewed, ReleaseReviewed, Recent, Commit
<1> QED
  BY <1>2, <1>3 DEF ReviewInv

LEMMA ReviewReleaseStep ==
  ASSUME TypeOK, ReviewInv, NEW r \in Runs, ReleaseStep(r)
  PROVE  ReviewInv'
<1>1. /\ runs \in [Runs -> RunRecords] /\ runs[r] \in RunRecords /\ Commit(r) \in Commits
      /\ DOMAIN directory = Runs /\ day \in Int /\ Nights(r) \in Nat
      /\ Recent(Commit(r), directory[r], day, Nights(r))
      /\ ~InContainer(r) => directory[r] = <<>>
  BY RunFacts, PipelineAssumption
     DEF TypeOK, ReviewInv, DirectoryReviewed, Nights
<1>3. ASSUME \A s \in Runs \ {r} : runs'[s] = runs[s], UNCHANGED <<directory, evidence, releases, day>>,
             InContainer(r) => InContainer(r)' /\ runs'[r].overnight = runs[r].overnight
      PROVE  ReviewInv'
  <2>1. Recent(Commit(r), directory[r], day, IF runs'[r].overnight THEN 1 ELSE 0)
    BY <1>1, <1>3, RecentEmpty DEF Nights
  <2>2. ~InContainer(r)' => directory[r] = <<>>
    BY <1>1, <1>3
  <2> QED
    BY <1>3, <2>1, <2>2, DirectoryStep
<1>4. CASE PushTag(r)
  BY <1>1, <1>3, <1>4 DEF PushTag, InContainer
<1>5. ASSUME NEW job \in {"packages", "container", "release"}, Start(r, job) PROVE ReviewInv'
  BY <1>1, <1>3, <1>5 DEF Start, InContainer
<1>6. CASE BuildPackages(r)
  BY <1>1, <1>3, <1>6 DEF BuildPackages, InJob, InContainer
<1>7. CASE CheckRefs(r)
  BY <1>1, <1>3, <1>7 DEF CheckRefs, InJob, InContainer, RunRecords
<1>8. CASE Push(r)
  <2>1. ASSUME NEW arch \in Platforms, PushVersion(r, arch) PROVE ReviewInv'
    BY <1>1, <1>3, <2>1 DEF PushVersion, Pushing, InJob, InContainer, RunRecords
  <2>2. ASSUME NEW arch \in Platforms, PushCommit(r, arch) PROVE ReviewInv'
    <3>1. PICK digest, step :
            runs' = [runs EXCEPT ![r].pushed = @ + 1, ![r].digests[arch] = digest,
                                 ![r].step = IF step THEN @ ELSE "refused"]
      BY <2>2 DEF PushCommit
    <3> QED
      BY <1>1, <1>3, <2>2, <3>1 DEF PushCommit, Pushing, InJob, InContainer, RunRecords
  <2>3. CASE PushVersionIndex(r)
    BY <1>1, <1>3, <2>3 DEF PushVersionIndex, Pushing, InJob, InContainer, RunRecords
  <2>4. CASE PushCommitIndex(r)
    BY <1>1, <1>3, <2>4 DEF PushCommitIndex, Pushing, InJob, InContainer, RunRecords
  <2> QED
    BY <1>8, <2>1, <2>2, <2>3, <2>4 DEF Push
<1>9. CASE RemoveImages(r)
  BY <1>1, <1>3, <1>9 DEF RemoveImages, InContainer
<1>10. CASE BuildImages(r)
  <2>1. PICK sbom : directory' = [directory EXCEPT ![r] = Written(<<>>, <<"sbom", "source">>, sbom)]
    BY <1>10 DEF BuildImages
  <2>2. /\ runs' = [runs EXCEPT ![r].step = "amd64", ![r].build = builds + 1]
        /\ InContainer(r) /\ UNCHANGED <<evidence, releases, day>>
    BY <1>10 DEF BuildImages, InJob, InContainer
  <2>3. \A s \in Runs \ {r} : runs'[s] = runs[s]
    BY <1>1, <2>2
  <2>4. InContainer(r)'
    BY <1>1, <2>2 DEF InContainer, RunRecords
  <2>5. Recent(Commit(r), Written(<<>>, <<"sbom", "source">>, sbom), day,
               IF runs'[r].overnight THEN 1 ELSE 0)
    BY RecentEmpty, RecentWritten
  <2> DEFINE files == Written(<<>>, <<"sbom", "source">>, sbom)
  <2>6. \A s \in Runs : directory'[s] = IF s = r THEN files ELSE directory[s]
    BY <1>1, <2>1
  <2> HIDE DEF files
  <2>7. Recent(Commit(r), files, day, IF runs'[r].overnight THEN 1 ELSE 0)
    BY <2>5 DEF files
  <2> QED
    BY <2>2, <2>3, <2>4, <2>6, <2>7, DirectoryStep
<1>11. ASSUME NEW arch \in Platforms, Scan(r, arch) PROVE ReviewInv'
  <2> DEFINE image == [valid |-> TRUE, image |-> <<Commit(r), arch>>]
  <2>1. PICK sbom \in Sboms, report \in Reports :
          /\ PolicyResult(report, ExceptionsOf[Commit(r)], day).status = "passed"
          /\ directory' = [directory EXCEPT ![r] =
               Written(Written(Written(@, <<"sbom", arch>>, sbom), <<"grype", arch>>, image),
                       <<"policy", arch>>, PolicyResult(report, ExceptionsOf[Commit(r)], day))]
    BY <1>11 DEF Scan
  <2> DEFINE result == PolicyResult(report, ExceptionsOf[Commit(r)], day)
             two == Written(Written(directory[r], <<"sbom", arch>>, sbom), <<"grype", arch>>, image)
  <2>2. /\ runs' = [runs EXCEPT ![r].step = IF arch = "amd64" THEN "arm64" ELSE "check"]
        /\ InContainer(r) /\ UNCHANGED <<evidence, releases, day>>
    BY <1>11 DEF Scan, InJob, InContainer
  <2>3. \A s \in Runs \ {r} : runs'[s] = runs[s]
    BY <1>1, <2>2
  <2>4. InContainer(r)' /\ runs'[r].overnight = runs[r].overnight
    BY <1>1, <2>2 DEF InContainer, RunRecords
  <2>5. Recent(Commit(r), two, day, Nights(r))
    <3> HIDE DEF image
    <3>1. Recent(Commit(r), Written(directory[r], <<"sbom", arch>>, sbom), day, Nights(r))
      BY <1>1, RecentWritten
    <3> QED
      BY <3>1, RecentWritten
  <2> HIDE DEF two
  <2>6. Recent(Commit(r), Written(two, <<"policy", arch>>, result), day, Nights(r))
    BY <1>1, <2>1, <2>5, RecentScan
  <2> DEFINE files == Written(two, <<"policy", arch>>, result)
  <2>7. \A s \in Runs : directory'[s] = IF s = r THEN files ELSE directory[s]
    BY <1>1, <2>1 DEF two
  <2> HIDE DEF files
  <2>8. Recent(Commit(r), files, day, IF runs'[r].overnight THEN 1 ELSE 0)
    BY <2>4, <2>6 DEF Nights, files
  <2> QED
    BY <2>2, <2>3, <2>4, <2>7, <2>8, DirectoryStep
<1>12. CASE RecordIndex(r)
  <2>1. PICK records, index : directory' = [directory EXCEPT ![r] =
          Written(Written(@, <<"index", "platforms">>, records), <<"index", "digest">>, index)]
    BY <1>12 DEF RecordIndex
  <2> DEFINE files == Written(Written(directory[r], <<"index", "platforms">>, records),
                              <<"index", "digest">>, index)
  <2>2. /\ runs' = [runs EXCEPT ![r].step = "attest"]
        /\ InContainer(r) /\ UNCHANGED <<evidence, releases, day>>
    BY <1>12 DEF RecordIndex, InJob, InContainer
  <2>3. \A s \in Runs \ {r} : runs'[s] = runs[s]
    BY <1>1, <2>2
  <2>4. InContainer(r)' /\ runs'[r].overnight = runs[r].overnight
    BY <1>1, <2>2 DEF InContainer, RunRecords
  <2>5. Recent(Commit(r), files, day, Nights(r))
    <3>1. Recent(Commit(r), Written(directory[r], <<"index", "platforms">>, records), day, Nights(r))
      BY <1>1, RecentWritten
    <3> QED
      BY <3>1, RecentWritten
  <2>6. \A s \in Runs : directory'[s] = IF s = r THEN files ELSE directory[s]
    BY <1>1, <2>1
  <2> HIDE DEF files
  <2>7. Recent(Commit(r), files, day, IF runs'[r].overnight THEN 1 ELSE 0)
    BY <2>4, <2>5 DEF Nights
  <2> QED
    BY <2>2, <2>3, <2>4, <2>6, <2>7, DirectoryStep
<1>13. ASSUME directory' = [directory EXCEPT ![r] = <<>>], UNCHANGED <<releases, day>>,
              \A s \in Runs \ {r} : runs'[s] = runs[s],
              \/ UNCHANGED evidence
              \/ evidence' = [evidence EXCEPT ![r] = @ \cup {[files |-> directory[r], day |-> day]}]
       PROVE  ReviewInv'
  <2>1. \A s \in Runs : directory'[s] = IF s = r THEN <<>> ELSE directory[s]
    BY <1>1, <1>13
  <2>2. Recent(Commit(r), <<>>, day, Nights(r)')
    BY RecentEmpty
  <2>3. DirectoryReviewed'
    BY <1>13, <2>1, <2>2 DEF ReviewInv, DirectoryReviewed, Recent, InContainer, Nights, Commit
  <2>4. ASSUME NEW s \in Runs, NEW e \in evidence'[s]
        PROVE  day - e.day <= Retention /\ Recent(Commit(s), e.files, e.day, 1)
    <3>1. CASE e \in evidence[s]
      BY <3>1 DEF ReviewInv, EvidenceReviewed
    <3>2. CASE e \notin evidence[s]
      <4>1. s = r /\ e = [files |-> directory[r], day |-> day]
        BY <1>13, <2>4, <3>2 DEF TypeOK
      <4>2. Recent(Commit(r), directory[r], day, 1)
        BY <1>1, RecentMonotone DEF Nights
      <4>3. Retention \in Nat
        BY PipelineAssumption DEF PipelineAssumption
      <4> QED
        BY <1>1, <4>1, <4>2, <4>3
    <3> QED
      BY <3>1, <3>2
  <2>5. EvidenceReviewed'
    BY <1>13, <2>4 DEF EvidenceReviewed, Recent, Commit
  <2>6. ReleaseReviewed'
    BY <1>13 DEF ReviewInv, ReleaseReviewed, Recent
  <2> QED
    BY <2>3, <2>5, <2>6 DEF ReviewInv
<1>14. CASE Fail(r)
  BY <1>1, <1>13, <1>14 DEF Fail
<1>15. CASE FinishContainer(r)
  BY <1>1, <1>13, <1>15 DEF FinishContainer
<1>16. CASE PublishRelease(r)
  <2>1. PICK p \in packages[r], e \in evidence[r] :
          /\ PublicationAccepted(p.files, e.files, VersionOf[Commit(r)], Tag(r), Commit(r),
                                 runs[r].output)
          /\ releases' = [releases EXCEPT ![Tag(r)] =
               [commit |-> Commit(r), index |-> runs[r].output, packages |-> p.files,
                evidence |-> e.files, day |-> day]]
    BY <1>16 DEF PublishRelease
  <2>2. /\ UNCHANGED <<directory, evidence, day>> /\ ~InContainer(r)
        /\ \E status : runs' = [runs EXCEPT ![r] = Ended(r, status)]
    BY <1>16 DEF PublishRelease, InJob, InContainer
  <2>3. \A s \in Runs \ {r} : runs'[s] = runs[s]
    BY <1>1, <2>2
  <2>4. DirectoryReviewed'
    <3>1. directory[r] = <<>>
      BY <1>1, <2>2
    <3>2. Recent(Commit(r), <<>>, day, Nights(r)')
      BY RecentEmpty
    <3> QED
      BY <2>2, <2>3, <3>1, <3>2 DEF ReviewInv, DirectoryReviewed, Recent, InContainer, Nights, Commit
  <2>5. EvidenceReviewed'
    BY <2>2 DEF ReviewInv, EvidenceReviewed, Recent, Commit
  <2>6. /\ DOMAIN e.files = EvidenceFiles
        /\ Recent(Commit(r), e.files, day, 1 + Retention)
    <3>1. day - e.day <= Retention /\ Recent(Commit(r), e.files, e.day, 1)
      BY DEF ReviewInv, EvidenceReviewed
    <3>2. Retention \in Nat /\ e.day \in Int
      BY <1>1, PipelineAssumption DEF PipelineAssumption, TypeOK
    <3>3. Recent(Commit(r), e.files, day, 1 + Retention)
      BY <1>1, <3>1, <3>2, RecentMonotone
    <3> QED
      BY <2>1, <3>3 DEF PublicationAccepted
  <2>7. ReleaseReviewed'
    <3>1. /\ releases'[Tag(r)].evidence = e.files /\ releases'[Tag(r)].day = day
          /\ releases'[Tag(r)].commit = Commit(r)
          /\ \A v \in Versions \ {Tag(r)} : releases'[v] = releases[v]
      BY <2>1, RunFacts DEF TypeOK
    <3>2. ReleaseReviewed
      BY DEF ReviewInv
    <3> QED
      BY <2>6, <3>1, <3>2 DEF ReleaseReviewed, Recent
  <2> QED
    BY <2>4, <2>5, <2>7 DEF ReviewInv
<1> QED
  BY <1>4, <1>5, <1>6, <1>7, <1>8, <1>9, <1>10, <1>11, <1>12, <1>14, <1>15, <1>16
     DEF ReleaseStep, Push

LEMMA ReviewTick ==
  ASSUME TypeOK, ReviewInv, Tick
  PROVE  ReviewInv'
<1>1. /\ day \in Int /\ day' = day + 1 /\ UNCHANGED <<directory, releases>>
      /\ \A r \in Runs : InContainer(r) => ~runs[r].overnight
  BY PipelineAssumption DEF Tick, TypeOK
<1>2. ASSUME NEW r \in Runs
      PROVE  /\ InContainer(r)' <=> InContainer(r)
             /\ runs'[r].overnight = InContainer(r)
  BY RunFacts DEF Tick, InContainer, RunRecords
<1>3. DirectoryReviewed'
  <2> SUFFICES ASSUME NEW r \in Runs
               PROVE  /\ ~InContainer(r)' => directory[r] = <<>>
                      /\ Recent(Commit(r), directory[r], day + 1, Nights(r)')
    BY <1>1 DEF DirectoryReviewed, Recent, Commit
  <2>1. CASE InContainer(r)
    <3>1. Nights(r) = 0 /\ Nights(r)' = 1
      BY <1>1, <1>2, <2>1 DEF Nights
    <3>2. Recent(Commit(r), directory[r], day, 0) /\ Commit(r) \in Commits
      BY <3>1, RunFacts DEF ReviewInv, DirectoryReviewed
    <3>3. Recent(Commit(r), directory[r], day + 1, 1)
      BY <1>1, <3>2, RecentMonotone
    <3> QED
      BY <1>2, <2>1, <3>1, <3>3
  <2>2. CASE ~InContainer(r)
    <3>1. directory[r] = <<>>
      BY <2>2 DEF ReviewInv, DirectoryReviewed
    <3> QED
      BY <3>1, RecentEmpty
  <2> QED
    BY <2>1, <2>2
<1>4. EvidenceReviewed'
  <2>1. \A r \in Runs : \A e \in evidence'[r] : e \in evidence[r] /\ day' - e.day <= Retention
    BY DEF Tick, Kept
  <2> QED
    BY <2>1 DEF ReviewInv, EvidenceReviewed, Recent, Commit
<1>5. ReleaseReviewed'
  BY <1>1 DEF ReviewInv, ReleaseReviewed, Recent
<1> QED
  BY <1>3, <1>4, <1>5 DEF ReviewInv

LEMMA ReviewNext == TypeOK /\ ReviewInv /\ [Next]_vars => ReviewInv'
<1> SUFFICES ASSUME TypeOK, ReviewInv, [Next]_vars PROVE ReviewInv'
  OBVIOUS
<1>1. CASE UNCHANGED <<runs, directory, evidence, releases, day>>
  BY <1>1 DEF ReviewInv, DirectoryReviewed, EvidenceReviewed, ReleaseReviewed, Recent, Nights,
     InContainer, Commit
<1>2. ASSUME NEW r \in Runs, RegistryStep(r)
      PROVE  UNCHANGED <<runs, directory, evidence, releases, day>>
  BY <1>2 DEF RegistryStep, Handoff, Precheck, PublishEntry, VerifyEntry, RegistryEnds,
     RegistryRerun, releaseVars
<1> QED
  BY <1>1, <1>2, ReviewReleaseStep, ReviewTick DEF Next, vars, releaseVars

\* Every fixable high or critical finding in a release was reviewed at most the
\* window, one midnight and the retention ago (ReviewsRecent of the
\* release_pipeline run), for any exceptions, reports and number of runs.
THEOREM ReviewedRecently == Spec => []ReviewsRecent
<1>1. ReviewInv /\ TypeOK => ReviewsRecent
  <2> SUFFICES ASSUME ReviewInv, TypeOK, NEW v \in Versions, releases[v] # None,
                      NEW arch \in Platforms,
                      NEW key \in releases[v].evidence[<<"policy", arch>>].approved
               PROVE  LET exceptions == ExceptionsOf[releases[v].commit]
                      IN \E i \in DOMAIN exceptions :
                           /\ exceptions[i].key = key
                           /\ releases[v].day <= exceptions[i].reviewed + MaxWindow + 1 + Retention
    BY DEF ReviewsRecent
  <2> DEFINE exceptions == ExceptionsOf[releases[v].commit]
  <2>1. <<"policy", arch>> \in EvidenceFiles
    BY DEF EvidenceFiles
  <2>2. PICK i \in DOMAIN exceptions :
          /\ exceptions[i].key = key
          /\ releases[v].day <= exceptions[i].reviewed + MaxWindow + (1 + Retention)
    BY <2>1 DEF ReviewInv, ReleaseReviewed, Recent
  <2>3. /\ exceptions[i].reviewed \in Int /\ MaxWindow \in Int /\ Retention \in Int
    BY DateAssumption, PolicyAssumption, PipelineAssumption
       DEF DateAssumption, PolicyAssumption, PipelineAssumption, TypeOK
  <2>4. exceptions[i].reviewed + MaxWindow + (1 + Retention)
          = exceptions[i].reviewed + MaxWindow + 1 + Retention
    BY <2>3
  <2> QED
    BY <2>2, <2>4
<1> QED
  BY <1>1, ReviewInit, ReviewNext, TypeCorrect, PTL DEF Spec

----------------------------------------------------------------------------
\* Images.  A run in the container job has a build of its own; what it scanned
\* and what it pushed so far are the images of that build.

Uploaded(r) ==
  LET run == runs[r]
  IN /\ run.pushed >= 1 => images[<<Tag(r), "amd64">>] = <<run.build, "amd64">>
     /\ run.pushed >= 2 => /\ images[<<Commit(r), "amd64">>] = <<run.build, "amd64">>
                           /\ run.digests["amd64"] = <<run.build, "amd64">>
     /\ run.pushed >= 3 => images[<<Tag(r), "arm64">>] = <<run.build, "arm64">>
     /\ run.pushed >= 4 => /\ images[<<Commit(r), "arm64">>] = <<run.build, "arm64">>
                           /\ run.digests["arm64"] = <<run.build, "arm64">>
     /\ run.pushed >= 5 => /\ images[<<Tag(r), "index">>] = run.index
                           /\ run.index \in Made(run.digests)
     /\ run.pushed >= 6 => images[<<Commit(r), "index">>] = run.index

Steady(r) ==
  LET run == runs[r]
  IN InContainer(r) =>
       /\ IF run.step = "start" THEN run.build = 0 ELSE run.build \in 1 .. builds
       /\ run.step \in {"start", "amd64", "arm64", "check"} => run.pushed = 0
       /\ run.step \in {"verify", "attest"} => run.pushed = 6
       /\ run.step \in {"arm64", "check", "push", "verify", "attest"} =>
            <<run.build, "amd64">> \in approved
       /\ run.step \in {"check", "push", "verify", "attest"} =>
            <<run.build, "arm64">> \in approved
       /\ run.step # "refused" => Uploaded(r)

OwnBuilds ==
  \A r, s \in Runs :
    InContainer(r) /\ InContainer(s) /\ runs[r].build = runs[s].build => r = s \/ runs[r].build = 0

JobsInv == (\A r \in Runs : Steady(r)) /\ OwnBuilds

\* The build of a run is kept, forgotten or new.
OwnBuild(r) ==
  InContainer(r)' =>
    \/ /\ InContainer(r) /\ runs'[r].build = runs[r].build
       /\ runs[r].step = "attest" => runs'[r].step = "attest"
    \/ runs'[r].build = 0
    \/ runs'[r].build = builds + 1 /\ builds' = builds + 1

\* A step leaves the tags of a run alone.
TagsLeft(r) ==
  \A name \in {Tag(r), Commit(r)}, kind \in Platforms \cup {"index"} :
    images'[<<name, kind>>] = images[<<name, kind>>]

LEMMA PushLeaves ==
  ASSUME TypeOK, RunsInv, NEW r \in Runs, NEW s \in Runs, r # s, InContainer(s), Push(r)
  PROVE  TagsLeft(s)
<1> DEFINE next == runs[r].pushed + 1
<1>1. next \in 1 .. 6 /\ InContainer(r)
  BY PushFacts DEF InJob, InContainer
<1>2. PICK digest : images' = [images EXCEPT ![RefsOf(r)[next]] = digest]
  BY PushFacts
<1> HIDE DEF next
<1> SUFFICES ASSUME NEW name \in {Tag(s), Commit(s)}, NEW kind \in Platforms \cup {"index"}
             PROVE  images'[<<name, kind>>] = images[<<name, kind>>]
  BY DEF TagsLeft
<1>3. PICK j \in 1 .. 6 : RefsOf(s)[j] = <<name, kind>>
  <2>1. /\ RefsOf(s)[1] = <<Tag(s), "amd64">> /\ RefsOf(s)[2] = <<Commit(s), "amd64">>
        /\ RefsOf(s)[3] = <<Tag(s), "arm64">> /\ RefsOf(s)[4] = <<Commit(s), "arm64">>
        /\ RefsOf(s)[5] = <<Tag(s), "index">> /\ RefsOf(s)[6] = <<Commit(s), "index">>
    BY DEF RefsOf
  <2> QED
    BY <2>1 DEF Platforms
<1>4. RefsOf(r)[next] # RefsOf(s)[j]
  BY <1>1, RefsApart
<1> QED
  BY <1>2, <1>3, <1>4, RefsTyped DEF TypeOK

LEMMA RemovalLeaves ==
  ASSUME TypeOK, RunsInv, NEW r \in Runs, NEW s \in Runs, InContainer(s), RemoveImages(r)
  PROVE  TagsLeft(s)
<1>1. Tag(s) # Tag(r) /\ VersionOf[Commit(s)] = Tag(s)
  BY DEF RemoveImages, GroupFree, InContainer, RunsInv, Identified
<1>2. /\ Tag(s) \in Versions /\ Commit(s) \in Commits /\ Tag(r) \in Versions
      /\ Versions \cap Commits = {}
  BY RunFacts, PipelineAssumption DEF PipelineAssumption
<1>3. \A ref \in Refs : images'[ref] =
        IF ref[1] = Tag(r) \/ (ref[1] \in Commits /\ VersionOf[ref[1]] = Tag(r))
          THEN None ELSE images[ref]
  BY DEF RemoveImages
<1>4. \A name \in {Tag(s), Commit(s)}, kind \in Platforms \cup {"index"} : <<name, kind>> \in Refs
  BY <1>2 DEF Refs
<1> QED
  BY <1>1, <1>2, <1>3, <1>4 DEF TagsLeft

\* What a run has achieved is not undone by the steps of others.
LEMMA SteadyKept ==
  ASSUME NEW s \in Runs, Steady(s), runs'[s] = runs[s], builds \in Nat, builds' \in Nat,
         builds <= builds', approved \subseteq approved', InContainer(s) => TagsLeft(s)
  PROVE  Steady(s)'
<1> SUFFICES ASSUME InContainer(s)' PROVE Steady(s)'
  BY DEF Steady
<1>1. InContainer(s) /\ TagsLeft(s)
  BY DEF InContainer
<1>2. Uploaded(s) => Uploaded(s)'
  BY <1>1 DEF Uploaded, TagsLeft, Platforms, Tag, Commit, Made
<1> QED
  BY <1>1, <1>2 DEF Steady, InContainer

LEMMA JobsStep ==
  ASSUME TypeOK, TypeOK', JobsInv, NEW r \in Runs, \A s \in Runs \ {r} : runs'[s] = runs[s],
         builds <= builds', approved \subseteq approved',
         \A s \in Runs \ {r} : InContainer(s) => TagsLeft(s),
         Steady(r)', OwnBuild(r)
  PROVE  JobsInv' /\ \A s \in Runs : OwnBuild(s)
<1>1. builds \in Nat /\ builds' \in Nat
  BY PipelineAssumption DEF PipelineAssumption, TypeOK
<1>2. \A s \in Runs : Steady(s)'
  BY <1>1, SteadyKept DEF JobsInv
<1>3. ASSUME NEW s \in Runs PROVE OwnBuild(s)
  BY <1>3 DEF OwnBuild, InContainer
<1>4. ASSUME NEW s \in Runs, NEW t \in Runs, InContainer(s)', InContainer(t)',
             runs'[s].build = runs'[t].build, s # t
      PROVE  runs'[s].build = 0
  <2>1. ASSUME NEW u \in Runs, InContainer(u)
        PROVE  runs[u].build \in Nat /\ runs[u].build <= builds
    <3>1. runs[u].build \in Nat
      BY RunFacts DEF RunRecords
    <3>2. runs[u].build = 0 \/ runs[u].build \in 1 .. builds
      BY <2>1 DEF JobsInv, Steady
    <3> QED
      BY <1>1, <3>1, <3>2
  <2>2. ASSUME NEW u \in Runs, u # r, InContainer(u)', InContainer(r)', runs'[u].build = runs'[r].build
        PROVE  runs'[u].build = 0
    <3>1. /\ InContainer(u) /\ runs'[u].build = runs[u].build
          /\ runs[u].build \in Nat /\ runs[u].build <= builds
      BY <2>1, <2>2 DEF InContainer
    <3>2. CASE InContainer(r) /\ runs'[r].build = runs[r].build
      BY <2>2, <3>1, <3>2 DEF JobsInv, OwnBuilds
    <3>3. CASE runs'[r].build = builds + 1
      <4>1. runs[u].build = builds + 1
        BY <2>2, <3>1, <3>3
      <4>2. \A b \in Nat : b <= builds => b # builds + 1
        BY <1>1
      <4> QED
        BY <3>1, <4>1, <4>2
    <3> QED
      BY <2>2, <3>2, <3>3 DEF OwnBuild
  <2>3. CASE s # r /\ t # r
    BY <1>4, <2>3 DEF JobsInv, OwnBuilds, InContainer
  <2> QED
    BY <1>4, <2>2, <2>3
<1>5. OwnBuilds'
  BY <1>4 DEF OwnBuilds
<1> QED
  BY <1>2, <1>3, <1>5 DEF JobsInv

\* A step that pushes and removes no image.
LEMMA JobsQuiet ==
  ASSUME TypeOK, TypeOK', JobsInv, NEW r \in Runs, \A s \in Runs \ {r} : runs'[s] = runs[s],
         builds <= builds', approved \subseteq approved', UNCHANGED images,
         Steady(r)', OwnBuild(r)
  PROVE  JobsInv' /\ \A s \in Runs : OwnBuild(s)
BY JobsStep DEF TagsLeft

\* A step after which the run is not in the container job, or only enters it.
LEMMA JobsOutside ==
  ASSUME TypeOK, TypeOK', JobsInv, NEW r \in Runs, \A s \in Runs \ {r} : runs'[s] = runs[s],
         UNCHANGED <<builds, approved, images>>,
         \/ ~InContainer(r)'
         \/ runs'[r].step = "start" /\ runs'[r].build = 0 /\ runs'[r].pushed = 0
  PROVE  JobsInv' /\ \A s \in Runs : OwnBuild(s)
<1>1. Steady(r)'
  BY DEF Steady, Uploaded
<1>2. OwnBuild(r)
  BY DEF OwnBuild
<1>3. builds <= builds'
  BY PipelineAssumption DEF PipelineAssumption, TypeOK
<1> QED
  BY <1>1, <1>2, <1>3, JobsQuiet

LEMMA JobsScan ==
  ASSUME TypeOK, TypeOK', JobsInv, NEW r \in Runs, NEW arch \in Platforms, Scan(r, arch)
  PROVE  JobsInv' /\ \A s \in Runs : OwnBuild(s)
<1>1. /\ runs \in [Runs -> RunRecords] /\ runs[r] \in RunRecords /\ builds \in Nat
  BY RunFacts, PipelineAssumption DEF PipelineAssumption, TypeOK
<1>2. /\ runs' = [runs EXCEPT ![r].step = IF arch = "amd64" THEN "arm64" ELSE "check"]
      /\ runs[r].step = arch /\ InContainer(r)
      /\ approved' = approved \cup {<<runs[r].build, arch>>}
      /\ UNCHANGED <<images, builds>>
  BY DEF Scan, InJob, InContainer
<1>3. Steady(r)
  BY DEF JobsInv
<1>4. \A s \in Runs \ {r} : runs'[s] = runs[s]
  BY <1>1, <1>2
<1>5. /\ runs'[r].step = IF arch = "amd64" THEN "arm64" ELSE "check"
      /\ runs'[r].build = runs[r].build /\ runs'[r].pushed = runs[r].pushed
      /\ runs[r].pushed = 0
  BY <1>1, <1>2, <1>3 DEF RunRecords, Steady, Platforms
<1>6. Steady(r)'
  <2>1. runs'[r].build \in 1 .. builds'
    BY <1>2, <1>3, <1>5 DEF Steady, Platforms
  <2>2. Uploaded(r)'
    BY <1>5 DEF Uploaded
  <2>3. /\ arch = "amd64" => <<runs'[r].build, "amd64">> \in approved'
        /\ arch = "arm64" => /\ <<runs'[r].build, "amd64">> \in approved'
                             /\ <<runs'[r].build, "arm64">> \in approved'
    BY <1>2, <1>3, <1>5 DEF Steady
  <2> QED
    BY <1>5, <2>1, <2>2, <2>3 DEF Steady, Platforms
<1>7. OwnBuild(r)
  BY <1>2, <1>5 DEF OwnBuild, Platforms
<1>8. builds <= builds' /\ approved \subseteq approved'
  BY <1>1, <1>2
<1> QED
  BY <1>2, <1>4, <1>6, <1>7, <1>8, JobsQuiet

LEMMA JobsBuild ==
  ASSUME TypeOK, TypeOK', JobsInv, NEW r \in Runs, BuildImages(r)
  PROVE  JobsInv' /\ \A s \in Runs : OwnBuild(s)
<1>1. runs \in [Runs -> RunRecords] /\ runs[r] \in RunRecords /\ builds \in Nat
  BY RunFacts, PipelineAssumption DEF PipelineAssumption, TypeOK
<1>2. /\ runs' = [runs EXCEPT ![r].step = "amd64", ![r].build = builds + 1]
      /\ runs[r].step = "start" /\ InContainer(r) /\ builds' = builds + 1
      /\ UNCHANGED <<images, approved>>
  BY DEF BuildImages, InJob, InContainer
<1>3. runs[r].pushed = 0
  BY <1>2 DEF JobsInv, Steady
<1>4. /\ \A s \in Runs \ {r} : runs'[s] = runs[s]
      /\ runs'[r].step = "amd64" /\ runs'[r].build = builds + 1 /\ runs'[r].pushed = 0
  BY <1>1, <1>2, <1>3 DEF RunRecords
<1>5. Steady(r)'
  <2>1. Uploaded(r)'
    BY <1>4 DEF Uploaded
  <2>2. runs'[r].build \in 1 .. builds'
    BY <1>1, <1>2, <1>4
  <2> QED
    BY <1>4, <2>1, <2>2 DEF Steady
<1>6. OwnBuild(r)
  BY <1>2, <1>4 DEF OwnBuild
<1>7. builds <= builds'
  BY <1>1, <1>2
<1> QED
  BY <1>2, <1>4, <1>5, <1>6, <1>7, JobsQuiet

\* The checks before and after pushing.
LEMMA JobsCheck ==
  ASSUME TypeOK, TypeOK', JobsInv, NEW r \in Runs, CheckRefs(r) \/ RecordIndex(r)
  PROVE  JobsInv' /\ \A s \in Runs : OwnBuild(s)
<1>1. runs \in [Runs -> RunRecords] /\ runs[r] \in RunRecords /\ builds \in Nat
  BY RunFacts, PipelineAssumption DEF PipelineAssumption, TypeOK
<1>2. PICK step \in {"push", "attest"} :
        /\ runs' = [runs EXCEPT ![r].step = step]
        /\ runs[r].step = IF step = "push" THEN "check" ELSE "verify"
        /\ InContainer(r) /\ UNCHANGED <<images, builds, approved>>
  BY DEF CheckRefs, RecordIndex, InJob, InContainer
<1>3. /\ \A s \in Runs \ {r} : runs'[s] = runs[s]
      /\ runs'[r].step = step /\ runs'[r].build = runs[r].build /\ runs'[r].pushed = runs[r].pushed
      /\ runs'[r].digests = runs[r].digests /\ runs'[r].index = runs[r].index
  BY <1>1, <1>2 DEF RunRecords
<1>4. Steady(r) /\ Uploaded(r)
  BY <1>2 DEF JobsInv, Steady
<1>5. Uploaded(r)'
  BY <1>2, <1>3, <1>4 DEF Uploaded, Tag, Commit, Made
<1>6. Steady(r)'
  BY <1>2, <1>3, <1>4, <1>5 DEF Steady
<1>7. OwnBuild(r)
  BY <1>2, <1>3 DEF OwnBuild
<1>8. builds <= builds'
  BY <1>1, <1>2
<1> QED
  BY <1>2, <1>3, <1>6, <1>7, <1>8, JobsQuiet

\* What the run that pushes has pushed is what it says.
LEMMA UploadedPush ==
  ASSUME TypeOK, JobsInv, NEW r \in Runs, Push(r), runs'[r].step # "refused"
  PROVE  Uploaded(r)' /\ runs'[r].build = runs[r].build
<1>1. /\ runs \in [Runs -> RunRecords] /\ runs[r] \in RunRecords /\ Tag(r) # Commit(r)
      /\ DOMAIN images = Refs
      /\ \A name \in {Tag(r), Commit(r)}, kind \in Platforms \cup {"index"} : <<name, kind>> \in Refs
  BY RunFacts DEF TypeOK, Refs
<1>2. Uploaded(r)
  BY PushFacts DEF JobsInv, Steady, InJob, InContainer
<1>3. /\ RefsOf(r)[1] = <<Tag(r), "amd64">> /\ RefsOf(r)[2] = <<Commit(r), "amd64">>
      /\ RefsOf(r)[3] = <<Tag(r), "arm64">> /\ RefsOf(r)[4] = <<Commit(r), "arm64">>
      /\ RefsOf(r)[5] = <<Tag(r), "index">> /\ RefsOf(r)[6] = <<Commit(r), "index">>
  BY DEF RefsOf
<1>4. ASSUME NEW arch \in Platforms, PushVersion(r, arch)
      PROVE  Uploaded(r)' /\ runs'[r].build = runs[r].build
  <2>1. /\ runs[r].pushed = IF arch = "amd64" THEN 0 ELSE 2
        /\ images' = [images EXCEPT ![<<Tag(r), arch>>] = <<runs[r].build, arch>>]
    <3>1. runs[r].pushed = IF arch = "amd64" THEN 0 ELSE 2
      BY <1>4 DEF PushVersion, Pushing
    <3>2. RefsOf(r)[runs[r].pushed + 1] = <<Tag(r), arch>>
      BY <1>3, <3>1 DEF Platforms
    <3> QED
      BY <1>4, <3>1, <3>2 DEF PushVersion, Pushed
  <2>2. /\ runs'[r].pushed = runs[r].pushed + 1 /\ runs'[r].build = runs[r].build
        /\ runs'[r].digests = runs[r].digests
    BY <1>1, <1>4 DEF PushVersion, RunRecords
  <2>3. /\ images'[<<Tag(r), arch>>] = <<runs[r].build, arch>>
        /\ \A name \in {Tag(r), Commit(r)}, kind \in Platforms \cup {"index"} :
             name # Tag(r) \/ kind # arch => images'[<<name, kind>>] = images[<<name, kind>>]
    BY <1>1, <2>1
  <2> QED
    BY <1>1, <1>2, <2>1, <2>2, <2>3 DEF Uploaded, Tag, Commit, Platforms
<1>5. ASSUME NEW arch \in Platforms, PushCommit(r, arch)
      PROVE  Uploaded(r)' /\ runs'[r].build = runs[r].build
  <2>1. /\ runs[r].pushed = IF arch = "amd64" THEN 1 ELSE 3
        /\ images' = [images EXCEPT ![<<Commit(r), arch>>] = <<runs[r].build, arch>>]
    <3>1. runs[r].pushed = IF arch = "amd64" THEN 1 ELSE 3
      BY <1>5 DEF PushCommit, Pushing
    <3>2. RefsOf(r)[runs[r].pushed + 1] = <<Commit(r), arch>>
      BY <1>3, <3>1 DEF Platforms
    <3> QED
      BY <1>5, <3>1, <3>2 DEF PushCommit, Pushed
  <2>2. /\ runs'[r].pushed = runs[r].pushed + 1 /\ runs'[r].build = runs[r].build
        /\ runs'[r].digests = [runs[r].digests EXCEPT ![arch] = images'[<<Tag(r), arch>>]]
    BY <1>1, <1>5 DEF PushCommit, RunRecords
  <2>3. /\ images'[<<Commit(r), arch>>] = <<runs[r].build, arch>>
        /\ \A name \in {Tag(r), Commit(r)}, kind \in Platforms \cup {"index"} :
             name # Commit(r) \/ kind # arch => images'[<<name, kind>>] = images[<<name, kind>>]
    BY <1>1, <2>1
  <2>4. /\ runs'[r].digests[arch] = <<runs[r].build, arch>>
        /\ \A other \in Platforms \ {arch} : runs'[r].digests[other] = runs[r].digests[other]
    <3>1. images[<<Tag(r), arch>>] = <<runs[r].build, arch>>
      BY <1>2, <2>1 DEF Uploaded, Platforms
    <3>2. runs[r].digests \in [Platforms -> PlatformImages \cup {None}]
      BY <1>1 DEF RunRecords
    <3> QED
      BY <1>1, <2>2, <2>3, <3>1, <3>2
  <2> QED
    BY <1>1, <1>2, <2>1, <2>2, <2>3, <2>4 DEF Uploaded, Tag, Commit, Platforms
<1>6. ASSUME PushVersionIndex(r)
      PROVE  Uploaded(r)' /\ runs'[r].build = runs[r].build
  <2>1. PICK index \in Made(runs[r].digests) :
          /\ runs[r].pushed = 4
          /\ images' = [images EXCEPT ![<<Tag(r), "index">>] = index]
          /\ runs' = [runs EXCEPT ![r].pushed = 5, ![r].index = index]
    <3>1. runs[r].pushed = 4
      BY <1>6 DEF PushVersionIndex, Pushing
    <3>2. RefsOf(r)[runs[r].pushed + 1] = <<Tag(r), "index">>
      BY <1>3, <3>1
    <3> QED
      BY <1>6, <3>1, <3>2 DEF PushVersionIndex, Pushed
  <2>2. /\ runs'[r].pushed = 5 /\ runs'[r].build = runs[r].build /\ runs'[r].index = index
        /\ runs'[r].digests = runs[r].digests
    BY <1>1, <2>1 DEF RunRecords
  <2>3. /\ images'[<<Tag(r), "index">>] = index
        /\ \A name \in {Tag(r), Commit(r)}, arch \in Platforms :
             images'[<<name, arch>>] = images[<<name, arch>>]
    BY <1>1, <2>1 DEF Platforms
  <2>4. /\ images[<<Tag(r), "amd64">>] = <<runs[r].build, "amd64">>
        /\ images[<<Commit(r), "amd64">>] = <<runs[r].build, "amd64">>
        /\ runs[r].digests["amd64"] = <<runs[r].build, "amd64">>
        /\ images[<<Tag(r), "arm64">>] = <<runs[r].build, "arm64">>
        /\ images[<<Commit(r), "arm64">>] = <<runs[r].build, "arm64">>
        /\ runs[r].digests["arm64"] = <<runs[r].build, "arm64">>
    BY <1>2, <2>1 DEF Uploaded
  <2>5. \A arch \in {"amd64", "arm64"} :
          /\ images'[<<Tag(r), arch>>] = images[<<Tag(r), arch>>]
          /\ images'[<<Commit(r), arch>>] = images[<<Commit(r), arch>>]
    BY <2>3 DEF Platforms
  <2>6. /\ images'[<<Tag(r), "amd64">>] = <<runs'[r].build, "amd64">>
        /\ images'[<<Commit(r), "amd64">>] = <<runs'[r].build, "amd64">>
        /\ runs'[r].digests["amd64"] = <<runs'[r].build, "amd64">>
        /\ images'[<<Tag(r), "arm64">>] = <<runs'[r].build, "arm64">>
        /\ images'[<<Commit(r), "arm64">>] = <<runs'[r].build, "arm64">>
        /\ runs'[r].digests["arm64"] = <<runs'[r].build, "arm64">>
    BY <2>2, <2>4, <2>5
  <2>7. images'[<<Tag(r), "index">>] = runs'[r].index
    BY <2>2, <2>3
  <2>8. runs'[r].index \in Made(runs'[r].digests)
    BY <2>1, <2>2
  <2>9. runs'[r].pushed = 5
    BY <2>2
  <2>10. Uploaded(r)'
    BY <2>6, <2>7, <2>8, <2>9 DEF Uploaded
  <2> QED
    BY <2>2, <2>10
<1>7. ASSUME PushCommitIndex(r)
      PROVE  Uploaded(r)' /\ runs'[r].build = runs[r].build
  <2>1. PICK index \in Made(runs[r].digests) :
          /\ runs[r].pushed = 5
          /\ images' = [images EXCEPT ![<<Commit(r), "index">>] = index]
          /\ runs' = [runs EXCEPT ![r].pushed = 6,
               ![r].step = IF index = runs[r].index /\ index # None THEN "verify" ELSE "refused"]
    <3>1. runs[r].pushed = 5
      BY <1>7 DEF PushCommitIndex, Pushing
    <3>2. RefsOf(r)[runs[r].pushed + 1] = <<Commit(r), "index">>
      BY <1>3, <3>1
    <3> QED
      BY <1>7, <3>1, <3>2 DEF PushCommitIndex, Pushed
  <2>2. /\ runs'[r].pushed = 6 /\ runs'[r].build = runs[r].build
        /\ runs'[r].index = runs[r].index /\ runs[r].index = index
        /\ runs'[r].digests = runs[r].digests
    BY <1>1, <2>1 DEF RunRecords
  <2>3. /\ images'[<<Commit(r), "index">>] = index
        /\ images'[<<Tag(r), "index">>] = images[<<Tag(r), "index">>]
        /\ \A name \in {Tag(r), Commit(r)}, arch \in Platforms :
             images'[<<name, arch>>] = images[<<name, arch>>]
    BY <1>1, <2>1 DEF Platforms
  <2>4. /\ \A arch \in Platforms :
             /\ images[<<Tag(r), arch>>] = <<runs[r].build, arch>>
             /\ images[<<Commit(r), arch>>] = <<runs[r].build, arch>>
             /\ runs[r].digests[arch] = <<runs[r].build, arch>>
        /\ images[<<Tag(r), "index">>] = index /\ index \in Made(runs[r].digests)
    BY <1>2, <2>1, <2>2 DEF Uploaded, Platforms
  <2> QED
    BY <2>2, <2>3, <2>4 DEF Uploaded, Tag, Commit, Platforms, Made
<1> QED
  BY <1>4, <1>5, <1>6, <1>7 DEF Push

LEMMA JobsPush ==
  ASSUME TypeOK, TypeOK', RunsInv, JobsInv, NEW r \in Runs, Push(r)
  PROVE  JobsInv' /\ \A s \in Runs : OwnBuild(s)
<1>1. /\ runs \in [Runs -> RunRecords] /\ runs[r] \in RunRecords /\ builds \in Nat
  BY RunFacts, PipelineAssumption DEF PipelineAssumption, TypeOK
<1>2. /\ InJob(r, "container", "push") /\ runs[r].pushed \in 0 .. 5
      /\ runs'[r].pushed = runs[r].pushed + 1
      /\ \A s \in Runs \ {r} : runs'[s] = runs[s]
  BY PushFacts
<1>3. UNCHANGED <<builds, approved>>
  BY DEF Push, PushVersion, PushCommit, PushVersionIndex, PushCommitIndex
<1>4. /\ runs'[r].build = runs[r].build
      /\ runs'[r].step \in {"push", "verify", "refused"}
      /\ runs'[r].step = "verify" => runs'[r].pushed = 6
  <2>1. ASSUME NEW arch \in Platforms, PushVersion(r, arch) PROVE <1>4
    BY <1>1, <1>2, <2>1 DEF PushVersion, RunRecords, InJob
  <2>2. ASSUME NEW arch \in Platforms, PushCommit(r, arch) PROVE <1>4
    <3>1. PICK digest, fine :
            runs' = [runs EXCEPT ![r].pushed = @ + 1, ![r].digests[arch] = digest,
                                 ![r].step = IF fine THEN @ ELSE "refused"]
      BY <2>2 DEF PushCommit
    <3> QED
      BY <1>1, <1>2, <3>1 DEF RunRecords, InJob
  <2>3. CASE PushVersionIndex(r)
    BY <1>1, <1>2, <2>3 DEF PushVersionIndex, RunRecords, InJob
  <2>4. CASE PushCommitIndex(r)
    BY <1>1, <1>2, <2>4 DEF PushCommitIndex, Pushing, RunRecords, InJob
  <2> QED
    BY <2>1, <2>2, <2>3, <2>4 DEF Push
<1>5. Steady(r)'
  <2>1. Steady(r) /\ InContainer(r)
    BY <1>2 DEF JobsInv, InJob, InContainer
  <2>2. runs'[r].step # "refused" => Uploaded(r)'
    BY UploadedPush
  <2> QED
    BY <1>2, <1>3, <1>4, <2>1, <2>2 DEF Steady, InJob
<1>6. OwnBuild(r)
  BY <1>2, <1>4 DEF OwnBuild, InJob, InContainer
<1>7. builds <= builds' /\ approved \subseteq approved'
  BY <1>1, <1>3
<1>8. \A s \in Runs \ {r} : InContainer(s) => TagsLeft(s)
  BY PushLeaves
<1> QED
  BY <1>2, <1>5, <1>6, <1>7, <1>8, JobsStep

LEMMA JobsReleaseStep ==
  ASSUME TypeOK, TypeOK', RunsInv, JobsInv, NEW r \in Runs, ReleaseStep(r)
  PROVE  JobsInv' /\ \A s \in Runs : OwnBuild(s)
<1> DEFINE Goal == JobsInv' /\ \A s \in Runs : OwnBuild(s)
<1>1. runs \in [Runs -> RunRecords] /\ runs[r] \in RunRecords
  BY RunFacts
<1>2. ASSUME NEW record, runs' = [runs EXCEPT ![r] = record],
             UNCHANGED <<builds, approved, images>>,
             \/ record.status # "running" \/ record.job # "container"
             \/ record.step = "start" /\ record.build = 0 /\ record.pushed = 0
      PROVE  Goal
  BY <1>1, <1>2, JobsOutside DEF InContainer
<1>3. CASE PushTag(r)
  <2>1. [runs[r] EXCEPT !.status = "queued"].status # "running"
    BY <1>1 DEF RunRecords
  <2> QED
    BY <1>2, <1>3, <2>1 DEF PushTag
<1>4. ASSUME NEW job \in {"packages", "container", "release"} PROVE
        /\ Started(r, job).step = "start" /\ Started(r, job).build = 0
        /\ Started(r, job).pushed = 0 /\ Started(r, job).job = job
  BY DEF Started, NewRun
<1>5. ASSUME NEW job \in {"packages", "container", "release"}, Start(r, job) PROVE Goal
  BY <1>2, <1>4, <1>5 DEF Start
<1>6. \A status \in {"failed", "success"} : Ended(r, status).status # "running"
  BY DEF Ended, NewRun
<1>7. CASE Fail(r)
  BY <1>2, <1>6, <1>7 DEF Fail
<1>8. CASE BuildPackages(r)
  BY <1>2, <1>4, <1>8 DEF BuildPackages
<1>9. CASE FinishContainer(r)
  <2>1. [Started(r, "release") EXCEPT !.output = runs[r].index].job # "container"
    BY DEF Started, NewRun
  <2> QED
    BY <1>2, <1>9, <2>1 DEF FinishContainer
<1>10. CASE PublishRelease(r)
  BY <1>2, <1>6, <1>10 DEF PublishRelease
<1>11. CASE RemoveImages(r)
  <2>1. UNCHANGED <<runs, builds, approved>>
    BY <1>11 DEF RemoveImages
  <2>2. \A s \in Runs : InContainer(s) => TagsLeft(s)
    BY <1>11, RemovalLeaves
  <2>3. builds \in Nat /\ builds <= builds'
    BY <2>1, PipelineAssumption DEF PipelineAssumption, TypeOK
  <2>4. Steady(r)'
    BY <2>1, <2>2, <2>3, SteadyKept DEF JobsInv
  <2>5. OwnBuild(r)
    BY <2>1 DEF OwnBuild, InContainer
  <2> QED
    BY <2>1, <2>2, <2>3, <2>4, <2>5, JobsStep
<1>12. ASSUME NEW arch \in Platforms, Scan(r, arch) PROVE Goal
  BY <1>12, JobsScan
<1>13. CASE BuildImages(r)
  BY <1>13, JobsBuild
<1>14. CASE CheckRefs(r) \/ RecordIndex(r)
  BY <1>14, JobsCheck
<1>15. CASE Push(r)
  BY <1>15, JobsPush
<1> QED
  BY <1>3, <1>5, <1>7, <1>8, <1>9, <1>10, <1>11, <1>12, <1>13, <1>14, <1>15 DEF ReleaseStep, Push

LEMMA JobsNext ==
  ASSUME TypeOK, TypeOK', RunsInv, JobsInv, [Next]_vars
  PROVE  JobsInv' /\ \A s \in Runs : OwnBuild(s)
<1>1. CASE \E r \in Runs : ReleaseStep(r)
  BY <1>1, JobsReleaseStep
<1>2. ASSUME UNCHANGED <<images, builds, approved>>,
             \A s \in Runs : /\ InContainer(s)' <=> InContainer(s)
                             /\ runs'[s].step = runs[s].step /\ runs'[s].build = runs[s].build
                             /\ runs'[s].pushed = runs[s].pushed /\ runs'[s].index = runs[s].index
                             /\ runs'[s].digests = runs[s].digests
      PROVE  JobsInv' /\ \A s \in Runs : OwnBuild(s)
  <2>1. ASSUME NEW s \in Runs PROVE Steady(s)'
    <3>1. Steady(s)
      BY DEF JobsInv
    <3>2. Uploaded(s) => Uploaded(s)'
      BY <1>2 DEF Uploaded, Tag, Commit, Made
    <3> QED
      BY <1>2, <3>1, <3>2 DEF Steady
  <2>2. OwnBuilds'
    BY <1>2 DEF JobsInv, OwnBuilds
  <2>3. \A s \in Runs : OwnBuild(s)
    BY <1>2 DEF OwnBuild
  <2> QED
    BY <2>1, <2>2, <2>3 DEF JobsInv
<1>3. CASE Tick
  BY <1>2, <1>3, RunFacts DEF Tick, RunRecords, InContainer
<1>4. CASE UNCHANGED <<runs, images, builds, approved>>
  BY <1>2, <1>4 DEF InContainer
<1>5. ASSUME NEW r \in Runs, RegistryStep(r) PROVE UNCHANGED <<runs, images, builds, approved>>
  BY <1>5 DEF RegistryStep, Handoff, Precheck, PublishEntry, VerifyEntry, RegistryEnds,
     RegistryRerun, releaseVars
<1> QED
  BY <1>1, <1>3, <1>4, <1>5 DEF Next, vars, releaseVars

LEMMA JobsInit == Init => JobsInv
BY DEF Init, NewRun, JobsInv, Steady, OwnBuilds, InContainer

----------------------------------------------------------------------------
\* Documents.  Evidence that names an index was written when all six tags of
\* the build were pushed; from then on the tags stand or fall together, since
\* no other run has that build to push.

Whole(v, c, index, digests) ==
  images[<<v, "index">>] = index =>
    /\ images[<<c, "index">>] = index
    /\ \A name \in {v, c}, arch \in Platforms : images[<<name, arch>>] = digests[arch]

Sound(v, c, index, digests) ==
  /\ VersionOf[c] = v /\ index # None
  /\ {index[i].digest : i \in DOMAIN index} = Range(digests)
  /\ Range(digests) \subseteq approved
  /\ \E b \in 1 .. builds :
       /\ digests = [arch \in Platforms |-> <<b, arch>>]
       /\ \A s \in Runs : InContainer(s) /\ runs[s].step # "attest" => runs[s].build # b
  /\ Whole(v, c, index, digests)

Documented(r, files) ==
  <<"index", "digest">> \in DOMAIN files =>
    /\ <<"index", "platforms">> \in DOMAIN files
    /\ Sound(Tag(r), Commit(r), files[<<"index", "digest">>],
             files[<<"index", "platforms">>].platforms)

ReleaseSound(v) ==
  releases[v] # None =>
    /\ releases[v].commit \in Commits
    /\ Sound(v, releases[v].commit, releases[v].index,
             releases[v].evidence[<<"index", "platforms">>].platforms)

DocumentsInv ==
  /\ \A r \in Runs : Documented(r, directory[r])
  /\ \A r \in Runs : \A e \in evidence[r] : Documented(r, e.files)
  /\ \A v \in Versions : ReleaseSound(v)

\* The digests an index lists.
LEMMA MadeDigests ==
  ASSUME NEW digests, NEW index \in Made(digests)
  PROVE  /\ index # << >> /\ index[1].digest = digests["amd64"] /\ 1 \in DOMAIN index
         /\ {index[i].digest : i \in DOMAIN index} = {digests["amd64"], digests["arm64"]}
BY DEF Made

\* A version's index tag is pushed by a run of that version, for its own images.
LEMMA IndexPush ==
  ASSUME TypeOK, JobsInv, NEW r \in Runs, Push(r), NEW v \in Versions,
         images'[<<v, "index">>] # images[<<v, "index">>]
  PROVE  images'[<<v, "index">>] \in Made(runs[r].digests)
         /\ runs[r].digests["amd64"] = <<runs[r].build, "amd64">>
<1> DEFINE next == runs[r].pushed + 1
<1>1. PICK digest : images' = [images EXCEPT ![RefsOf(r)[next]] = digest]
  BY PushFacts
<1>2. RefsOf(r)[next] = <<v, "index">>
  BY <1>1 DEF TypeOK
<1>3. /\ Tag(r) \in Versions /\ Commit(r) \in Commits /\ Versions \cap Commits = {}
      /\ next \in 1 .. 6 /\ InJob(r, "container", "push") /\ runs[r].pushed \in 0 .. 5
  BY PushFacts, RunFacts, PipelineAssumption DEF PipelineAssumption
<1>4. next = 5
  <2> HIDE DEF next
  <2>1. /\ RefsOf(r)[1] = <<Tag(r), "amd64">> /\ RefsOf(r)[2] = <<Commit(r), "amd64">>
        /\ RefsOf(r)[3] = <<Tag(r), "arm64">> /\ RefsOf(r)[4] = <<Commit(r), "arm64">>
        /\ RefsOf(r)[6] = <<Commit(r), "index">>
    BY DEF RefsOf
  <2>2. Commit(r) # v
    BY <1>3
  <2> QED
    BY <1>2, <1>3, <2>1, <2>2
<1>5. runs[r].pushed = 4
  BY <1>3, <1>4
<1>6. PushVersionIndex(r)
  BY <1>5 DEF Push, PushVersion, PushCommit, PushCommitIndex, Pushing
<1>7. images'[<<v, "index">>] \in Made(runs[r].digests)
  <2>1. PICK index \in Made(runs[r].digests) : Pushed(r, index)
    BY <1>6 DEF PushVersionIndex
  <2>2. images' = [images EXCEPT ![<<v, "index">>] = index]
    BY <1>2, <2>1 DEF Pushed
  <2>3. <<v, "index">> \in DOMAIN images
    BY DEF TypeOK, Refs
  <2> QED
    BY <2>1, <2>2, <2>3
<1>8. Uploaded(r)
  BY <1>3 DEF JobsInv, Steady, InJob, InContainer
<1> QED
  BY <1>5, <1>7, <1>8 DEF Uploaded

\* The builds and the scans that passed only grow.
LEMMA Growing ==
  ASSUME TypeOK, [Next]_vars
  PROVE  builds \in Nat /\ builds' \in Nat /\ builds <= builds' /\ approved \subseteq approved'
<1>1. builds \in Nat
  BY PipelineAssumption DEF PipelineAssumption, TypeOK
<1>2. builds' \in {builds, builds + 1} /\ approved \subseteq approved'
  <2>1. ASSUME NEW r \in Runs, ReleaseStep(r) PROVE <1>2
    BY <2>1 DEF ReleaseStep, PushTag, Start, Fail, BuildPackages, BuildImages, Scan, CheckRefs,
       PushVersion, PushCommit, PushVersionIndex, PushCommitIndex, RecordIndex, FinishContainer,
       PublishRelease, RemoveImages
  <2>2. ASSUME NEW r \in Runs, RegistryStep(r) PROVE <1>2
    BY <2>2 DEF RegistryStep, Handoff, Precheck, PublishEntry, VerifyEntry, RegistryEnds,
       RegistryRerun, releaseVars
  <2>3. CASE Tick \/ UNCHANGED vars
    BY <2>3 DEF Tick, vars, releaseVars
  <2> QED
    BY <2>1, <2>2, <2>3 DEF Next
<1> QED
  BY <1>1, <1>2

\* What a sound document says stays true.
LEMMA SoundKept ==
  ASSUME InspectReliable, TypeOK, TypeOK', RunsInv, AheadFree, JobsInv, [Next]_vars,
         NEW v \in Versions, NEW c \in Commits, NEW index, NEW digests,
         Sound(v, c, index, digests)
  PROVE  Sound(v, c, index, digests)'
<1>1. builds \in Nat /\ builds' \in Nat /\ builds <= builds' /\ approved \subseteq approved'
  BY Growing
<1>2. PICK b \in 1 .. builds :
        /\ digests = [arch \in Platforms |-> <<b, arch>>]
        /\ \A s \in Runs : InContainer(s) /\ runs[s].step # "attest" => runs[s].build # b
  BY DEF Sound
<1>3. b \in 1 .. builds'
  BY <1>1
<1>4. ASSUME NEW s \in Runs, InContainer(s)', runs'[s].step # "attest" PROVE runs'[s].build # b
  <2>1. OwnBuild(s)
    BY JobsNext
  <2>2. b # builds + 1 /\ b # 0
    BY <1>1
  <2> QED
    BY <1>2, <1>4, <2>1, <2>2 DEF OwnBuild
<1>5. index # None /\ \A arch \in Platforms : digests[arch] = <<b, arch>> /\ digests[arch] # None
  BY <1>1, <1>2, ImageAssumption DEF ImageAssumption, PlatformImages, Sound
<1>6. /\ \A kind \in Platforms \cup {"index"} : {<<v, kind>>, <<c, kind>>} \subseteq Refs
      /\ v \notin Commits /\ c \notin Versions
  BY PipelineAssumption DEF PipelineAssumption, Refs
<1>7. Whole(v, c, index, digests)'
  <2>1. ASSUME UNCHANGED images PROVE <1>7
    BY <2>1 DEF Whole, Sound
  <2>2. ASSUME NEW r \in Runs, Push(r) PROVE <1>7
    <3>1. CASE images[<<v, "index">>] = index
      BY <1>5, <1>6, <2>2, <3>1, AheadPush DEF Whole, Sound
    <3>2. CASE images'[<<v, "index">>] = images[<<v, "index">>] /\ images[<<v, "index">>] # index
      BY <3>2 DEF Whole
    <3>3. ASSUME images'[<<v, "index">>] # images[<<v, "index">>], images'[<<v, "index">>] = index
          PROVE  FALSE
      <4>1. /\ index \in Made(runs[r].digests)
            /\ runs[r].digests["amd64"] = <<runs[r].build, "amd64">>
        BY <2>2, <3>3, IndexPush
      <4>2. <<runs[r].build, "amd64">> \in Range(digests)
        BY <4>1, MadeDigests DEF Sound
      <4>3. runs[r].build = b
        BY <1>2, <4>2 DEF Range
      <4> QED
        BY <1>2, <2>2, <4>3, PushFacts DEF InJob, InContainer
    <3> QED
      BY <3>1, <3>2, <3>3 DEF Whole
  <2>3. ASSUME NEW r \in Runs, RemoveImages(r) PROVE <1>7
    <3>1. /\ \A ref \in Refs : images'[ref] =
               IF ref[1] = Tag(r) \/ (ref[1] \in Commits /\ VersionOf[ref[1]] = Tag(r))
                 THEN None ELSE images[ref]
          /\ Tag(r) \in Versions
      BY <2>3, RunFacts DEF RemoveImages
    <3>2. CASE v = Tag(r)
      BY <1>5, <1>6, <3>1, <3>2 DEF Whole
    <3>3. CASE v # Tag(r)
      <4>1. \A kind \in Platforms \cup {"index"} :
              /\ images'[<<v, kind>>] = images[<<v, kind>>]
              /\ images'[<<c, kind>>] = images[<<c, kind>>]
        BY <1>6, <3>1, <3>3 DEF Sound
      <4> QED
        BY <4>1 DEF Whole, Sound
    <3> QED
      BY <3>2, <3>3
  <2>4. ASSUME NEW r \in Runs, ReleaseStep(r), ~Push(r), ~RemoveImages(r) PROVE UNCHANGED images
    BY <2>4 DEF ReleaseStep, Push, PushTag, Start, Fail, BuildPackages, BuildImages, Scan,
       CheckRefs, RecordIndex, FinishContainer, PublishRelease
  <2>5. ASSUME NEW r \in Runs, RegistryStep(r) PROVE UNCHANGED images
    BY <2>5 DEF RegistryStep, Handoff, Precheck, PublishEntry, VerifyEntry, RegistryEnds,
       RegistryRerun, releaseVars
  <2>6. Tick \/ UNCHANGED vars => UNCHANGED images
    BY DEF Tick, vars, releaseVars
  <2> QED
    BY <2>1, <2>2, <2>3, <2>4, <2>5, <2>6 DEF Next
<1> QED
  BY <1>1, <1>2, <1>3, <1>4, <1>7 DEF Sound

\* What is written when all tags are pushed is sound.
LEMMA SoundRecorded ==
  ASSUME TypeOK, RunsInv, JobsInv, NEW r \in Runs, RecordIndex(r),
         NEW index, index = runs[r].index, NEW digests, digests = runs[r].digests
  PROVE  Sound(Tag(r), Commit(r), index, digests)'
<1> DEFINE b == runs[r].build
<1>1. /\ runs \in [Runs -> RunRecords] /\ digests \in [Platforms -> PlatformImages \cup {None}]
  BY RunFacts DEF RunRecords
<1>2. /\ runs[r].step = "verify" /\ InContainer(r) /\ runs[r].job # "packages"
      /\ runs' = [runs EXCEPT ![r].step = "attest"]
      /\ UNCHANGED <<images, builds, approved>>
  BY DEF RecordIndex, InJob, InContainer
<1>3. /\ b \in 1 .. builds /\ runs[r].pushed = 6 /\ Uploaded(r)
      /\ <<b, "amd64">> \in approved /\ <<b, "arm64">> \in approved
  BY <1>2 DEF JobsInv, Steady
<1>4. VersionOf[Commit(r)] = Tag(r) /\ index # None
  BY <1>2 DEF RunsInv, Identified, Recorded
<1>5. /\ images[<<Tag(r), "index">>] = index /\ images[<<Commit(r), "index">>] = index
      /\ index \in Made(digests)
      /\ \A arch \in Platforms : /\ images[<<Tag(r), arch>>] = <<b, arch>>
                                 /\ images[<<Commit(r), arch>>] = <<b, arch>>
                                 /\ digests[arch] = <<b, arch>>
  BY <1>3 DEF Uploaded, Platforms
<1>6. digests = [arch \in Platforms |-> <<b, arch>>]
  BY <1>1, <1>5
<1>7. Range(digests) = {<<b, "amd64">>, <<b, "arm64">>}
  BY <1>6 DEF Range, Platforms
<1>8. {index[i].digest : i \in DOMAIN index} = Range(digests)
  BY <1>5, <1>7, MadeDigests DEF Platforms
<1>9. ASSUME NEW s \in Runs, InContainer(s)', runs'[s].step # "attest" PROVE runs'[s].build # b
  <2>1. s # r
    BY <1>1, <1>2, <1>9 DEF RunRecords
  <2>2. runs'[s] = runs[s]
    BY <1>1, <1>2, <2>1
  <2>3. b # 0
    BY <1>3
  <2> QED
    BY <1>2, <1>9, <2>1, <2>2, <2>3 DEF JobsInv, OwnBuilds, InContainer
<1>10. Whole(Tag(r), Commit(r), index, digests)'
  BY <1>2, <1>5 DEF Whole, Tag, Commit
<1>11. \E m \in 1 .. builds' :
         /\ digests = [arch \in Platforms |-> <<m, arch>>]
         /\ \A s \in Runs : InContainer(s)' /\ runs'[s].step # "attest" => runs'[s].build # m
  BY <1>2, <1>3, <1>6, <1>9
<1>12. Range(digests) \subseteq approved'
  BY <1>2, <1>3, <1>7
<1> QED
  BY <1>4, <1>8, <1>10, <1>11, <1>12 DEF Sound, Tag, Commit

LEMMA DocumentedKept ==
  ASSUME InspectReliable, TypeOK, TypeOK', RunsInv, AheadFree, JobsInv, [Next]_vars,
         NEW r \in Runs, NEW files, Documented(r, files)
  PROVE  Documented(r, files)'
BY SoundKept, RunFacts DEF Documented, Tag, Commit

\* The parts of a directory that describe the index, if it is complete.
SameIndex(old, new) ==
  LET names == {"index"} \X {"digest", "platforms"}
  IN /\ <<"index", "digest">> \in DOMAIN new => <<"index", "digest">> \in DOMAIN old
     /\ names \subseteq DOMAIN old =>
          names \subseteq DOMAIN new /\ \A name \in names : new[name] = old[name]

LEMMA SameIndexDocumented ==
  ASSUME NEW r \in Runs, NEW old, NEW new, SameIndex(old, new) \/ new = old, Documented(r, old)
  PROVE  Documented(r, new)
<1> SUFFICES ASSUME <<"index", "digest">> \in DOMAIN new, SameIndex(old, new)
             PROVE  Documented(r, new)
  BY DEF Documented
<1>1. {"index"} \X {"digest", "platforms"} \subseteq DOMAIN old
  BY DEF SameIndex, Documented
<1>2. /\ <<"index", "platforms">> \in DOMAIN new
      /\ new[<<"index", "digest">>] = old[<<"index", "digest">>]
      /\ new[<<"index", "platforms">>] = old[<<"index", "platforms">>]
  BY <1>1 DEF SameIndex
<1> QED
  BY <1>1, <1>2 DEF Documented

\* What a step may write into a run's directory.
LEMMA DirectoryMoves ==
  ASSUME TypeOK, [Next]_vars, NEW r \in Runs
  PROVE  \/ directory'[r] = directory[r]
         \/ <<"index", "digest">> \notin DOMAIN directory'[r]
         \/ SameIndex(directory[r], directory'[r])
         \/ RecordIndex(r)
<1> DEFINE Goal == \/ directory'[r] = directory[r]
                   \/ <<"index", "digest">> \notin DOMAIN directory'[r]
                   \/ SameIndex(directory[r], directory'[r])
                   \/ RecordIndex(r)
<1>1. DOMAIN directory = Runs
  BY DEF TypeOK
<1>2. ASSUME NEW q \in Runs, BuildImages(q) PROVE Goal
  <2>1. PICK sbom : directory' = [directory EXCEPT ![q] = Written(<<>>, <<"sbom", "source">>, sbom)]
    BY <1>2 DEF BuildImages
  <2>2. DOMAIN Written(<<>>, <<"sbom", "source">>, sbom) = {<<"sbom", "source">>}
    BY DEF Written
  <2> QED
    BY <1>1, <2>1, <2>2
<1>3. ASSUME NEW q \in Runs, NEW arch \in Platforms, Scan(q, arch) PROVE Goal
  <2>1. PICK sbom, image, result : directory' = [directory EXCEPT ![q] =
            Written(Written(Written(@, <<"sbom", arch>>, sbom), <<"grype", arch>>, image),
                    <<"policy", arch>>, result)]
    BY <1>3 DEF Scan
  <2> DEFINE files == directory[q]
             more == Written(Written(Written(files, <<"sbom", arch>>, sbom),
                                     <<"grype", arch>>, image), <<"policy", arch>>, result)
  <2>2. SameIndex(files, more)
    BY DEF Written, SameIndex
  <2> QED
    BY <1>1, <2>1, <2>2
<1>4. ASSUME NEW q \in Runs, RecordIndex(q) PROVE Goal
  <2>1. q = r \/ directory'[r] = directory[r]
    BY <1>1, <1>4 DEF RecordIndex
  <2> QED
    BY <1>4, <2>1
<1>5. ASSUME NEW q \in Runs, Fail(q) \/ FinishContainer(q) PROVE Goal
  <2>1. directory' = [directory EXCEPT ![q] = <<>>]
    BY <1>5 DEF Fail, FinishContainer
  <2> QED
    BY <1>1, <2>1
<1>6. ASSUME NEW q \in Runs, ReleaseStep(q), ~BuildImages(q), \A arch \in Platforms : ~Scan(q, arch),
             ~RecordIndex(q), ~Fail(q), ~FinishContainer(q)
      PROVE  UNCHANGED directory
  BY <1>6 DEF ReleaseStep, PushTag, Start, BuildPackages, CheckRefs, PushVersion, PushCommit,
     PushVersionIndex, PushCommitIndex, PublishRelease, RemoveImages
<1>7. ASSUME NEW q \in Runs, RegistryStep(q) PROVE UNCHANGED directory
  BY <1>7 DEF RegistryStep, Handoff, Precheck, PublishEntry, VerifyEntry, RegistryEnds,
     RegistryRerun, releaseVars
<1>8. Tick \/ UNCHANGED vars => UNCHANGED directory
  BY DEF Tick, vars, releaseVars
<1> QED
  BY <1>2, <1>3, <1>4, <1>5, <1>6, <1>7, <1>8 DEF Next

LEMMA EvidenceMoves ==
  ASSUME TypeOK, [Next]_vars, NEW r \in Runs, NEW e \in evidence'[r]
  PROVE  e \in evidence[r] \/ e.files = directory[r]
<1>1. DOMAIN evidence = Runs
  BY DEF TypeOK
<1>2. ASSUME NEW q \in Runs, Fail(q) \/ FinishContainer(q) PROVE e \in evidence[r] \/ e.files = directory[r]
  <2>1. UNCHANGED evidence \/ evidence' = [evidence EXCEPT ![q] =
                                @ \cup {[files |-> directory[q], day |-> day]}]
    BY <1>2 DEF Fail, FinishContainer
  <2> QED
    BY <1>1, <2>1
<1>3. CASE Tick
  BY <1>3 DEF Tick, Kept
<1>4. ASSUME NEW q \in Runs, ReleaseStep(q), ~Fail(q), ~FinishContainer(q) PROVE UNCHANGED evidence
  BY <1>4 DEF ReleaseStep, PushTag, Start, BuildPackages, BuildImages, Scan, CheckRefs,
     PushVersion, PushCommit, PushVersionIndex, PushCommitIndex, RecordIndex, PublishRelease,
     RemoveImages
<1>5. ASSUME NEW q \in Runs, RegistryStep(q) PROVE UNCHANGED evidence
  BY <1>5 DEF RegistryStep, Handoff, Precheck, PublishEntry, VerifyEntry, RegistryEnds,
     RegistryRerun, releaseVars
<1>6. UNCHANGED vars => UNCHANGED evidence
  BY DEF vars, releaseVars
<1> QED
  BY <1>2, <1>3, <1>4, <1>5, <1>6 DEF Next

\* A release is made of an artifact that describes its index.
LEMMA ReleaseMoves ==
  ASSUME TypeOK, [Next]_vars, NEW v \in Versions
  PROVE  \/ releases'[v] = releases[v]
         \/ \E r \in Runs : \E e \in evidence[r] :
              /\ Tag(r) = v /\ DOMAIN e.files = EvidenceFiles
              /\ releases'[v].commit = Commit(r)
              /\ releases'[v].index = e.files[<<"index", "digest">>]
              /\ releases'[v].evidence = e.files
<1>1. DOMAIN releases = Versions
  BY DEF TypeOK
<1>2. ASSUME NEW r \in Runs, PublishRelease(r), releases'[v] # releases[v]
      PROVE  \E e \in evidence[r] :
               /\ Tag(r) = v /\ DOMAIN e.files = EvidenceFiles
               /\ releases'[v].commit = Commit(r)
               /\ releases'[v].index = e.files[<<"index", "digest">>]
               /\ releases'[v].evidence = e.files
  <2>1. PICK p \in packages[r], e \in evidence[r] :
          /\ PublicationAccepted(p.files, e.files, VersionOf[Commit(r)], Tag(r), Commit(r),
                                 runs[r].output)
          /\ releases' = [releases EXCEPT ![Tag(r)] =
               [commit |-> Commit(r), index |-> runs[r].output, packages |-> p.files,
                evidence |-> e.files, day |-> day]]
    BY <1>2 DEF PublishRelease
  <2>2. DOMAIN e.files = EvidenceFiles /\ e.files[<<"index", "digest">>] = runs[r].output
    BY <2>1 DEF PublicationAccepted
  <2> QED
    BY <1>1, <1>2, <2>1, <2>2
<1>3. ASSUME NEW r \in Runs, ReleaseStep(r), ~PublishRelease(r) PROVE UNCHANGED releases
  BY <1>3 DEF ReleaseStep, PushTag, Start, Fail, BuildPackages, BuildImages, Scan, CheckRefs,
     PushVersion, PushCommit, PushVersionIndex, PushCommitIndex, RecordIndex, FinishContainer,
     RemoveImages
<1>4. ASSUME NEW r \in Runs, RegistryStep(r) PROVE UNCHANGED releases
  BY <1>4 DEF RegistryStep, Handoff, Precheck, PublishEntry, VerifyEntry, RegistryEnds,
     RegistryRerun, releaseVars
<1>5. Tick \/ UNCHANGED vars => UNCHANGED releases
  BY DEF Tick, vars, releaseVars
<1> QED
  BY <1>2, <1>3, <1>4, <1>5 DEF Next

LEMMA DocumentsNext ==
  ASSUME InspectReliable, TypeOK, TypeOK', RunsInv, AheadFree, JobsInv, DocumentsInv, [Next]_vars
  PROVE  DocumentsInv'
<1>1. ASSUME NEW r \in Runs, NEW files, files = directory'[r]
      PROVE  Documented(r, files)'
  <2>1. PICK old : old = directory[r]
    OBVIOUS
  <2>2. Documented(r, old)
    BY <2>1 DEF DocumentsInv
  <2>3. CASE files = old \/ SameIndex(old, files)
    BY <2>2, <2>3, SameIndexDocumented, DocumentedKept
  <2>4. CASE <<"index", "digest">> \notin DOMAIN files
    BY <2>4 DEF Documented
  <2>5. CASE RecordIndex(r)
    <3>1. PICK index, digests : index = runs[r].index /\ digests = runs[r].digests
      OBVIOUS
    <3> DEFINE records == PlatformRecords(index, digests, Tag(r), Commit(r))
    <3>2. files = Written(Written(old, <<"index", "platforms">>, records),
                          <<"index", "digest">>, index)
      BY <1>1, <2>1, <2>5, <3>1 DEF RecordIndex, TypeOK
    <3>3. /\ files[<<"index", "digest">>] = index
          /\ <<"index", "platforms">> \in DOMAIN files
          /\ files[<<"index", "platforms">>].platforms = digests
      BY <3>2 DEF Written, PlatformRecords
    <3>4. Sound(Tag(r), Commit(r), index, digests)'
      BY <2>5, <3>1, SoundRecorded
    <3> QED
      BY <3>3, <3>4 DEF Documented, Tag, Commit
  <2> QED
    BY <1>1, <2>1, <2>3, <2>4, <2>5, DirectoryMoves
<1>2. ASSUME NEW r \in Runs, NEW e, e \in evidence'[r]
      PROVE  Documented(r, e.files)'
  <2>1. PICK files : files = e.files
    OBVIOUS
  <2>2. Documented(r, files)
    BY <1>2, <2>1, EvidenceMoves DEF DocumentsInv
  <2> QED
    BY <2>1, <2>2, DocumentedKept
<1>3. ASSUME NEW v \in Versions, NEW release, release = releases'[v], release # None
      PROVE  Sound(v, release.commit, release.index,
                   release.evidence[<<"index", "platforms">>].platforms)'
  <2> DEFINE digests == release.evidence[<<"index", "platforms">>].platforms
  <2>1. release.commit \in Commits
    BY <1>3 DEF TypeOK
  <2>2. Sound(v, release.commit, release.index, digests)
    <3>1. CASE releases[v] = release
      <4>1. ReleaseSound(v)
        BY DEF DocumentsInv
      <4> QED
        BY <1>3, <3>1, <4>1 DEF ReleaseSound
    <3>2. CASE releases[v] # release
      <4>1. PICK r \in Runs : \E e \in evidence[r] :
              /\ Tag(r) = v /\ DOMAIN e.files = EvidenceFiles
              /\ release.commit = Commit(r)
              /\ release.index = e.files[<<"index", "digest">>]
              /\ release.evidence = e.files
        BY <1>3, <3>2, ReleaseMoves
      <4>2. <<"index", "digest">> \in EvidenceFiles
        BY DEF EvidenceFiles
      <4> QED
        BY <4>1, <4>2 DEF DocumentsInv, Documented
    <3> QED
      BY <3>1, <3>2
  <2> HIDE DEF digests
  <2>3. Sound(v, release.commit, release.index, digests)'
    BY <2>1, <2>2, SoundKept
  <2> QED
    BY <2>3 DEF digests
<1>4. \A r \in Runs : Documented(r, directory[r])'
  BY <1>1
<1>5. \A r \in Runs : \A e \in evidence'[r] : Documented(r, e.files)'
  BY <1>2
<1>6. \A v \in Versions : ReleaseSound(v)'
  BY <1>3 DEF ReleaseSound, TypeOK
<1> QED
  BY <1>4, <1>5, <1>6 DEF DocumentsInv

LEMMA DocumentsInit == Init => DocumentsInv
BY DEF Init, DocumentsInv, Documented, ReleaseSound

\* While the image a release states is there, all tags of the release name its
\* parts, and the scan of each passed (ReleaseBacked of the release_pipeline run),
\* for any number of runs, if the registry answers when it is asked.
THEOREM BackedByScans ==
  ASSUME InspectReliable
  PROVE  Spec => []ReleaseBacked
<1>1. JobsInv /\ DocumentsInv => ReleaseBacked
  BY DEF DocumentsInv, ReleaseSound, Sound, Whole, ReleaseBacked
<1>2. Init => JobsInv /\ DocumentsInv
  BY JobsInit, DocumentsInit
<1>3. PipelineInv /\ PipelineInv' /\ JobsInv /\ DocumentsInv /\ [Next]_vars
        => JobsInv' /\ DocumentsInv'
  BY JobsNext, DocumentsNext DEF PipelineInv
<1> QED
  BY <1>1, <1>2, <1>3, PipelineInvariant, PTL DEF Spec

----------------------------------------------------------------------------
\* Archives.  Reading a name never fails, and the way it takes is the one that
\* Descend says, part by part.
LEMMA WalkEquation ==
  ASSUME NEW path, Len(path) \in Nat
  PROVE  Walk(path) = [i \in 0 .. Len(path) |->
           IF i = 0 THEN <<>> ELSE Descend(Walk(path)[i - 1], path[i])]
<1> DEFINE Is(at, n) ==
             at = [i \in 0 .. n |-> IF i = 0 THEN <<>> ELSE Descend(at[i - 1], path[i])]
           S == {n \in Nat : \E at : Is(at, n)}
<1>1. 0 \in S
  <2>1. Is([i \in 0 .. 0 |-> <<>>], 0)
    OBVIOUS
  <2> QED
    BY <2>1
<1>2. ASSUME NEW n \in Nat, n \in S PROVE n + 1 \in S
  <2>1. PICK at : Is(at, n)
    BY <1>2
  <2> DEFINE next == [i \in 0 .. n + 1 |->
                        IF i = n + 1 THEN Descend(at[n], path[n + 1]) ELSE at[i]]
  <2>2. Is(next, n + 1)
    <3>1. ASSUME NEW i \in 0 .. n + 1
          PROVE  next[i] = IF i = 0 THEN <<>> ELSE Descend(next[i - 1], path[i])
      <4>1. CASE i = n + 1
        BY <4>1
      <4>2. CASE i = 0
        BY <2>1, <4>2
      <4>3. CASE i \in 1 .. n
        BY <2>1, <4>3
      <4> QED
        BY <4>1, <4>2, <4>3
    <3> QED
      BY <3>1
  <2> HIDE DEF next, Is
  <2>3. \E g : Is(g, n + 1)
    BY <2>2
  <2> QED
    BY <2>3
<1>3. Len(path) \in S
  <2> HIDE DEF S
  <2> QED
    BY <1>1, <1>2, NatSetInduction
<1>4. Is(Walk(path), Len(path))
  <2>1. \E at : Is(at, Len(path))
    BY <1>3
  <2>2. Is(CHOOSE at : Is(at, Len(path)), Len(path))
    BY <2>1
  <2>3. Walk(path) = CHOOSE at : Is(at, Len(path))
    BY DEF Walk
  <2> QED
    BY <2>2, <2>3
<1> QED
  BY <1>4

\* One part after another.
LEMMA WalkSteps ==
  ASSUME NEW path, Len(path) \in Nat
  PROVE  /\ Walk(path)[0] = <<>>
         /\ \A i \in Nat : i < Len(path) =>
              Walk(path)[i + 1] = Descend(Walk(path)[i], path[i + 1])
<1>1. 0 \in 0 .. Len(path)
  OBVIOUS
<1>2. ASSUME NEW i \in Nat, i < Len(path)
      PROVE  Walk(path)[i + 1] = Descend(Walk(path)[i], path[i + 1])
  <2>1. i + 1 \in 0 .. Len(path) /\ i + 1 # 0 /\ (i + 1) - 1 = i
    BY <1>2
  <2> QED
    BY <2>1, WalkEquation
<1> QED
  BY <1>1, <1>2, WalkEquation

\* Reading plain parts goes down by each of them.
LEMMA WalkDown ==
  ASSUME NEW P, NEW path \in Seq(P), NEW n \in Nat, n <= Len(path),
         \A i \in 1 .. n : path[i] \notin {Empty, ".", ".."}
  PROVE  Walk(path)[n] = SubSeq(path, 1, n)
<1> DEFINE Down(i) == Walk(path)[i] = SubSeq(path, 1, i)
           S == {i \in Nat : Down(i)}
<1>1. Len(path) \in Nat
  OBVIOUS
<1>2. 0 \in S
  <2>1. SubSeq(path, 1, 0) = <<>>
    OBVIOUS
  <2>2. Walk(path)[0] = <<>>
    BY <1>1, WalkSteps
  <2> QED
    BY <2>1, <2>2
<1>3. ASSUME NEW i \in 0 .. n - 1, i \in S PROVE i + 1 \in S
  <2>1. i \in Nat /\ i < Len(path) /\ i + 1 \in 1 .. n
    BY <1>1
  <2>2. path[i + 1] \notin {Empty, ".", ".."}
    BY <2>1
  <2>3. Descend(SubSeq(path, 1, i), path[i + 1]) = Append(SubSeq(path, 1, i), path[i + 1])
    BY <2>2 DEF Descend
  <2>4. Append(SubSeq(path, 1, i), path[i + 1]) = SubSeq(path, 1, i + 1)
    BY <2>1
  <2>5. Walk(path)[i + 1] = Descend(Walk(path)[i], path[i + 1])
    BY <1>1, <2>1, WalkSteps
  <2>6. Walk(path)[i] = SubSeq(path, 1, i)
    BY <1>3
  <2>7. Down(i + 1)
    BY <2>3, <2>4, <2>5, <2>6, Zenon
  <2> HIDE DEF Down
  <2> QED
    BY <2>7
<1>4. n \in S
  <2> HIDE DEF S, Down
  <2>1. 0 .. n \subseteq S
    BY <1>2, <1>3, IntervalInduction
  <2> QED
    BY <2>1
<1> QED
  BY <1>4

\* A safe name leads where it says: unpacking never climbs and never turns.
LEMMA SafeLanding ==
  ASSUME NEW path \in Seq(STRING) \ {<<>>}, Safe(path)
  PROVE  Landing(path) = Clean(path) /\ Clean(path) # <<>> /\ Clean(path)[1] = path[1]
<1> DEFINE n == Len(Clean(path))
           Special == {Empty, ".", "..", Backslashed}
<1>1. /\ path \in Seq(STRING) /\ Len(path) \in Nat \ {0} /\ DOMAIN path = 1 .. Len(path)
      /\ Clean(path) # <<>>
  <2>1. path \in Seq(STRING) /\ path # <<>>
    OBVIOUS
  <2> QED
    BY <2>1 DEF Safe
<1>2. ASSUME NEW i \in DOMAIN Clean(path) PROVE Clean(path)[i] \notin Special
  <2>1. Clean(path)[i] \in Range(Clean(path))
    BY DEF Range
  <2>2. Range(Clean(path)) \cap Special = {}
    BY DEF Safe
  <2> QED
    BY <2>1, <2>2
<1>3. Backslashed # Empty /\ Empty \in Special /\ "." \in Special /\ ".." \in Special
  <2>1. Backslashed # Empty
    BY Zenon DEF Backslashed, Empty
  <2> QED
    BY <2>1
<1>4. CASE path[Len(path)] = Empty
  <2>1. Clean(path) = SubSeq(path, 1, Len(path) - 1)
    BY <1>4 DEF Clean, Front
  <2>2. /\ n = Len(path) - 1 /\ n \in Nat \ {0} /\ DOMAIN Clean(path) = 1 .. n
        /\ \A i \in 1 .. n : Clean(path)[i] = path[i]
    BY <1>1, <2>1
  <2> HIDE DEF n, Special
  <2>3. \A i \in 1 .. n : path[i] \notin Special
    BY <1>2, <2>2
  <2>4. Walk(path)[n] = Clean(path)
    <3>1. \A i \in 1 .. n : path[i] \notin {Empty, ".", ".."}
      BY <1>3, <2>3
    <3>2. n \in Nat /\ n <= Len(path) /\ Clean(path) = SubSeq(path, 1, n)
      BY <1>1, <2>1, <2>2
    <3> QED
      BY <1>1, <3>1, <3>2, WalkDown
  <2>5. Walk(path)[Len(path)] = Descend(Walk(path)[n], Empty)
    <3>1. n \in Nat /\ n < Len(path) /\ n + 1 = Len(path)
      BY <1>1, <2>2
    <3>2. Walk(path)[n + 1] = Descend(Walk(path)[n], path[n + 1])
      BY <3>1, <1>1, WalkSteps
    <3> QED
      BY <1>4, <3>1, <3>2
  <2>6. path[1] # Empty /\ Clean(path)[1] = path[1]
    <3>1. 1 \in 1 .. n
      BY <2>2
    <3> QED
      BY <1>3, <2>2, <2>3, <3>1
  <2>7. ASSUME NEW i \in DOMAIN path PROVE path[i] # Backslashed
    <3>1. CASE i = Len(path)
      BY <1>3, <1>4, <3>1
    <3>2. CASE i \in 1 .. n
      BY <2>3, <3>2 DEF Special
    <3> QED
      BY <1>1, <2>2, <3>1, <3>2
  <2>8. Walk(path)[Len(path)] = Clean(path)
    BY <2>4, <2>5 DEF Descend
  <2>9. Landing(path) = Walk(path)[Len(path)]
    BY <2>6, <2>7 DEF Landing, Range
  <2> QED
    BY <1>1, <2>6, <2>8, <2>9
<1>5. CASE path[Len(path)] # Empty
  <2>1. Clean(path) = path
    BY <1>5 DEF Clean
  <2> HIDE DEF Special
  <2>2. \A i \in 1 .. Len(path) : path[i] \notin Special
    BY <1>1, <1>2, <2>1
  <2>3. Walk(path)[Len(path)] = path
    <3>1. \A i \in 1 .. Len(path) : path[i] \notin {Empty, ".", ".."}
      BY <1>3, <2>2
    <3>2. SubSeq(path, 1, Len(path)) = path
      BY <1>1
    <3>3. Len(path) \in Nat /\ Len(path) <= Len(path)
      BY <1>1
    <3> QED
      BY <1>1, <3>1, <3>2, <3>3, WalkDown
  <2>4. path[1] # Empty /\ \A i \in DOMAIN path : path[i] # Backslashed
    <3>1. 1 \in 1 .. Len(path)
      BY <1>1
    <3>2. Backslashed \in Special
      BY DEF Special
    <3> QED
      BY <1>1, <1>3, <2>2, <3>1, <3>2
  <2>5. Landing(path) = Walk(path)[Len(path)]
    BY <2>4 DEF Landing, Range
  <2> QED
    BY <1>1, <2>1, <2>3, <2>5
<1> QED
  BY <1>4, <1>5

\* An archive that is accepted is unpacked inside of its roots, each member at
\* a place of its own.
LEMMA AcceptedConfined ==
  ASSUME NEW archive, NEW roots,
         archive.members \in Seq([path : Seq(STRING) \ {<<>>}, type : {"file", "dir", "link"}]),
         WellFormed(archive.members),
         \A i \in DOMAIN archive.members :
           archive.members[i].type # "link" /\ archive.members[i].path[1] \in roots
  PROVE  Confined(archive, roots)
<1> DEFINE Member == [path : Seq(STRING) \ {<<>>}, type : {"file", "dir", "link"}]
<1>1. PICK members \in Seq(Member) : members = archive.members
  OBVIOUS
<1>2. /\ WellFormed(members)
      /\ \A i \in DOMAIN members : members[i].type # "link" /\ members[i].path[1] \in roots
  BY <1>1
<1> DEFINE places == [i \in DOMAIN members |-> Landing(members[i].path)]
<1>3. ASSUME NEW i \in DOMAIN members
      PROVE  /\ places[i] = Clean(members[i].path)
             /\ places[i] # <<>> /\ places[i][1] = members[i].path[1]
  <2>1. members[i].path \in Seq(STRING) \ {<<>>}
    <3> HIDE DEF Member
    <3>1. members[i] \in Member
      BY <1>1
    <3> QED
      BY <3>1 DEF Member
  <2>2. Safe(members[i].path)
    BY <1>2 DEF WellFormed
  <2> QED
    BY <2>1, <2>2, SafeLanding
<1>4. IsInjective(places)
  <2>1. IsInjective([i \in DOMAIN members |-> Clean(members[i].path)])
    BY <1>2 DEF WellFormed
  <2>2. [i \in DOMAIN members |-> Clean(members[i].path)] = places
    BY <1>3
  <2> QED
    BY <2>1, <2>2
<1> HIDE DEF Member
<1>5. \A i \in DOMAIN members :
        places[i] # <<>> /\ places[i][1] \in roots /\ members[i].type # "link"
  BY <1>2, <1>3
<1> QED
  BY <1>1, <1>4, <1>5 DEF Confined

\* Every uploaded package was staged from one of the builds of the commit's
\* version, and what was released passed the checks of the archives again.
Built(files, v) == \E build \in PackageBuilds[v] : files = Staged(build)

PackagesBuilt == \A r \in Runs : \A p \in packages[r] : Built(p.files, VersionOf[Commit(r)])

ReleasedAccepted ==
  \A v \in Versions : releases[v] # None =>
    LET files == releases[v].packages
    IN \E identity \in Versions :
         /\ Built(files, identity)
         /\ WheelAccepted(files.wheel, identity) /\ SdistAccepted(files.sdist, identity)

ArchivesInv == PackagesBuilt /\ ReleasedAccepted

LEMMA ArchivesInit == Init => ArchivesInv
BY DEF Init, ArchivesInv, PackagesBuilt, ReleasedAccepted

LEMMA ArchivesKept ==
  ASSUME ArchivesInv, \A r \in Runs : packages'[r] \subseteq packages[r], releases' = releases
  PROVE  ArchivesInv'
BY DEF ArchivesInv, PackagesBuilt, ReleasedAccepted, Commit

LEMMA ArchivesBuild ==
  ASSUME TypeOK, ArchivesInv, NEW r \in Runs, BuildPackages(r)
  PROVE  ArchivesInv'
<1> DEFINE identity == VersionOf[Commit(r)]
<1>1. DOMAIN packages = Runs /\ releases' = releases
  BY DEF TypeOK, BuildPackages
<1>2. PICK first \in PackageBuilds[identity] :
        packages' = [packages EXCEPT ![r] = @ \cup {[files |-> Staged(first), day |-> day]}]
  BY DEF BuildPackages
<1>3. Built(Staged(first), identity)
  BY DEF Built
<1>4. ASSUME NEW s \in Runs, NEW p \in packages'[s]
      PROVE  Built(p.files, VersionOf[Commit(s)])
  <2>1. p \in packages[s] \/ (s = r /\ p = [files |-> Staged(first), day |-> day])
    BY <1>1, <1>2
  <2>2. CASE p \in packages[s]
    BY <2>2 DEF ArchivesInv, PackagesBuilt
  <2>3. CASE s = r /\ p = [files |-> Staged(first), day |-> day]
    BY <1>3, <2>3
  <2> QED
    BY <2>1, <2>2, <2>3
<1> QED
  BY <1>1, <1>4 DEF ArchivesInv, PackagesBuilt, ReleasedAccepted, Commit

LEMMA ArchivesRelease ==
  ASSUME TypeOK, ArchivesInv, NEW r \in Runs, PublishRelease(r)
  PROVE  ArchivesInv'
<1>1. DOMAIN releases = Versions /\ packages' = packages /\ VersionOf[Commit(r)] \in Versions
  BY RunFacts, PipelineAssumption DEF PipelineAssumption, TypeOK, PublishRelease
<1>2. PICK p \in packages[r] : \E e \in evidence[r] :
        /\ PublicationAccepted(p.files, e.files, VersionOf[Commit(r)], Tag(r), Commit(r),
                               runs[r].output)
        /\ releases' = [releases EXCEPT ![Tag(r)] =
             [commit |-> Commit(r), index |-> runs[r].output, packages |-> p.files,
              evidence |-> e.files, day |-> day]]
  BY DEF PublishRelease
<1>3. /\ WheelAccepted(p.files.wheel, VersionOf[Commit(r)])
      /\ SdistAccepted(p.files.sdist, VersionOf[Commit(r)])
  BY <1>2 DEF PublicationAccepted
<1>4. Built(p.files, VersionOf[Commit(r)])
  BY DEF ArchivesInv, PackagesBuilt
<1>5. ASSUME NEW v \in Versions
      PROVE  releases'[v] = releases[v] \/ releases'[v].packages = p.files
  BY <1>1, <1>2
<1>6. ReleasedAccepted'
  BY <1>1, <1>3, <1>4, <1>5 DEF ArchivesInv, ReleasedAccepted
<1> QED
  BY <1>1, <1>6 DEF ArchivesInv, PackagesBuilt, Commit

LEMMA ArchivesNext == TypeOK /\ ArchivesInv /\ [Next]_vars => ArchivesInv'
<1> SUFFICES ASSUME TypeOK, ArchivesInv, [Next]_vars PROVE ArchivesInv'
  OBVIOUS
<1>1. CASE packages' = packages /\ releases' = releases
  BY <1>1, ArchivesKept
<1>2. ASSUME NEW r \in Runs, ReleaseStep(r), ~BuildPackages(r), ~PublishRelease(r)
      PROVE  packages' = packages /\ releases' = releases
  <2>1. ASSUME NEW job, Start(r, job) PROVE packages' = packages /\ releases' = releases
    BY <2>1 DEF Start
  <2>2. CASE PushTag(r) \/ Fail(r) \/ BuildImages(r) \/ CheckRefs(r)
    BY <2>2 DEF PushTag, Fail, BuildImages, CheckRefs
  <2>3. ASSUME NEW arch, Scan(r, arch) \/ PushVersion(r, arch) \/ PushCommit(r, arch)
        PROVE  packages' = packages /\ releases' = releases
    BY <2>3 DEF Scan, PushVersion, PushCommit
  <2>4. CASE PushVersionIndex(r) \/ PushCommitIndex(r)
    BY <2>4 DEF PushVersionIndex, PushCommitIndex
  <2>5. CASE RecordIndex(r) \/ FinishContainer(r) \/ RemoveImages(r)
    BY <2>5 DEF RecordIndex, FinishContainer, RemoveImages
  <2> QED
    BY <1>2, <2>1, <2>2, <2>3, <2>4, <2>5 DEF ReleaseStep
<1>3. ASSUME NEW r \in Runs, RegistryStep(r)
      PROVE  packages' = packages /\ releases' = releases
  BY <1>3 DEF RegistryStep, Handoff, Precheck, PublishEntry, VerifyEntry, RegistryEnds,
     RegistryRerun, releaseVars
<1>4. CASE Tick
  <2>1. \A r \in Runs : packages'[r] \subseteq packages[r]
    BY <1>4 DEF Tick, Kept
  <2>2. releases' = releases
    BY <1>4 DEF Tick
  <2> QED
    BY <2>1, <2>2, ArchivesKept
<1>5. CASE UNCHANGED vars
  BY <1>1, <1>5 DEF vars, releaseVars
<1> QED
  BY <1>1, <1>2, <1>3, <1>4, <1>5, ArchivesBuild, ArchivesRelease DEF Next

\* Whoever unpacks what a release carries gets files in the directories of the
\* package only, none of them twice (ExtractionConfined of the release_pipeline
\* run), for archives of any length with names of any depth.
THEOREM ConfinedExtraction == Spec => []ExtractionConfined
<1>1. ArchivesInv => ExtractionConfined
  <2> SUFFICES ASSUME ReleasedAccepted, NEW v \in Versions, releases[v] # None
               PROVE  /\ Confined(releases[v].packages.wheel, {"module", "dist-info"})
                      /\ Confined(releases[v].packages.sdist, {"root"})
    BY DEF ArchivesInv, ExtractionConfined
  <2>1. PICK identity \in Versions :
          /\ Built(releases[v].packages, identity)
          /\ WheelAccepted(releases[v].packages.wheel, identity)
          /\ SdistAccepted(releases[v].packages.sdist, identity)
    BY DEF ReleasedAccepted
  <2>2. PICK build \in PackageBuilds[identity] : releases[v].packages = Staged(build)
    BY <2>1 DEF Built
  <2>3. /\ releases[v].packages.wheel = build.wheel
        /\ releases[v].packages.sdist = build.sdist
    BY <2>2 DEF Staged
  <2>4. \A archive \in {build.wheel, build.sdist} :
          archive.members \in
            Seq([path : Seq(STRING) \ {<<>>}, type : {"file", "dir", "link"}])
    BY PackageAssumption DEF PackageAssumption
  <2>5. Confined(build.wheel, {"module", "dist-info"})
    <3>1. /\ WellFormed(build.wheel.members)
          /\ \A i \in DOMAIN build.wheel.members :
               /\ build.wheel.members[i].type # "link"
               /\ build.wheel.members[i].path[1] \in {"module", "dist-info"}
      BY <2>1, <2>3 DEF WheelAccepted
    <3> QED
      BY <2>4, <3>1, AcceptedConfined
  <2>6. Confined(build.sdist, {"root"})
    <3>1. /\ WellFormed(build.sdist.members)
          /\ \A i \in DOMAIN build.sdist.members :
               /\ build.sdist.members[i].type # "link"
               /\ build.sdist.members[i].path[1] \in {"root"}
      BY <2>1, <2>3 DEF SdistAccepted
    <3> QED
      BY <2>4, <3>1, AcceptedConfined
  <2> QED
    BY <2>3, <2>5, <2>6
<1> QED
  BY <1>1, ArchivesInit, ArchivesNext, TypeCorrect, PTL DEF Spec
=============================================================================
