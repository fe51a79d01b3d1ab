--------------------------- MODULE CvLayoutProofs ---------------------------
(***************************************************************************)
(* Theorems about CvLayout, for every catalog, image and sequence of jobs. *)
(***************************************************************************)
EXTENDS CvLayout, SequenceTheorems, TLAPS

-----------------------------------------------------------------------------
(* The download list *)

\* Files(v) is a sequence of files with their URLs.
LEMMA FilesType ==
    ASSUME NEW v \in Version
    PROVE  /\ Files(v) \in Seq([file : FileNames, url : Urls])
           /\ Len(Files(v)) \in Nat
           /\ DOMAIN Files(v) = 1 .. Len(Files(v))
           /\ \A k \in 1 .. Len(Files(v)) : Files(v)[k].file \in FileNames
                                            /\ Files(v)[k].url \in Urls
<1>. DEFINE Entry == [file : FileNames, url : Urls]
<1>1. v.libraries \in Seq(Entry)
  <2>1. v.libraries \in Seq([file : Libs, url : Urls])
    BY DEF Version
  <2>2. [file : Libs, url : Urls] \subseteq Entry
    BY DEF FileNames
  <2>. QED  BY <2>1, <2>2, SeqMonotonic
<1>2. (IF v.binary_url # Nil THEN <<[file |-> Bin, url |-> v.binary_url]>> ELSE <<>>)
        \in Seq(Entry)
  <2>1. CASE v.binary_url # Nil
    <3>1. [file |-> Bin, url |-> v.binary_url] \in Entry
      BY <2>1 DEF Version, FileNames
    <3>2. <<[file |-> Bin, url |-> v.binary_url]>> \in Seq(Entry)
      BY <3>1
    <3>. QED  BY <2>1, <3>2
  <2>2. CASE v.binary_url = Nil
    BY <2>2, EmptySeq
  <2>. QED  BY <2>1, <2>2
<1>3. Files(v) \in Seq(Entry)
  BY <1>1, <1>2, ConcatProperties DEF Files
<1>4. \A k \in 1 .. Len(Files(v)) : Files(v)[k] \in Entry
  BY <1>3, ElementOfSeq
<1>. QED  BY <1>3, <1>4, LenProperties

\* The height create_upgrade_info records is a number it may record.
LEMMA InfoHeightType ==
    ASSUME NEW v \in Version
    PROVE  InfoHeight(v) \in Heights \union {1} /\ InfoHeight(v) \in Nat
BY LayoutAssumption DEF InfoHeight, Version

\* A request is a version.
LEMMA RequestType ==
    ASSUME NEW v \in Requests
    PROVE  v \in Version /\ v.name \in Names /\ v # Nil
BY LayoutAssumption DEF Version

\* What the job writes is content, so it differs from Nil, no file.
LEMMA WritesType ==
    /\ \A u \in Urls, b \in BOOLEAN :
          [url |-> u, whole |-> b] \in Content /\ [url |-> u, whole |-> b] # Nil
    /\ \A h \in Heights \union {1}, b \in BOOLEAN :
          [height |-> h, whole |-> b] \in UpgradeInfo /\ [height |-> h, whole |-> b] # Nil
BY LayoutAssumption DEF Content, UpgradeInfo

\* The file the job is at, and the name it installs.
LEMMA NextFileType ==
    ASSUME TypeOK, job # Nil
    PROVE  /\ job \in Version /\ job.name \in Names
           /\ next <= Len(Files(job)) =>
                 Files(job)[next].file \in FileNames /\ Files(job)[next].url \in Urls
<1>1. job \in Version /\ job.name \in Names
  BY RequestType DEF TypeOK
<1>2. next \in 1 .. Len(Files(job)) + 1 /\ Len(Files(job)) \in Nat
  BY <1>1, FilesType DEF TypeOK
<1>. QED  BY <1>1, <1>2, FilesType

-----------------------------------------------------------------------------
(* What any step may do to the tree *)

\* No step removes a file or an upgrade-info.json.
LEMMA FilesStay ==
    ASSUME TypeOK, [Next]_vars
    PROVE  \A n \in Names :
              /\ \A f \in FileNames : file[n][f] # Nil => file'[n][f] # Nil
              /\ info[n] # Nil => info'[n] # Nil
<1>. USE DEF layout, control, request
<1>. SUFFICES ASSUME NEW n \in Names
              PROVE  /\ \A f \in FileNames : file[n][f] # Nil => file'[n][f] # Nil
                     /\ info[n] # Nil => info'[n] # Nil
  OBVIOUS
<1>1. CASE UNCHANGED vars
  BY <1>1 DEF vars
<1>2. CASE Start
  BY <1>2 DEF Start, create_cv_upgrade
<1>3. CASE BeginWrite
  <2>1. [url |-> Files(job)[next].url, whole |-> FALSE] # Nil
    BY <1>3, NextFileType, WritesType DEF BeginWrite, TypeOK
  <2>. QED  BY <1>3, <2>1 DEF BeginWrite, TypeOK
<1>4. CASE FinishWrite
  <2>1. [url |-> Files(job)[next].url, whole |-> TRUE] # Nil
    BY <1>4, NextFileType, WritesType DEF FinishWrite, TypeOK
  <2>. QED  BY <1>4, <2>1 DEF FinishWrite, TypeOK
<1>5. CASE create_upgrade_info
  BY <1>5 DEF create_upgrade_info, TypeOK
<1>6. CASE DumpInfo
  <2>1. info[job.name] # Nil => [info[job.name] EXCEPT !.whole = TRUE] # Nil
    <3>1. job.name \in Names /\ job.name \in DOMAIN info
      BY <1>6, NextFileType DEF DumpInfo, TypeOK
    <3>2. info[job.name] # Nil => info[job.name] \in UpgradeInfo
      BY <3>1 DEF TypeOK
    <3>3. \A r \in UpgradeInfo : [r EXCEPT !.whole = TRUE] \in UpgradeInfo
      BY DEF UpgradeInfo
    <3>. QED  BY <3>2, <3>3, LayoutAssumption
  <2>. QED  BY <1>6, <2>1 DEF DumpInfo, TypeOK
<1>7. CASE Rsync
  BY <1>7 DEF Rsync, rsync_cosmovisor
<1>8. CASE \/ SkipExisting \/ FetchFails \/ WriteFails \/ RaiseNotFound \/ DumpFails
           \/ link_cv_current \/ SymlinkCurrent \/ link_cv_genesis \/ SymlinkGenesis
           \/ Crash \/ NewContainer
  BY <1>8 DEF SkipExisting, FetchFails, WriteFails, RaiseNotFound, DumpFails,
              link_cv_current, SymlinkCurrent, link_cv_genesis, SymlinkGenesis,
              Crash, NewContainer, Ends
<1>. QED
  BY <1>1, <1>2, <1>3, <1>4, <1>5, <1>6, <1>7, <1>8 DEF Next, Step, Work, Failure

-----------------------------------------------------------------------------
(* The invariant *)

\* The fields a job starts with have their types.
LEMMA InitTypeOK == Init => TypeOK
<1>. SUFFICES ASSUME Init PROVE TypeOK
  OBVIOUS
<1>1. opt \in BOOLEAN /\ (opt => ImageGenesis # Nil)
  BY Zenon DEF Init
<1>2. file \in [Names -> [FileNames -> Content \union {Nil}]]
  BY DEF Init
<1>3. info \in [Names -> UpgradeInfo \union {Nil}]
  BY DEF Init
<1>. QED  BY <1>1, <1>2, <1>3 DEF Init, TypeOK

\* No step leaves the types.
LEMMA TypeStep == TypeOK /\ [Next]_vars => TypeOK'
<1>. USE DEF layout, control, request
<1>. SUFFICES ASSUME TypeOK, [Next]_vars
              PROVE  TypeOK'
  OBVIOUS
<1>1. CASE UNCHANGED vars
  BY <1>1 DEF vars, TypeOK
<1>2. CASE Start
  <2>. PICK v \in Requests, linkCurrent \in LinkModes : create_cv_upgrade(v, linkCurrent)
    BY <1>2 DEF Start
  <2>1. 1 \in 1 .. Len(Files(v)) + 1
    BY RequestType, FilesType
  <2>2. linkCurrent \in BOOLEAN /\ v # Nil
    BY LayoutAssumption
  <2>. QED  BY <2>1, <2>2 DEF create_cv_upgrade, TypeOK
<1>3. CASE SkipExisting
  <2>1. job \in Version /\ job # Nil
    BY <1>3, NextFileType DEF SkipExisting, TypeOK
  <2>2. next + 1 \in 1 .. Len(Files(job)) + 1
    BY <1>3, <2>1, FilesType DEF SkipExisting, TypeOK
  <2>. QED  BY <1>3, <2>1, <2>2 DEF SkipExisting, TypeOK
<1>4. CASE BeginWrite
  <2>1. [url |-> Files(job)[next].url, whole |-> FALSE] \in Content
    BY <1>4, NextFileType, WritesType DEF BeginWrite, TypeOK
  <2>2. file' \in [Names -> [FileNames -> Content \union {Nil}]]
    BY <1>4, <2>1 DEF BeginWrite, TypeOK
  <2>. QED  BY <1>4, <2>2 DEF BeginWrite, TypeOK
<1>5. CASE FinishWrite
  <2>1. [url |-> Files(job)[next].url, whole |-> TRUE] \in Content
    BY <1>5, NextFileType, WritesType DEF FinishWrite, TypeOK
  <2>2. file' \in [Names -> [FileNames -> Content \union {Nil}]]
    BY <1>5, <2>1 DEF FinishWrite, TypeOK
  <2>3. job \in Version /\ job # Nil
    BY <1>5, NextFileType DEF FinishWrite, TypeOK
  <2>4. next + 1 \in 1 .. Len(Files(job)) + 1
    BY <1>5, <2>3, FilesType DEF FinishWrite, TypeOK
  <2>. QED  BY <1>5, <2>2, <2>3, <2>4 DEF FinishWrite, TypeOK
<1>6. CASE create_upgrade_info
  <2>1. job \in Version /\ job # Nil /\ job.name \in Names
    BY <1>6, NextFileType DEF create_upgrade_info, Fetched, TypeOK
  <2>2. [height |-> InfoHeight(job), whole |-> FALSE] \in UpgradeInfo
    BY <2>1, InfoHeightType, WritesType
  <2>3. info' \in [Names -> UpgradeInfo \union {Nil}]
    BY <1>6, <2>2 DEF create_upgrade_info, TypeOK
  <2>4. pc' = "dump" => info'[job.name] # Nil
    BY <1>6, <2>1, InfoHeightType, WritesType DEF create_upgrade_info, TypeOK
  <2>. QED  BY <1>6, <2>1, <2>3, <2>4 DEF create_upgrade_info, Fetched, TypeOK
<1>7. CASE DumpInfo
  <2>1. job.name \in Names
    BY <1>7, NextFileType DEF DumpInfo, TypeOK
  <2>2. info[job.name] # Nil => info[job.name] \in UpgradeInfo
    BY <2>1 DEF TypeOK
  <2>3. \A r \in UpgradeInfo : [r EXCEPT !.whole = TRUE] \in UpgradeInfo
    BY DEF UpgradeInfo
  <2>. QED  BY <1>7, <2>1, <2>2, <2>3 DEF DumpInfo, TypeOK
<1>8. CASE Rsync
  <2>. PICK copied \in SUBSET ImageFiles, linkCopied \in BOOLEAN : rsync_cosmovisor(copied, linkCopied)
    BY <1>8 DEF Rsync
  <2>1. file' \in [Names -> [FileNames -> Content \union {Nil}]]
    BY ImageAssumption DEF rsync_cosmovisor, TypeOK
  <2>2. info' \in [Names -> UpgradeInfo \union {Nil}]
    BY ImageAssumption DEF rsync_cosmovisor, TypeOK
  <2>. QED  BY <2>1, <2>2 DEF rsync_cosmovisor, TypeOK
<1>9. CASE SymlinkCurrent \/ link_cv_current \/ link_cv_genesis \/ SymlinkGenesis
  <2>1. job # Nil /\ job.name \in Names
    BY <1>9, NextFileType
       DEF SymlinkCurrent, link_cv_current, link_cv_genesis, SymlinkGenesis, TypeOK
  <2>2. CASE SymlinkCurrent \/ link_cv_current
    BY <2>1, <2>2 DEF SymlinkCurrent, link_cv_current, TypeOK
  <2>3. CASE link_cv_genesis \/ SymlinkGenesis
    BY <2>1, <2>3 DEF link_cv_genesis, SymlinkGenesis, Ends, TypeOK
  <2>. QED  BY <1>9, <2>2, <2>3
<1>10. CASE FetchFails \/ WriteFails \/ RaiseNotFound \/ DumpFails \/ Crash
  BY <1>10 DEF FetchFails, WriteFails, RaiseNotFound, DumpFails, Crash, Ends, TypeOK
<1>11. CASE NewContainer
  BY <1>11 DEF NewContainer, TypeOK
<1>. QED
  BY <1>1, <1>2, <1>3, <1>4, <1>5, <1>6, <1>7, <1>8, <1>9, <1>10, <1>11 DEF Next, Step, Work, Failure

\* Type correctness of every run of every sequence of jobs.
THEOREM TypeCorrect == Spec => []TypeOK
<1>1. Init => TypeOK
  BY InitTypeOK
<1>2. TypeOK /\ [Next]_vars => TypeOK'
  BY TypeStep
<1>. QED  BY <1>1, <1>2, PTL DEF Spec

-----------------------------------------------------------------------------
(* The job and the tree *)

\* LinksResolve alone is preserved only because the job has checked for the
\* binary before it links, InstallDone only because of what the job has done
\* up to its last step: JobProgress says both.
LayoutInv == TypeOK /\ JobProgress /\ LinksResolve /\ InstallDone /\ FailureKeepsCurrent

LEMMA InitLayoutInv == Init => LayoutInv
<1>. SUFFICES ASSUME Init PROVE LayoutInv
  OBVIOUS
<1>1. TypeOK
  BY InitTypeOK
<1>2. JobProgress
  BY DEF Init, JobProgress
<1>3. InImage # Nil /\ Nil \notin Names
  BY LayoutAssumption
<1>4. LinksResolve
  BY <1>3 DEF Init, LinksResolve
<1>5. InstallDone /\ FailureKeepsCurrent
  BY DEF Init, InstallDone, FailureKeepsCurrent
<1>. QED  BY <1>1, <1>2, <1>4, <1>5 DEF LayoutInv

\* Neither a copy from the image nor another container undoes what a job did.
LEMMA IdleStep ==
    ASSUME LayoutInv, [Next]_vars,
           UNCHANGED vars \/ Rsync \/ NewContainer
    PROVE  JobProgress' /\ LinksResolve' /\ InstallDone' /\ FailureKeepsCurrent'
<1>. USE DEF layout, control, request
<1>1. /\ UNCHANGED <<current, pc, job, link, next, result, was>>
      /\ genesis' # genesis => genesis' = InImage /\ ImageGenesis # Nil
  BY DEF vars, Rsync, rsync_cosmovisor, NewContainer, LayoutInv, TypeOK
<1>2. \A n \in Names :
         /\ \A f \in FileNames : file[n][f] # Nil => file'[n][f] # Nil
         /\ info[n] # Nil => info'[n] # Nil
  BY FilesStay DEF LayoutInv
<1>3. Bin \in FileNames
  BY DEF FileNames
<1>4. job # Nil => /\ job \in Version /\ job.name \in Names
                   /\ DOMAIN Files(job) = 1 .. Len(Files(job))
                   /\ Len(Files(job)) \in Nat
                   /\ \A k \in 1 .. Len(Files(job)) : Files(job)[k].file \in FileNames
  BY NextFileType, FilesType DEF LayoutInv
<1>5. JobProgress'
  <2>1. pc # "idle" => UNCHANGED vars
    BY DEF Rsync, rsync_cosmovisor, NewContainer
  <2>2. CASE UNCHANGED vars
    BY <2>2 DEF vars, LayoutInv, JobProgress, InfoHeight
  <2>3. CASE pc = "idle"
    BY <1>1, <2>3 DEF LayoutInv, JobProgress
  <2>. QED  BY <2>1, <2>2, <2>3
<1>6. LinksResolve'
  BY <1>1, <1>2, <1>3, LayoutAssumption DEF LayoutInv, LinksResolve, TypeOK
<1>7. InstallDone'
  <2>. SUFFICES ASSUME pc = "idle", result = "ok"
                PROVE  InstallDone'
    BY <1>1 DEF InstallDone
  <2>1. job # Nil
    BY DEF LayoutInv, JobProgress
  <2>2. Present(job)'
    BY <1>1, <1>2, <1>4, <2>1 DEF LayoutInv, InstallDone, Present
  <2>3. genesis' # Nil
    BY <1>1, LayoutAssumption DEF LayoutInv, InstallDone
  <2>. QED
    BY <1>1, <1>2, <1>3, <1>4, <2>1, <2>2, <2>3 DEF LayoutInv, InstallDone, InfoHeight
<1>8. FailureKeepsCurrent'
  BY <1>1 DEF LayoutInv, FailureKeepsCurrent
<1>. QED  BY <1>5, <1>6, <1>7, <1>8

\* The steps that leave the links alone: the downloads, the check and the
\* upgrade-info.json, with their failures, the start and the kill.
LEMMA FetchStep ==
    ASSUME LayoutInv, [Next]_vars,
           \/ Start \/ Crash \/ SkipExisting \/ FetchFails \/ BeginWrite \/ FinishWrite
           \/ WriteFails \/ RaiseNotFound \/ create_upgrade_info \/ DumpInfo \/ DumpFails
    PROVE  JobProgress' /\ LinksResolve' /\ InstallDone' /\ FailureKeepsCurrent'
<1>. USE DEF layout, control, request
<1>1. UNCHANGED <<current, genesis, opt>> /\ (pc' = "idle" => result' # "ok")
  BY DEF Start, create_cv_upgrade, Crash, SkipExisting, FetchFails, BeginWrite, FinishWrite,
         WriteFails, RaiseNotFound, create_upgrade_info, DumpInfo, DumpFails, Ends
<1>2. \A n \in Names :
         /\ \A f \in FileNames : file[n][f] # Nil => file'[n][f] # Nil
         /\ info[n] # Nil => info'[n] # Nil
  BY FilesStay DEF LayoutInv
<1>3. Bin \in FileNames
  BY DEF FileNames
<1>4. job # Nil => /\ job \in Version /\ job.name \in Names
                   /\ DOMAIN Files(job) = 1 .. Len(Files(job))
                   /\ Len(Files(job)) \in Nat
                   /\ next \in 1 .. Len(Files(job)) + 1
                   /\ \A k \in 1 .. Len(Files(job)) : Files(job)[k].file \in FileNames
  BY NextFileType, FilesType DEF LayoutInv, TypeOK
<1>5. LinksResolve'
  BY <1>1, <1>2, <1>3 DEF LayoutInv, LinksResolve, TypeOK
<1>6. InstallDone'
  BY <1>1 DEF InstallDone
<1>7. FailureKeepsCurrent'
  <2>1. CASE Start
    BY <2>1 DEF Start, create_cv_upgrade, FailureKeepsCurrent
  <2>2. CASE Crash
    BY <1>1, <2>2 DEF Crash, Ends, LayoutInv, JobProgress, FailureKeepsCurrent, TypeOK
  <2>3. CASE FetchFails \/ WriteFails \/ RaiseNotFound \/ DumpFails
    BY <1>1, <2>3 DEF FetchFails, WriteFails, RaiseNotFound, DumpFails, Fetched, Ends,
                      LayoutInv, JobProgress, FailureKeepsCurrent
  <2>4. CASE SkipExisting \/ BeginWrite \/ FinishWrite \/ create_upgrade_info \/ DumpInfo
    BY <2>4 DEF SkipExisting, BeginWrite, FinishWrite, create_upgrade_info, DumpInfo,
                FailureKeepsCurrent
  <2>. QED  BY <2>1, <2>2, <2>3, <2>4
<1>8. JobProgress'
  <2>1. CASE Start
    <3>. PICK v \in Requests, linkCurrent \in LinkModes : create_cv_upgrade(v, linkCurrent)
      BY <2>1 DEF Start
    <3>. QED  BY <1>1 DEF create_cv_upgrade, JobProgress
  <2>2. CASE Crash \/ FetchFails \/ WriteFails \/ RaiseNotFound \/ DumpFails
    BY <2>2 DEF Crash, FetchFails, WriteFails, RaiseNotFound, DumpFails, Fetched, Ends,
                LayoutInv, TypeOK, JobProgress
  <2>3. CASE SkipExisting
    BY <1>4, <2>3 DEF SkipExisting, LayoutInv, JobProgress, TypeOK
  <2>4. CASE BeginWrite
    <3>1. [url |-> Files(job)[next].url, whole |-> FALSE] # Nil
      BY <2>4, NextFileType, WritesType DEF BeginWrite, LayoutInv, TypeOK
    <3>2. file'[job.name][Files(job)[next].file] # Nil
      BY <1>4, <2>4, <3>1 DEF BeginWrite, LayoutInv, TypeOK
    <3>. QED
      BY <1>1, <1>2, <1>4, <2>4, <3>2 DEF BeginWrite, LayoutInv, JobProgress, TypeOK
  <2>5. CASE FinishWrite
    <3>1. \A k \in 1 .. next : file'[job.name][Files(job)[k].file] # Nil
      BY <1>2, <1>4, <2>5 DEF FinishWrite, LayoutInv, JobProgress, TypeOK
    <3>. QED
      BY <1>1, <1>4, <2>5, <3>1 DEF FinishWrite, LayoutInv, JobProgress, TypeOK
  <2>6. CASE create_upgrade_info
    <3>1. job # Nil /\ next = Len(Files(job)) + 1
      BY <1>4, <2>6 DEF create_upgrade_info, Fetched, LayoutInv, TypeOK
    <3>2. InfoHeight(job) >= 1 => info'[job.name] # Nil
      BY <1>4, <2>6, <3>1, InfoHeightType, WritesType
         DEF create_upgrade_info, Fetched, LayoutInv, TypeOK
    <3>. QED
      BY <1>1, <1>2, <1>4, <2>6, <3>1, <3>2
         DEF create_upgrade_info, Fetched, LayoutInv, JobProgress, TypeOK, InfoHeight
  <2>7. CASE DumpInfo
    BY <1>1, <1>2, <1>4, <2>7 DEF DumpInfo, LayoutInv, JobProgress, TypeOK, InfoHeight
  <2>. QED  BY <2>1, <2>2, <2>3, <2>4, <2>5, <2>6, <2>7
<1>. QED  BY <1>5, <1>6, <1>7, <1>8

\* The steps that link.
LEMMA LinkStep ==
    ASSUME LayoutInv, [Next]_vars,
           link_cv_current \/ SymlinkCurrent \/ link_cv_genesis \/ SymlinkGenesis
    PROVE  JobProgress' /\ LinksResolve' /\ InstallDone' /\ FailureKeepsCurrent'
<1>. USE DEF layout, control, request
<1>1. UNCHANGED <<file, info, opt, job, link, next, was>>
  BY DEF link_cv_current, SymlinkCurrent, link_cv_genesis, SymlinkGenesis, Ends
<1>2. /\ job # Nil /\ job \in Version /\ job.name \in Names
      /\ next = Len(Files(job)) + 1 /\ file[job.name][Bin] # Nil
      /\ InfoHeight(job) >= 1 => info[job.name] # Nil
      /\ \A k \in 1 .. next - 1 : file[job.name][Files(job)[k].file] # Nil
      /\ result = "none"
  BY NextFileType
     DEF link_cv_current, SymlinkCurrent, link_cv_genesis, SymlinkGenesis,
         LayoutInv, TypeOK, JobProgress
<1>3. DOMAIN Files(job) = 1 .. Len(Files(job)) /\ Len(Files(job)) \in Nat
  BY <1>2, FilesType
<1>4. Present(job)
  BY <1>2, <1>3 DEF Present
<1>5. job.name # Nil /\ job.name # InImage
  BY <1>2, LayoutAssumption
<1>6. CASE link_cv_current
  <2>1. JobProgress'
    BY <1>1, <1>2, <1>6 DEF link_cv_current, LayoutInv, TypeOK, JobProgress, InfoHeight
  <2>2. LinksResolve'
    BY <1>1, <1>6 DEF link_cv_current, LayoutInv, LinksResolve
  <2>3. InstallDone' /\ FailureKeepsCurrent'
    BY <1>6 DEF link_cv_current, InstallDone, FailureKeepsCurrent
  <2>. QED  BY <2>1, <2>2, <2>3
<1>7. CASE SymlinkCurrent
  <2>1. JobProgress'
    BY <1>1, <1>2, <1>7 DEF SymlinkCurrent, LayoutInv, TypeOK, JobProgress, InfoHeight
  <2>2. LinksResolve'
    BY <1>1, <1>2, <1>7 DEF SymlinkCurrent, LayoutInv, LinksResolve
  <2>3. InstallDone' /\ FailureKeepsCurrent'
    BY <1>7 DEF SymlinkCurrent, InstallDone, FailureKeepsCurrent
  <2>. QED  BY <2>1, <2>2, <2>3
<1>8. CASE link_cv_genesis /\ ~GenesisExists
  <2>1. genesis' = Nil /\ pc' = "genlink" /\ current' = current /\ result' = result
    BY <1>8 DEF link_cv_genesis
  <2>2. JobProgress'
    BY <1>1, <1>2, <1>8, <2>1 DEF link_cv_genesis, LayoutInv, TypeOK, JobProgress, InfoHeight
  <2>3. LinksResolve'
    BY <1>1, <2>1, LayoutAssumption DEF LayoutInv, LinksResolve
  <2>4. InstallDone' /\ FailureKeepsCurrent'
    BY <2>1 DEF InstallDone, FailureKeepsCurrent
  <2>. QED  BY <2>2, <2>3, <2>4
<1>9. CASE (link_cv_genesis /\ GenesisExists) \/ SymlinkGenesis
  <2>1. current' = current /\ current = IF link THEN job.name ELSE was
    BY <1>9 DEF link_cv_genesis, SymlinkGenesis, LayoutInv, JobProgress
  <2>2. pc' = "idle" /\ result' = "ok"
    BY <1>9 DEF link_cv_genesis, SymlinkGenesis, Ends
  <2>3. genesis' = job.name \/ (genesis' = genesis /\ GenesisExists)
    BY <1>9 DEF link_cv_genesis, SymlinkGenesis
  <2>4. JobProgress'
    BY <1>1, <1>2, <2>2 DEF JobProgress
  <2>5. LinksResolve'
    BY <1>1, <1>2, <1>5, <2>1, <2>3 DEF LayoutInv, LinksResolve
  <2>6. genesis' # Nil
    BY <1>5, <2>3, LayoutAssumption DEF GenesisExists
  <2>7. InstallDone'
    <3>1. Present(job)'
      BY <1>1, <1>4 DEF Present
    <3>. QED  BY <1>1, <1>2, <2>1, <2>6, <3>1 DEF InstallDone, InfoHeight
  <2>8. FailureKeepsCurrent'
    BY <2>2 DEF FailureKeepsCurrent
  <2>. QED  BY <2>4, <2>5, <2>7, <2>8
<1>. QED  BY <1>6, <1>7, <1>8, <1>9

LEMMA LayoutStep == LayoutInv /\ [Next]_vars => LayoutInv'
<1>. SUFFICES ASSUME LayoutInv, [Next]_vars
              PROVE  LayoutInv'
  OBVIOUS
<1>1. TypeOK'
  BY TypeStep DEF LayoutInv
<1>2. JobProgress' /\ LinksResolve' /\ InstallDone' /\ FailureKeepsCurrent'
  <2>1. CASE UNCHANGED vars \/ Rsync \/ NewContainer
    BY <2>1, IdleStep
  <2>2. CASE \/ Start \/ Crash \/ SkipExisting \/ FetchFails \/ BeginWrite \/ FinishWrite
             \/ WriteFails \/ RaiseNotFound \/ create_upgrade_info \/ DumpInfo \/ DumpFails
    BY <2>2, FetchStep
  <2>3. CASE link_cv_current \/ SymlinkCurrent \/ link_cv_genesis \/ SymlinkGenesis
    BY <2>3, LinkStep
  <2>. QED  BY <2>1, <2>2, <2>3 DEF Next, Step, Work, Failure
<1>. QED  BY <1>1, <1>2 DEF LayoutInv

LEMMA LayoutInvariant == Spec => []LayoutInv
<1>1. Init => LayoutInv
  BY InitLayoutInv
<1>2. LayoutInv /\ [Next]_vars => LayoutInv'
  BY LayoutStep
<1>. QED  BY <1>1, <1>2, PTL DEF Spec

\* At any moment, also between two writes and after any kill or failure, the
\* links lead to an upgrade that has a binary.
THEOREM LinksAlwaysResolve == Spec => []LinksResolve
<1>1. LayoutInv => LinksResolve
  BY DEF LayoutInv
<1>. QED  BY <1>1, LayoutInvariant, PTL

\* A job that returned has done what it is for, and it stays done.
THEOREM InstallStaysDone == Spec => []InstallDone
<1>1. LayoutInv => InstallDone
  BY DEF LayoutInv
<1>. QED  BY <1>1, LayoutInvariant, PTL

\* A version that cannot be had does not take away the one that runs.
THEOREM FailureIsHarmless == Spec => []FailureKeepsCurrent
<1>1. LayoutInv => FailureKeepsCurrent
  BY DEF LayoutInv
<1>. QED  BY <1>1, LayoutInvariant, PTL

\* What the job has done when it is at pc.
THEOREM ProgressInvariant == Spec => []JobProgress
<1>1. LayoutInv => JobProgress
  BY DEF LayoutInv
<1>. QED  BY <1>1, LayoutInvariant, PTL

-----------------------------------------------------------------------------
(* Where the files come from *)

\* Every file that is there comes from the URL any request for it names.
UrlsAsRequested ==
    OneUrlPerFile =>
       \A v \in Requests : \A i \in DOMAIN Files(v) :
          LET c == file[v.name][Files(v)[i].file]
          IN  c # Nil => c.url = Files(v)[i].url

LEMMA UrlsInit == Init => UrlsAsRequested
<1>. SUFFICES ASSUME Init, NEW v \in Requests, NEW i \in DOMAIN Files(v)
              PROVE  file[v.name][Files(v)[i].file] = Nil
  BY DEF UrlsAsRequested
<1>1. v.name \in Names /\ Files(v)[i].file \in FileNames
  BY RequestType, FilesType
<1>. QED  BY <1>1 DEF Init

LEMMA UrlsStep == TypeOK /\ UrlsAsRequested /\ [Next]_vars => UrlsAsRequested'
<1>. USE DEF layout, control, request
<1>. SUFFICES ASSUME TypeOK, UrlsAsRequested, [Next]_vars, OneUrlPerFile,
                     NEW v \in Requests, NEW i \in DOMAIN Files(v),
                     file'[v.name][Files(v)[i].file] # Nil
              PROVE  file'[v.name][Files(v)[i].file].url = Files(v)[i].url
  BY DEF UrlsAsRequested
<1>. DEFINE f == Files(v)[i].file
<1>1. v \in Version /\ v.name \in Names /\ f \in FileNames
  BY RequestType, FilesType
<1>2. file[v.name][f] # Nil => file[v.name][f].url = Files(v)[i].url
  BY DEF UrlsAsRequested
<1>3. CASE file' = file
  BY <1>2, <1>3
<1>4. CASE BeginWrite \/ FinishWrite
  <2>. DEFINE g == Files(job)[next]
  <2>1. job \in Requests /\ job \in Version /\ job.name \in Names
    BY <1>4, NextFileType DEF BeginWrite, FinishWrite, TypeOK
  <2>2. next \in DOMAIN Files(job) /\ g.file \in FileNames
    BY <1>4, <2>1, FilesType DEF BeginWrite, FinishWrite, TypeOK
  <2>3. \E b \in BOOLEAN : file' = [file EXCEPT ![job.name][g.file] = [url |-> g.url, whole |-> b]]
    BY <1>4 DEF BeginWrite, FinishWrite
  <2>4. CASE job.name = v.name /\ g.file = f
    <3>1. g.url = Files(v)[i].url
      BY <2>1, <2>2, <2>4 DEF OneUrlPerFile
    <3>2. file'[v.name][f].url = g.url
      BY <1>1, <2>2, <2>3, <2>4 DEF TypeOK
    <3>. QED  BY <3>1, <3>2
  <2>5. CASE ~(job.name = v.name /\ g.file = f)
    <3>1. file'[v.name][f] = file[v.name][f]
      BY <1>1, <2>1, <2>2, <2>3, <2>5 DEF TypeOK
    <3>. QED  BY <1>2, <3>1
  <2>. QED  BY <2>4, <2>5
<1>5. CASE Rsync
  <2>. PICK copied \in SUBSET ImageFiles, linkCopied \in BOOLEAN : rsync_cosmovisor(copied, linkCopied)
    BY <1>5 DEF Rsync
  <2>1. file'[v.name][f] = IF <<v.name, f>> \in copied /\ Image[v.name][f] # Nil
                           THEN Image[v.name][f] ELSE file[v.name][f]
    BY <1>1 DEF rsync_cosmovisor
  <2>2. Image[v.name][f] # Nil => Image[v.name][f].url = Files(v)[i].url
    BY DEF OneUrlPerFile
  <2>. QED  BY <1>2, <2>1, <2>2
<1>6. file' = file \/ BeginWrite \/ FinishWrite \/ Rsync
  BY DEF Next, Step, Work, Failure, vars, Start, create_cv_upgrade, SkipExisting, FetchFails, WriteFails,
         RaiseNotFound, create_upgrade_info, DumpInfo, DumpFails, link_cv_current,
         SymlinkCurrent, link_cv_genesis, SymlinkGenesis, Crash, NewContainer, Ends
<1>. QED  BY <1>3, <1>4, <1>5, <1>6

\* If every file has one URL, the files of a job that returned come from the
\* URLs it was given, although the job only looks at names.
THEOREM InstalledAsRequested == Spec => []FilesAsRequested
<1>1. Init => UrlsAsRequested
  BY UrlsInit
<1>2. TypeOK /\ UrlsAsRequested /\ [Next]_vars => UrlsAsRequested'
  BY UrlsStep
<1>3. LayoutInv /\ UrlsAsRequested => FilesAsRequested
  <2>. SUFFICES ASSUME LayoutInv, UrlsAsRequested, OneUrlPerFile, pc = "idle", result = "ok",
                       NEW k \in DOMAIN Files(job)
                PROVE  file[job.name][Files(job)[k].file].url = Files(job)[k].url
    BY DEF FilesAsRequested
  <2>1. job \in Requests
    BY DEF LayoutInv, TypeOK, JobProgress
  <2>2. file[job.name][Files(job)[k].file] # Nil
    BY DEF LayoutInv, InstallDone, Present
  <2>. QED  BY <2>1, <2>2 DEF UrlsAsRequested
<1>. QED  BY <1>1, <1>2, <1>3, TypeCorrect, LayoutInvariant, PTL DEF Spec

-----------------------------------------------------------------------------
(* What is never overwritten *)

\* Only a copy from the image replaces a genesis link that leads somewhere.
LEMMA GenesisStep ==
    ASSUME JobProgress, [Next]_vars, GenesisExists, genesis' # genesis
    PROVE  genesis' = InImage
<1>. USE DEF layout, control, request
<1>1. ~link_cv_genesis
  BY DEF link_cv_genesis
<1>2. ~SymlinkGenesis
  <2>1. genesis # Nil
    BY LayoutAssumption DEF GenesisExists
  <2>. QED  BY <2>1 DEF SymlinkGenesis, JobProgress
<1>3. Rsync
  BY <1>1, <1>2
     DEF Next, Step, Work, Failure, vars, Start, create_cv_upgrade, SkipExisting, FetchFails,
         BeginWrite, FinishWrite, WriteFails, RaiseNotFound, create_upgrade_info,
         DumpInfo, DumpFails, link_cv_current, SymlinkCurrent, Crash, NewContainer, Ends
<1>. QED  BY <1>3 DEF Rsync, rsync_cosmovisor

\* The genesis link keeps its target as long as the target exists.
THEOREM GenesisIsKept == Spec => GenesisKept
<1>1. LayoutInv /\ [Next]_vars => (GenesisExists /\ genesis' # genesis => genesis' = InImage)
  BY GenesisStep DEF LayoutInv
<1>. QED  BY <1>1, LayoutInvariant, PTL DEF Spec, GenesisKept

\* The height in an upgrade-info.json changes only by a copy from the image.
THEOREM InfoIsKept == Spec => InfoKept
<1>. USE DEF layout, control, request
<1>. DEFINE Kept ==
        \A n \in Names :
           info[n] # Nil /\ info'[n] # info[n] =>
              info'[n] # Nil /\ (info'[n].height = info[n].height \/ info'[n] = ImageInfo[n])
<1>1. TypeOK /\ [Next]_vars => Kept
  <2>. SUFFICES ASSUME TypeOK, [Next]_vars, NEW n \in Names,
                       info[n] # Nil, info'[n] # info[n]
                PROVE  info'[n].height = info[n].height \/ info'[n] = ImageInfo[n]
    BY FilesStay
  <2>1. CASE create_upgrade_info
    <3>1. info'[n] = info[n]
      BY <2>1 DEF create_upgrade_info, TypeOK
    <3>. QED  BY <3>1
  <2>2. CASE DumpInfo
    <3>1. job.name \in Names
      BY <2>2, NextFileType DEF DumpInfo, TypeOK
    <3>2. n = job.name /\ info'[n] = [info[n] EXCEPT !.whole = TRUE]
      BY <2>2, <3>1 DEF DumpInfo, TypeOK
    <3>3. info[n] \in UpgradeInfo
      BY DEF TypeOK
    <3>. QED  BY <3>2, <3>3 DEF UpgradeInfo
  <2>3. CASE Rsync
    BY <2>3 DEF Rsync, rsync_cosmovisor
  <2>4. create_upgrade_info \/ DumpInfo \/ Rsync
    BY DEF Next, Step, Work, Failure, vars, Start, create_cv_upgrade, SkipExisting, FetchFails,
           BeginWrite, FinishWrite, WriteFails, RaiseNotFound, DumpFails,
           link_cv_current, SymlinkCurrent, link_cv_genesis, SymlinkGenesis,
           Crash, NewContainer, Ends
  <2>. QED  BY <2>1, <2>2, <2>3, <2>4
<1>. QED  BY <1>1, TypeCorrect, PTL DEF Spec, InfoKept

-----------------------------------------------------------------------------
(* How long a job can take *)

\* What the job has before it: its stages, and two steps for every file.
Stage ==
    [ idle |-> 0, genlink |-> 1, genesis |-> 2, symlink |-> 3, unlink |-> 4, dump |-> 5,
      write |-> 5, fetch |-> 6 ]

Remaining ==
    Stage[pc] + IF pc \in {"fetch", "write"} THEN 2 * (Len(Files(job)) + 1 - next) ELSE 0

LEMMA RemainingType == TypeOK => Remaining \in Nat
<1>. SUFFICES ASSUME TypeOK PROVE Remaining \in Nat
  OBVIOUS
<1>1. Stage[pc] \in Nat
  BY DEF TypeOK, Stage
<1>2. pc # "idle" => Len(Files(job)) + 1 - next \in Nat
  BY NextFileType DEF TypeOK
<1>. QED  BY <1>1, <1>2 DEF Remaining

LEMMA JobShrinks == TypeOK /\ Step => Remaining' < Remaining
<1>. SUFFICES ASSUME TypeOK, Step PROVE Remaining' < Remaining
  OBVIOUS
<1>. USE DEF layout, control, request
<1>. DEFINE ahead == Len(Files(job)) + 1 - next
<1>1. /\ job # Nil /\ job' = job /\ next \in Nat /\ Len(Files(job)) \in Nat /\ ahead \in Nat
  BY NextFileType
     DEF TypeOK, Step, Work, Failure, SkipExisting, FetchFails, BeginWrite, FinishWrite,
         WriteFails, RaiseNotFound, Fetched, create_upgrade_info, DumpInfo, DumpFails,
         link_cv_current, SymlinkCurrent, link_cv_genesis, SymlinkGenesis, Ends
<1>2. CASE SkipExisting \/ BeginWrite \/ FinishWrite
  <2>1. \/ pc = "fetch" /\ pc' = "fetch" /\ next' = next + 1
        \/ pc = "fetch" /\ pc' = "write" /\ next' = next
        \/ pc = "write" /\ pc' = "fetch" /\ next' = next + 1
    BY <1>2 DEF SkipExisting, BeginWrite, FinishWrite
  <2>2. Remaining = (IF pc = "fetch" THEN 6 ELSE 5) + 2 * (Len(Files(job)) + 1 - next)
    BY <2>1 DEF Remaining, Stage
  <2>3. Remaining' = (IF pc' = "fetch" THEN 6 ELSE 5) + 2 * (Len(Files(job)) + 1 - next')
    BY <1>1, <2>1 DEF Remaining, Stage
  <2>. HIDE DEF Remaining
  <2>. QED  BY <1>1, <2>1, <2>2, <2>3
<1>3. CASE ~(SkipExisting \/ BeginWrite \/ FinishWrite)
  <2>1. /\ pc \in {"fetch", "write", "dump", "unlink", "symlink", "genesis", "genlink"}
        /\ pc \in {"fetch", "write"} => pc' \in {"idle", "dump", "unlink"}
                                       /\ (pc = "write" => pc' = "idle")
        /\ pc = "dump" => pc' \in {"idle", "unlink"}
        /\ pc = "unlink" => pc' \in {"symlink", "genesis"}
        /\ pc = "symlink" => pc' = "genesis"
        /\ pc = "genesis" => pc' \in {"idle", "genlink"}
        /\ pc = "genlink" => pc' = "idle"
    BY <1>3
       DEF TypeOK, Step, Work, Failure, FetchFails, WriteFails, RaiseNotFound, Fetched,
           create_upgrade_info, DumpInfo, DumpFails, link_cv_current, SymlinkCurrent,
           link_cv_genesis, SymlinkGenesis, Ends
  <2>. QED  BY <1>1, <2>1 DEF Remaining, Stage
<1>. QED  BY <1>2, <1>3

\* No step of a job is taken twice: each leaves it less to do, whatever files it
\* finds (cvutils.py:140-176); what is never answered is the download itself,
\* which has no timeout (cvutils.py:238).
THEOREM JobsAreFinite ==
    Spec => [](Remaining \in Nat) /\ [][Step => Remaining' < Remaining]_vars
<1>1. TypeOK => Remaining \in Nat
  BY RemainingType
<1>2. TypeOK => (Step => Remaining' < Remaining)
  BY JobShrinks
<1>. QED  BY <1>1, <1>2, TypeCorrect, PTL

=============================================================================
