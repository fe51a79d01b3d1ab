------------------------- MODULE InstallationProofs -------------------------
(***************************************************************************)
(* CvLayout implements Installation, for every set of names, files,        *)
(* requests and image: the initial state is one of Installation, and every *)
(* step is one of its steps or changes nothing there.                      *)
(***************************************************************************)
EXTENDS CvLayoutProofs

\* Nothing changes in Installation.
Quiet == UNCHANGED <<installedBar, activeBar, baseBar, wantBar, statusBar>>

LEMMA InitMaps == Init => Abstract!Init
<1>. SUFFICES ASSUME Init PROVE Abstract!Init
  OBVIOUS
<1>1. installedBar = {}
  <2>1. Bin \in FileNames
    BY DEF FileNames
  <2>. QED  BY <2>1 DEF Init, installedBar
<1>2. activeBar = Nil /\ wantBar = Nil /\ statusBar = "none" /\ baseBar = Nil
  BY DEF Init, activeBar, wantBar, statusBar, baseBar, GenesisExists
<1>. QED  BY <1>1, <1>2 DEF Abstract!Init

\* A step of the job that leaves the request and the genesis link alone.
LEMMA WorkKeeps ==
    ASSUME TypeOK, JobProgress,
           \/ SkipExisting \/ FetchFails \/ BeginWrite \/ FinishWrite \/ WriteFails
           \/ RaiseNotFound \/ create_upgrade_info \/ DumpInfo \/ DumpFails
           \/ link_cv_current \/ SymlinkCurrent \/ Crash
    PROVE  /\ job # Nil /\ job \in Version /\ job.name \in Names
           /\ wantBar' = wantBar /\ wantBar = [name |-> job.name, link |-> link]
           /\ baseBar' = baseBar
           /\ statusBar = "busy"
<1>. USE DEF layout, control, request
<1>1. UNCHANGED <<job, link, genesis, opt>> /\ pc # "idle"
  BY DEF SkipExisting, FetchFails, BeginWrite, FinishWrite, WriteFails, RaiseNotFound, Fetched,
         create_upgrade_info, DumpInfo, DumpFails, link_cv_current, SymlinkCurrent, Crash, Ends
<1>2. job # Nil
  BY <1>1 DEF TypeOK
<1>. QED
  BY <1>1, <1>2, NextFileType DEF wantBar, baseBar, statusBar, GenesisExists

\* The downloads: the first write to the daemon's file adds the upgrade.
LEMMA FetchMaps ==
    ASSUME TypeOK, JobProgress, SkipExisting \/ BeginWrite \/ FinishWrite
    PROVE  Abstract!Add \/ Quiet
<1>. USE DEF layout, control, request
<1>1. /\ job # Nil /\ job \in Version /\ job.name \in Names
      /\ wantBar' = wantBar /\ wantBar.name = job.name
      /\ baseBar' = baseBar /\ statusBar = "busy"
  BY WorkKeeps
<1>2. activeBar' = activeBar /\ statusBar' = "busy"
  BY DEF SkipExisting, BeginWrite, FinishWrite, activeBar, statusBar
<1>3. CASE SkipExisting
  <2>1. installedBar' = installedBar
    BY <1>3 DEF SkipExisting, installedBar
  <2>. QED  BY <1>1, <1>2, <2>1 DEF Quiet
<1>4. CASE BeginWrite \/ FinishWrite
  <2>. DEFINE f == Files(job)[next].file
  <2>1. f \in FileNames /\ Files(job)[next].url \in Urls
    BY <1>1, <1>4, NextFileType DEF BeginWrite, FinishWrite, TypeOK
  <2>2. \A b \in BOOLEAN : [url |-> Files(job)[next].url, whole |-> b] # Nil
    BY <2>1, WritesType
  <2>3. \E b \in BOOLEAN : file' = [file EXCEPT ![job.name][f] =
                                      [url |-> Files(job)[next].url, whole |-> b]]
    BY <1>4 DEF BeginWrite, FinishWrite
  <2>4. file'[job.name][f] # Nil
    BY <1>1, <2>1, <2>2, <2>3 DEF TypeOK
  <2>5. \A n \in Names, g \in FileNames :
           <<n, g>> # <<job.name, f>> => file'[n][g] = file[n][g]
    BY <1>1, <2>1, <2>3 DEF TypeOK
  <2>6. Bin \in FileNames
    BY DEF FileNames
  <2>7. CASE f = Bin
    <3>1. installedBar' = installedBar \union {job.name}
      BY <1>1, <2>4, <2>5, <2>6, <2>7 DEF installedBar
    <3>. QED  BY <1>1, <1>2, <3>1 DEF Abstract!Add
  <2>8. CASE f # Bin
    <3>1. installedBar' = installedBar
      BY <2>5, <2>6, <2>8 DEF installedBar
    <3>. QED  BY <1>1, <1>2, <3>1 DEF Quiet
  <2>. QED  BY <2>7, <2>8
<1>. QED  BY <1>3, <1>4

\* The links: the second half of link_cv_current activates, and the end of
\* link_cv_genesis is the job's success.
LEMMA LinkMaps ==
    ASSUME TypeOK, JobProgress,
           link_cv_current \/ SymlinkCurrent \/ link_cv_genesis \/ SymlinkGenesis
    PROVE  Abstract!Activate \/ Abstract!Succeed \/ Quiet
<1>. USE DEF layout, control, request
<1>1. UNCHANGED <<file, opt, job, link, was>> /\ pc # "idle"
  BY DEF link_cv_current, SymlinkCurrent, link_cv_genesis, SymlinkGenesis, Ends
<1>2. job # Nil /\ job.name \in Names /\ file[job.name][Bin] # Nil
  BY NextFileType
     DEF link_cv_current, SymlinkCurrent, link_cv_genesis, SymlinkGenesis,
         TypeOK, JobProgress
<1>3. /\ installedBar' = installedBar /\ job.name \in installedBar
      /\ wantBar' = wantBar /\ wantBar.name = job.name /\ wantBar.link = link
      /\ statusBar = "busy"
  BY <1>1, <1>2 DEF installedBar, wantBar, statusBar
<1>4. CASE link_cv_current
  BY <1>3, <1>4 DEF link_cv_current, JobProgress, Quiet, activeBar, baseBar,
                    GenesisExists, statusBar
<1>5. CASE SymlinkCurrent
  <2>1. link /\ activeBar' = job.name /\ baseBar' = baseBar /\ statusBar' = "busy"
    BY <1>5 DEF SymlinkCurrent, JobProgress, activeBar, baseBar, GenesisExists,
                statusBar
  <2>. QED  BY <1>3, <2>1 DEF Abstract!Activate
<1>6. CASE link_cv_genesis /\ ~GenesisExists
  BY <1>1, <1>3, <1>6, LayoutAssumption
     DEF link_cv_genesis, Quiet, activeBar, baseBar, GenesisExists, statusBar
<1>7. CASE (link_cv_genesis /\ GenesisExists) \/ SymlinkGenesis
  <2>1. current' = current /\ current = IF link THEN job.name ELSE was
    BY <1>7 DEF link_cv_genesis, SymlinkGenesis, JobProgress
  <2>2. pc' = "idle" /\ result' = "ok"
    BY <1>7 DEF link_cv_genesis, SymlinkGenesis, Ends
  <2>3. activeBar' = activeBar /\ (link => activeBar = job.name) /\ statusBar' = "ok"
    BY <1>7, <2>1, <2>2 DEF link_cv_genesis, SymlinkGenesis, activeBar, statusBar
  <2>4. baseBar' = IF baseBar = Nil THEN job.name ELSE baseBar
    <3>1. CASE link_cv_genesis /\ GenesisExists
      BY <1>1, <3>1, LayoutAssumption DEF link_cv_genesis, baseBar, GenesisExists
    <3>2. CASE SymlinkGenesis
      BY <1>1, <1>2, <3>2, LayoutAssumption
         DEF SymlinkGenesis, JobProgress, baseBar, GenesisExists
    <3>. QED  BY <1>7, <3>1, <3>2
  <2>. QED  BY <1>3, <2>3, <2>4 DEF Abstract!Succeed
<1>. QED  BY <1>4, <1>5, <1>6, <1>7

\* The ends that are no success.
LEMMA EndMaps ==
    ASSUME TypeOK, JobProgress, Crash \/ FetchFails \/ WriteFails \/ RaiseNotFound \/ DumpFails
    PROVE  Abstract!Fail \/ Abstract!BreakOff
<1>. USE DEF layout, control, request
<1>1. /\ job # Nil /\ wantBar' = wantBar /\ wantBar = [name |-> job.name, link |-> link]
      /\ baseBar' = baseBar /\ statusBar = "busy"
  BY WorkKeeps
<1>2. UNCHANGED <<file, current>> /\ pc' = "idle" /\ installedBar' = installedBar
  BY DEF Crash, FetchFails, WriteFails, RaiseNotFound, DumpFails, Fetched, Ends, installedBar
<1>3. CASE Crash
  <2>1. statusBar' = "crashed"
    BY <1>2, <1>3 DEF Crash, Ends, statusBar
  <2>2. activeBar' = activeBar \/ (link /\ activeBar' = Nil)
    BY <1>2, <1>3 DEF Crash, activeBar, JobProgress
  <2>. QED  BY <1>1, <1>2, <2>1, <2>2 DEF Abstract!BreakOff
<1>4. CASE FetchFails \/ WriteFails \/ RaiseNotFound \/ DumpFails
  <2>1. statusBar' = "raised"
    BY <1>4 DEF FetchFails, WriteFails, RaiseNotFound, DumpFails, Ends, statusBar
  <2>2. activeBar' = activeBar
    BY <1>2, <1>4 DEF FetchFails, WriteFails, RaiseNotFound, DumpFails, Fetched, activeBar
  <2>. QED  BY <1>1, <1>2, <2>1, <2>2 DEF Abstract!Fail
<1>. QED  BY <1>3, <1>4

\* While no job runs: a request, the image's copy, the other kind of image.
LEMMA IdleMaps ==
    ASSUME TypeOK, JobProgress, Start \/ Rsync \/ NewContainer
    PROVE  Abstract!Request \/ Abstract!CopyImage \/ Abstract!Remount
<1>. USE DEF layout, control, request
<1>. DEFINE provided == {n \in Names : Image[n][Bin] # Nil}
<1>1. pc = "idle" /\ statusBar # "busy" /\ current' = current /\ activeBar' = activeBar
  BY DEF Start, Rsync, NewContainer, create_cv_upgrade, rsync_cosmovisor, TypeOK,
         statusBar, activeBar
<1>2. CASE Start
  <2>. PICK v \in Requests, linkCurrent \in LinkModes : create_cv_upgrade(v, linkCurrent)
    BY <1>2 DEF Start
  <2>1. v # Nil /\ v.name \in Names /\ linkCurrent \in BOOLEAN
    BY RequestType, LayoutAssumption
  <2>2. wantBar' = [name |-> v.name, link |-> linkCurrent] /\ statusBar' = "busy"
    BY <2>1 DEF create_cv_upgrade, wantBar, statusBar
  <2>3. installedBar' = installedBar /\ baseBar' = baseBar
    BY DEF create_cv_upgrade, installedBar, baseBar, GenesisExists
  <2>. QED  BY <1>1, <2>1, <2>2, <2>3 DEF Abstract!Request
<1>3. CASE Rsync
  <2>. PICK copied \in SUBSET ImageFiles, linkCopied \in BOOLEAN :
              rsync_cosmovisor(copied, linkCopied)
    BY <1>3 DEF Rsync
  <2>1. wantBar' = wantBar /\ statusBar' = statusBar
    BY DEF rsync_cosmovisor, wantBar, statusBar
  <2>2. baseBar' \in {baseBar, InImage}
    BY DEF rsync_cosmovisor, baseBar, GenesisExists
  <2>. DEFINE binaries == {n \in Names : <<n, Bin>> \in copied}
  <2>3. installedBar' = installedBar \union (binaries \intersect provided)
    <3>1. Bin \in FileNames
      BY DEF FileNames
    <3>2. \A n \in Names : file'[n][Bin] = IF <<n, Bin>> \in copied /\ Image[n][Bin] # Nil
                                          THEN Image[n][Bin] ELSE file[n][Bin]
      BY <3>1 DEF rsync_cosmovisor
    <3>. QED  BY <3>2 DEF installedBar
  <2>4. \E c \in SUBSET provided : installedBar' = installedBar \union c
    BY <2>3
  <2>. QED  BY <1>1, <2>1, <2>2, <2>4 DEF Abstract!CopyImage
<1>4. CASE NewContainer
  <2>1. UNCHANGED <<installedBar, wantBar, statusBar>>
    BY <1>4 DEF NewContainer, installedBar, wantBar, statusBar
  <2>2. CASE genesis = InImage
    <3>1. {baseBar, baseBar'} \subseteq {InImage, Nil}
      BY <1>4, <2>2, LayoutAssumption DEF NewContainer, baseBar, GenesisExists
    <3>. QED  BY <1>1, <2>1, <3>1 DEF Abstract!Remount
  <2>3. CASE genesis # InImage
    <3>1. baseBar' = baseBar
      BY <1>4, <2>3 DEF NewContainer, baseBar, GenesisExists
    <3>2. {} \in SUBSET provided /\ installedBar' = installedBar \union {}
      BY <2>1
    <3>3. \E c \in SUBSET provided : installedBar' = installedBar \union c
      BY <3>2, Zenon
    <3>. QED  BY <1>1, <2>1, <3>1, <3>3 DEF Abstract!CopyImage
  <2>. QED  BY <2>2, <2>3
<1>. QED  BY <1>2, <1>3, <1>4

LEMMA StepMaps == TypeOK /\ JobProgress /\ [Next]_vars => [Abstract!Next]_(Abstract!vars)
<1>. SUFFICES ASSUME TypeOK, JobProgress, [Next]_vars
              PROVE  Abstract!Next \/ UNCHANGED Abstract!vars
  OBVIOUS
<1>1. Quiet => UNCHANGED Abstract!vars
  BY DEF Quiet, Abstract!vars
<1>2. CASE UNCHANGED vars \/ create_upgrade_info \/ DumpInfo
  <2>1. UNCHANGED <<file, current, genesis, opt, job, link, result, was>>
    BY <1>2 DEF vars, create_upgrade_info, DumpInfo, request
  <2>2. \/ pc' = pc
        \/ {pc, pc'} \subseteq {"fetch", "dump", "unlink"}
    BY <1>2 DEF vars, create_upgrade_info, DumpInfo, Fetched
  <2>3. Quiet
    BY <2>1, <2>2 DEF Quiet, installedBar, activeBar, baseBar, wantBar, statusBar, GenesisExists
  <2>. QED  BY <1>1, <2>3
<1>3. CASE SkipExisting \/ BeginWrite \/ FinishWrite
  BY <1>1, <1>3, FetchMaps DEF Abstract!Next
<1>4. CASE link_cv_current \/ SymlinkCurrent \/ link_cv_genesis \/ SymlinkGenesis
  BY <1>1, <1>4, LinkMaps DEF Abstract!Next
<1>5. CASE Crash \/ FetchFails \/ WriteFails \/ RaiseNotFound \/ DumpFails
  BY <1>5, EndMaps DEF Abstract!Next
<1>6. CASE Start \/ Rsync \/ NewContainer
  BY <1>6, IdleMaps DEF Abstract!Next
<1>. QED  BY <1>2, <1>3, <1>4, <1>5, <1>6 DEF Next, Step, Work, Failure

\* Whoever looks only at which upgrades have a binary, which one is active and
\* how the last request ended sees create_cv_upgrade (cvutils.py:140-221) as
\* atomic steps, kills and failures included.
THEOREM Refinement == Spec => ImplementsInstallation
<1>1. Init => Abstract!Init
  BY InitMaps
<1>2. LayoutInv /\ [Next]_vars => [Abstract!Next]_(Abstract!vars)
  BY StepMaps DEF LayoutInv
<1>. QED
  BY <1>1, <1>2, LayoutInvariant, PTL DEF Spec, ImplementsInstallation, Abstract!Spec

=============================================================================
