-------------------------- MODULE SnapshotJobProofs --------------------------
(***************************************************************************)
(* Theorems about SnapshotJob, for any identifiers, heights and faults;    *)
(* the last one is that it implements Backup.                              *)
(***************************************************************************)
EXTENDS SnapshotJob, TLAPS

-----------------------------------------------------------------------------
(* Types *)

LEMMA InitTypeOK == Init => TypeOK
<1>. SUFFICES ASSUME Init PROVE StoreType /\ ProcessType /\ JobType
  BY DEF TypeOK
<1>. USE SnapshotAssumption DEF Init
<1>1. data \in Data
  BY DEF Data, Signed
<1>2. archives \in [Names -> Archive \union {Nil}]
  OBVIOUS
<1>3. StoreType
  BY <1>1, <1>2 DEF StoreType
<1>4. catching_up \in BOOLEAN /\ missed \in BOOLEAN
  BY Zenon
<1>5. faults \in 0..MaxFaults
  OBVIOUS
<1>6. ProcessType
  BY <1>4, <1>5 DEF ProcessType
<1>7. JobType
  BY DEF JobType, Places
<1>. QED  BY <1>3, <1>6, <1>7

\* What a job begins to archive, and has archived, is an archive.
LEMMA BegunType ==
    ASSUME StoreType
    PROVE  Begun \in Archive /\ Begun # Nil
<1>1. data.height \in 0..MaxHeight /\ data.pv \in Signed /\ data.whole \in BOOLEAN
  BY DEF StoreType, Data
<1>2. \A b \in BOOLEAN :
         [ height |-> data.height, pv |-> data.pv, intact |-> data.whole,
           file |-> "torn", live |-> b ] \in Archive
  BY <1>1 DEF Archive, Files
<1>3. (node = "running") \in BOOLEAN
  OBVIOUS
<1>4. Begun \in Archive
  BY <1>2, <1>3 DEF Begun
<1>. QED  BY <1>4, SnapshotAssumption

LEMMA EndedType ==
    ASSUME StoreType, latest # Nil
    PROVE  Ended \in Archive /\ Ended # Nil
<1>1. archives[latest] \in Archive
  BY DEF StoreType
<1>2. (archives[latest].live \/ node = "running") \in BOOLEAN
  OBVIOUS
<1>3. \A b \in BOOLEAN : [archives[latest] EXCEPT !.file = "whole", !.live = b] \in Archive
  BY <1>1 DEF Archive, Files
<1>4. Ended \in Archive
  BY <1>2, <1>3 DEF Ended
<1>. QED  BY <1>4, SnapshotAssumption

\* Writing one file keeps the directory's type.
LEMMA PutType ==
    ASSUME StoreType, NEW n \in Names, NEW a \in Archive, a # Nil,
           archives' = [archives EXCEPT ![n] = a], latest' \in {latest, n},
           latest' = latest => latest # Nil,
           UNCHANGED data
    PROVE  StoreType'
BY SnapshotAssumption DEF StoreType, Names

LEMMA EditType ==
    ASSUME StoreType, NEW h \in 0..MaxHeight, NEW w \in BOOLEAN, NEW s \in Signed
    PROVE  /\ [height |-> h, whole |-> w, pv |-> s] \in Data
           /\ [data EXCEPT !.height = h, !.pv = s] \in Data
           /\ [data EXCEPT !.height = h] \in Data
           /\ [data EXCEPT !.pv = s] \in Data
           /\ [data EXCEPT !.whole = w] \in Data
           /\ [data EXCEPT !.height = h, !.whole = w] \in Data
BY DEF StoreType, Data

LEMMA DataType ==
    ASSUME StoreType, data' \in Data, UNCHANGED stored
    PROVE  StoreType'
BY DEF StoreType, stored

-----------------------------------------------------------------------------
(* Where a job is *)

Picked ==
    /\ (IF source = Nil THEN latest ELSE source) \in Names
    /\ Chosen # Nil

\* Each action has places of its own, and what they rely on is there.
JobPlaces ==
    /\ pc \in { "params", "sync_stop", "clean", "cleaning", "sync_start", "wait",
                "stop", "prune", "pruning", "archive", "archiving" } => action # "restore"
    /\ pc \in { "halt", "reset", "state", "find", "downloading", "extract", "extracting",
                "initversion" } => action = "restore"
    /\ pc = "archiving" => latest # Nil
    /\ pc = "downloading" => source = Url /\ latest = Url
    /\ pc \in {"extract", "extracting", "initversion"} => Picked

\* A step of a create or a restore.
CreateStep ==
    \/ SyncRefused \/ SyncConfigured \/ SyncStop \/ BeginClean \/ FinishClean
    \/ CleanIncomplete \/ SyncStart \/ wait_for_sync
    \/ StopForArchive \/ NoPrune \/ BeginPrune \/ FinishPrune \/ PruneFails
    \/ BeginArchive \/ FinishArchive \/ ArchiveFails

RestoreStep ==
    \/ StopForRestore \/ RemoveData \/ WriteState \/ NoSnapshot \/ FindSnapshot
    \/ BeginDownload \/ FinishDownload \/ DownloadFails \/ ExtractUnsupported
    \/ BeginExtract \/ FinishExtract \/ ExtractFails \/ InitVersion

NodeStep == Sync \/ Commit \/ NodeRestart

Begin ==
    \/ \E sync \in BOOLEAN : StartCreate(sync)
    \/ \E from \in {Nil, Url, Unsupported} : StartRestore(from)

\* The steps, in these groups.
LEMMA Steps ==
    ASSUME [Next]_vars
    PROVE  \/ Begin \/ CreateStep \/ RestoreStep \/ StartNode \/ Kill \/ Control \/ NodeStep
           \/ UNCHANGED vars
BY DEF Next, Job, Begin, CreateStep, RestoreStep, NodeStep, WaitOn

\* The job's own variables keep their types.
LEMMA JobTypeStep == JobType /\ [Next]_vars => JobType'
<1>. SUFFICES ASSUME JobType, [Next]_vars PROVE JobType'
  OBVIOUS
<1>. USE DEF JobType, asked, At, Goto, Ends
<1>1. CASE Begin
  BY <1>1 DEF Begin, StartCreate, StartRestore, Places
<1>2. CASE CreateStep
  BY <1>2 DEF CreateStep, Places, SyncRefused, SyncConfigured, SyncStop, BeginClean, FinishClean,
         CleanIncomplete, SyncStart, wait_for_sync, StopForArchive, NoPrune, BeginPrune,
         FinishPrune, PruneFails, BeginArchive, FinishArchive, ArchiveFails
<1>3. CASE RestoreStep
  BY <1>3 DEF RestoreStep, Places, StopForRestore, RemoveData, WriteState, NoSnapshot,
         FindSnapshot, BeginDownload, FinishDownload, DownloadFails, ExtractUnsupported,
         BeginExtract, FinishExtract, ExtractFails, InitVersion
<1>4. CASE StartNode \/ Kill \/ Control
  BY <1>4 DEF StartNode, Kill, Control, Places
<1>5. CASE NodeStep
  BY <1>5 DEF NodeStep, Sync, Commit, NodeRestart
<1>6. CASE UNCHANGED vars
  BY <1>6 DEF vars
<1>. QED  BY <1>1, <1>2, <1>3, <1>4, <1>5, <1>6, Steps

\* supervisord's process and the history keep their types.
LEMMA ProcessTypeStep == ProcessType /\ [Next]_vars => ProcessType'
<1>. SUFFICES ASSUME ProcessType, [Next]_vars PROVE ProcessType'
  OBVIOUS
<1>1. /\ node' \in {node, "stopped", "running"}
      /\ catching_up' = catching_up \/ catching_up' = TRUE \/ catching_up' = FALSE
      /\ missed' = missed \/ missed' = TRUE
      /\ faults' = faults \/ Fault
  <2>. USE DEF process, stop_process, start_process, restart_process, Unanswered
  <2>1. CASE Begin \/ UNCHANGED vars
    BY <2>1 DEF Begin, StartCreate, StartRestore, vars
  <2>2. CASE CreateStep
    BY <2>2 DEF CreateStep, SyncRefused, SyncConfigured, SyncStop, BeginClean, FinishClean,
           CleanIncomplete, SyncStart, wait_for_sync, StopForArchive, NoPrune, BeginPrune,
           FinishPrune, PruneFails, BeginArchive, FinishArchive, ArchiveFails
  <2>3. CASE RestoreStep
    BY <2>3 DEF RestoreStep, StopForRestore, RemoveData, WriteState, NoSnapshot, FindSnapshot,
           BeginDownload, FinishDownload, DownloadFails, ExtractUnsupported, BeginExtract,
           FinishExtract, ExtractFails, InitVersion
  <2>4. CASE StartNode \/ Kill \/ Control
    BY <2>4 DEF StartNode, Kill, Control
  <2>5. CASE NodeStep
    BY <2>5 DEF NodeStep, Sync, Commit, NodeRestart
  <2>. QED  BY <2>1, <2>2, <2>3, <2>4, <2>5, Steps
<1>2. node' \in {"stopped", "running"}
  BY <1>1 DEF ProcessType
<1>3. catching_up' \in BOOLEAN
  BY <1>1 DEF ProcessType
<1>4. missed' \in BOOLEAN
  BY <1>1 DEF ProcessType
<1>5. faults' \in 0..MaxFaults
  BY <1>1, SnapshotAssumption DEF ProcessType, Fault
<1>. QED  BY <1>2, <1>3, <1>4, <1>5 DEF ProcessType

\* Jobs keep to their places.
LEMMA PlacesStep ==
    ASSUME StoreType, JobType, JobPlaces, [Next]_vars
    PROVE  JobPlaces'
<1>. USE DEF JobPlaces, At, Goto, Ends, asked, stored, store
<1>1. CASE Begin \/ StartNode \/ Kill \/ Control
  BY <1>1 DEF Begin, StartCreate, StartRestore, StartNode, Kill, Control
<1>2. CASE CreateStep
  BY <1>2, SnapshotAssumption
     DEF Names, CreateStep, SyncRefused, SyncConfigured, SyncStop, BeginClean, FinishClean,
         CleanIncomplete, SyncStart, wait_for_sync, StopForArchive, NoPrune, BeginPrune,
         FinishPrune, PruneFails, BeginArchive, FinishArchive, ArchiveFails
<1>3. CASE FindSnapshot
  BY <1>3, SnapshotAssumption DEF FindSnapshot, Picked, Chosen, Stored, StoreType, Names
<1>4. CASE BeginDownload
  BY <1>4 DEF BeginDownload
<1>5. CASE FinishDownload
  <2>1. Url \in Names /\ Url # Nil /\ source = Url
    BY <1>5, SnapshotAssumption DEF FinishDownload, Names
  <2>2. archives[Url] \in Archive
    BY <1>5, <2>1 DEF FinishDownload, StoreType
  <2>3. [archives[Url] EXCEPT !.file = "whole"] \in Archive
    BY <2>2 DEF Archive, Files
  <2>4. archives'[Url] = [archives[Url] EXCEPT !.file = "whole"]
    BY <1>5, <2>1 DEF FinishDownload, StoreType
  <2>5. Picked'
    BY <1>5, <2>1, <2>3, <2>4, SnapshotAssumption DEF FinishDownload, Picked, Chosen
  <2>. QED  BY <1>5, <2>5 DEF FinishDownload
<1>6. CASE BeginExtract \/ FinishExtract \/ ExtractFails \/ InitVersion
  BY <1>6 DEF BeginExtract, FinishExtract, ExtractFails, InitVersion, Picked, Chosen
<1>7. CASE \/ StopForRestore \/ RemoveData \/ WriteState \/ NoSnapshot \/ DownloadFails
           \/ ExtractUnsupported
  BY <1>7 DEF StopForRestore, RemoveData, WriteState, NoSnapshot, DownloadFails,
         ExtractUnsupported
<1>8. CASE NodeStep \/ UNCHANGED vars
  BY <1>8 DEF NodeStep, Sync, Commit, NodeRestart, vars, Picked, Chosen
<1>. QED
  BY <1>1, <1>2, <1>3, <1>4, <1>5, <1>6, <1>7, <1>8, Steps DEF RestoreStep

\* The data and the archives keep their types.
LEMMA StoreTypeStep ==
    ASSUME StoreType, JobType, JobPlaces, [Next]_vars
    PROVE  StoreType'
<1>. USE DEF At
<1>0. data \in Data
  BY DEF StoreType
<1>1. CASE UNCHANGED store
  BY <1>1 DEF store, stored, StoreType
<1>2. CASE Sync
  <2>1. PICK h \in data.height..MaxHeight : data' = [data EXCEPT !.height = h]
    BY <1>2 DEF Sync
  <2>2. h \in 0..MaxHeight
    BY <1>0, SnapshotAssumption DEF Data
  <2>3. UNCHANGED stored
    BY <1>2 DEF Sync
  <2>4. [data EXCEPT !.height = h] \in Data
    BY <1>0, <2>2 DEF Data
  <2>. QED  BY <2>1, <2>3, <2>4, DataType
<1>3. CASE Commit
  <2>. DEFINE h == data.height + 1
              s == IF h > data.pv THEN h ELSE data.pv
  <2>1. h \in 0..MaxHeight /\ s \in Signed
    BY <1>0, <1>3, SnapshotAssumption DEF Commit, Data, Signed
  <2>2. data' = [data EXCEPT !.height = h, !.pv = s] /\ UNCHANGED stored
    BY <1>3 DEF Commit
  <2>. HIDE DEF h, s
  <2>. QED  BY <2>1, <2>2, EditType, DataType
<1>4. CASE BeginClean \/ FinishClean \/ BeginPrune \/ FinishPrune \/ BeginExtract
  <2>1. UNCHANGED stored /\ (\/ data' = [data EXCEPT !.whole = FALSE]
                             \/ data' = [data EXCEPT !.whole = TRUE]
                             \/ data' = [data EXCEPT !.height = 0, !.whole = TRUE])
    BY <1>4 DEF BeginClean, FinishClean, BeginPrune, FinishPrune, BeginExtract
  <2>2. 0 \in 0..MaxHeight
    BY SnapshotAssumption
  <2>. QED  BY <2>1, <2>2, EditType, DataType, <1>0 DEF Data
<1>5. CASE RemoveData \/ WriteState
  <2>1. 0 \in 0..MaxHeight /\ 0 \in Signed /\ Nil \in Signed
    BY SnapshotAssumption DEF Signed
  <2>2. UNCHANGED stored /\ (\/ data' = [height |-> 0, whole |-> TRUE, pv |-> Nil]
                             \/ data' = [data EXCEPT !.pv = 0])
    BY <1>5 DEF RemoveData, WriteState
  <2>. QED  BY <2>1, <2>2, EditType, DataType
<1>6. CASE FinishExtract
  <2>. DEFINE archive == Chosen
              over == Over(Chosen.pv)
  <2>1. archive \in Archive
    BY <1>6 DEF FinishExtract, JobPlaces, Picked, Chosen, StoreType
  <2>2. archive.height \in 0..MaxHeight /\ archive.intact \in BOOLEAN /\ 0 \in 0..MaxHeight
        /\ archive.pv \in Signed
    BY <2>1, SnapshotAssumption DEF Archive
  <2>3. over \in Signed /\ data.pv \in Signed
    BY <1>0, <2>2 DEF Over, Data
  <2>4. UNCHANGED stored /\ data' \in Unpacked
    BY <1>6 DEF FinishExtract
  <2>5. \/ data' = [height |-> archive.height, whole |-> archive.intact, pv |-> over]
        \/ data' \in [height : {0, archive.height}, whole : BOOLEAN, pv : {data.pv, over}]
    BY <2>4 DEF Unpacked
  <2>. HIDE DEF archive, over
  <2>6. data' \in Data
    BY <2>2, <2>3, <2>5 DEF Data
  <2>. QED  BY <2>4, <2>6, DataType
<1>7. CASE BeginArchive
  <2>1. PICK id \in Ids : archives' = [archives EXCEPT ![id] = Begun] /\ latest' = id
    BY <1>7 DEF BeginArchive
  <2>2. id \in Names /\ id # Nil
    BY <2>1, SnapshotAssumption DEF Names
  <2>. QED  BY <1>7, <2>1, <2>2, BegunType, PutType DEF BeginArchive
<1>8. CASE FinishArchive
  <2>1. latest \in Names /\ latest # Nil
    BY <1>8 DEF FinishArchive, JobPlaces, StoreType
  <2>. QED  BY <1>8, <2>1, EndedType, PutType DEF FinishArchive
<1>12. CASE ArchiveFails
  <2>1. latest \in Names /\ latest # Nil /\ archives[latest] \in Archive
    BY <1>12 DEF ArchiveFails, JobPlaces, StoreType
  <2>2. PICK f \in {"torn", "short"} : archives' = [archives EXCEPT ![latest].file = f]
    BY <1>12 DEF ArchiveFails
  <2>. DEFINE a == [archives[latest] EXCEPT !.file = f]
  <2>3. a \in Archive /\ a # Nil
    BY <2>1, SnapshotAssumption DEF Archive, Files
  <2>4. archives' = [archives EXCEPT ![latest] = a] /\ UNCHANGED <<latest, data>>
    BY <1>12, <2>2 DEF ArchiveFails
  <2>. HIDE DEF a
  <2>. QED  BY <2>1, <2>3, <2>4, PutType
<1>9. CASE BeginDownload
  <2>. DEFINE a == [ height |-> UrlHeight, pv |-> 0, intact |-> TRUE,
                     file |-> "torn", live |-> FALSE ]
  <2>1. UrlHeight \in 0..MaxHeight /\ 0 \in Signed
    BY SnapshotAssumption DEF Signed
  <2>5. a \in Archive
    BY <2>1 DEF Archive, Files
  <2>2. Url \in Names /\ Url # Nil
    BY SnapshotAssumption DEF Names
  <2>3. archives' = [archives EXCEPT ![Url] = a] /\ latest' = Url /\ UNCHANGED data
    BY <1>9 DEF BeginDownload
  <2>. HIDE DEF a
  <2>. QED  BY <2>2, <2>3, <2>5, PutType, SnapshotAssumption
<1>10. CASE FinishDownload
  <2>. DEFINE a == [archives[Url] EXCEPT !.file = "whole"]
  <2>1. Url \in Names /\ Url # Nil /\ latest = Url
    BY <1>10, SnapshotAssumption DEF FinishDownload, Names, JobPlaces
  <2>2. archives[Url] \in Archive
    BY <1>10, <2>1 DEF FinishDownload, StoreType
  <2>3. a \in Archive /\ a # Nil
    BY <2>2, SnapshotAssumption DEF Archive, Files
  <2>4. archives' = [archives EXCEPT ![Url] = a] /\ UNCHANGED <<latest, data>>
    BY <1>10 DEF FinishDownload
  <2>. HIDE DEF a
  <2>. QED  BY <2>1, <2>3, <2>4, PutType
<1>11. \/ UNCHANGED store \/ Sync \/ Commit \/ BeginClean \/ FinishClean \/ BeginPrune
       \/ FinishPrune \/ BeginExtract \/ RemoveData \/ WriteState \/ FinishExtract
       \/ BeginArchive \/ FinishArchive \/ ArchiveFails \/ BeginDownload \/ FinishDownload
  BY Steps DEF vars, store, stored, Begin, StartCreate, StartRestore, CreateStep, SyncRefused,
         SyncConfigured, SyncStop, CleanIncomplete, SyncStart, wait_for_sync, StopForArchive,
         NoPrune, PruneFails, RestoreStep, StopForRestore, NoSnapshot, FindSnapshot,
         DownloadFails, ExtractUnsupported, ExtractFails, InitVersion, StartNode, Kill, Control,
         NodeStep, NodeRestart
<1>. QED
  BY <1>1, <1>2, <1>3, <1>4, <1>5, <1>6, <1>7, <1>8, <1>9, <1>10, <1>11, <1>12

-----------------------------------------------------------------------------
(* What the properties rest on *)

\* While supervisord answers, the node stays stopped there.
StopHolds == ~missed /\ pc \in Working => node = "stopped"

\* While supervisord answers, a node that runs has been started over data it
\* can run on, and one that has caught up has some.
RunsWell ==
    ~missed /\ node = "running" => Bootable /\ (~catching_up => data.height > 0)

\* The same for a restore on its way to 0 as RestoredIsWhole says of its end.
RestoredSoFar ==
    pc \in {"initversion", "start"} /\ action = "restore" /\ source # Unsupported =>
       /\ Chosen.file # "torn"
       /\ Chosen.file = "whole" => data.whole = Chosen.intact

SnapshotInv ==
    /\ TypeOK /\ JobPlaces /\ StopHolds /\ RunsWell /\ RestoredSoFar
    /\ ArchiveOfStoppedNode /\ ArchiveNotHalfSynced /\ DoneLeavesRunning /\ RestoredIsWhole

LEMMA InitInv == Init => SnapshotInv
<1>. SUFFICES ASSUME Init PROVE SnapshotInv
  OBVIOUS
<1>1. TypeOK
  BY InitTypeOK
<1>2. JobPlaces /\ StopHolds /\ RestoredSoFar /\ ArchiveOfStoppedNode
      /\ ArchiveNotHalfSynced /\ DoneLeavesRunning /\ RestoredIsWhole
  BY DEF Init, JobPlaces, StopHolds, Working, RestoredSoFar, ArchiveOfStoppedNode,
         ArchiveNotHalfSynced, DoneLeavesRunning, RestoredIsWhole
<1>3. RunsWell
  BY SnapshotAssumption DEF Init, RunsWell, Bootable
<1>. QED  BY <1>1, <1>2, <1>3 DEF SnapshotInv

\* Nobody starts the node under a job, unless a call was lost.
LEMMA StopStep ==
    ASSUME ProcessType, JobType, JobPlaces, StopHolds, [Next]_vars
    PROVE  StopHolds'
<1>. USE DEF StopHolds, Working, At, Goto, Ends, stop_process, Unanswered, process, asked
<1>1. CASE Begin \/ StartNode \/ Kill \/ Control
  BY <1>1 DEF Begin, StartCreate, StartRestore, StartNode, Kill, Control
<1>2. CASE CreateStep
  BY <1>2 DEF CreateStep, SyncRefused, SyncConfigured, SyncStop, BeginClean, FinishClean,
         CleanIncomplete, SyncStart, wait_for_sync, StopForArchive, NoPrune, BeginPrune,
         FinishPrune, PruneFails, BeginArchive, FinishArchive, ArchiveFails
<1>3. CASE RestoreStep
  BY <1>3 DEF RestoreStep, StopForRestore, RemoveData, WriteState, NoSnapshot, FindSnapshot,
         BeginDownload, FinishDownload, DownloadFails, ExtractUnsupported, BeginExtract,
         FinishExtract, ExtractFails, InitVersion
<1>4. CASE NodeStep \/ UNCHANGED vars
  BY <1>4 DEF NodeStep, Sync, Commit, NodeRestart, vars
<1>. QED  BY <1>1, <1>2, <1>3, <1>4, Steps

\* A node that runs, runs over data it can run on.
LEMMA RunsStep ==
    ASSUME StoreType, ProcessType, JobType, StopHolds, RunsWell, [Next]_vars
    PROVE  RunsWell'
<1>. USE DEF RunsWell, Bootable, StopHolds, Working, At, Goto, Ends, store, process
<1>0. data \in Data
  BY DEF StoreType
<1>1. CASE Begin \/ UNCHANGED vars
  BY <1>1 DEF Begin, StartCreate, StartRestore, vars
<1>2. CASE StartNode \/ Control \/ SyncStart \/ SyncStop \/ StopForArchive \/ StopForRestore
  BY <1>2 DEF StartNode, Control, SyncStart, SyncStop, StopForArchive, StopForRestore,
         start_process, stop_process, restart_process, Unanswered
<1>3. CASE \/ Kill \/ SyncRefused \/ SyncConfigured \/ CleanIncomplete \/ wait_for_sync \/ NoPrune
           \/ PruneFails \/ BeginArchive \/ FinishArchive \/ ArchiveFails \/ NoSnapshot \/ FindSnapshot
           \/ BeginDownload \/ FinishDownload \/ DownloadFails \/ ExtractUnsupported
           \/ ExtractFails \/ InitVersion
  BY <1>3 DEF Kill, SyncRefused, SyncConfigured, CleanIncomplete, wait_for_sync, NoPrune,
         PruneFails, BeginArchive, FinishArchive, ArchiveFails, NoSnapshot, FindSnapshot, BeginDownload,
         FinishDownload, DownloadFails, ExtractUnsupported, ExtractFails, InitVersion
<1>4. CASE \/ BeginClean \/ FinishClean \/ BeginPrune \/ FinishPrune \/ RemoveData \/ WriteState
           \/ BeginExtract \/ FinishExtract
  BY <1>4 DEF BeginClean, FinishClean, BeginPrune, FinishPrune, RemoveData, WriteState,
         BeginExtract, FinishExtract
<1>5. CASE Sync
  <2>1. PICK h \in data.height..MaxHeight : h > 0 /\ data' = [data EXCEPT !.height = h]
    BY <1>5 DEF Sync
  <2>. QED  BY <1>0, <1>5, <2>1 DEF Sync, Data
<1>6. CASE Commit
  BY <1>0, <1>6, SnapshotAssumption DEF Commit, Data, Signed
<1>7. CASE NodeRestart
  BY <1>7 DEF NodeRestart
<1>. QED
  BY <1>1, <1>2, <1>3, <1>4, <1>5, <1>6, <1>7, Steps DEF CreateStep, RestoreStep, NodeStep

\* A lost call is not forgotten.
LEMMA MissedStays == [Next]_vars /\ missed => missed'
BY Steps DEF vars, stop_process, start_process, restart_process, Unanswered, process,
       Begin, StartCreate, StartRestore, CreateStep, SyncRefused,
       SyncConfigured, SyncStop, BeginClean, FinishClean, CleanIncomplete, SyncStart,
       wait_for_sync, StopForArchive, NoPrune, BeginPrune, FinishPrune, PruneFails,
       BeginArchive, FinishArchive, ArchiveFails, RestoreStep, StopForRestore, RemoveData, WriteState,
       NoSnapshot, FindSnapshot, BeginDownload, FinishDownload, DownloadFails,
       ExtractUnsupported, BeginExtract, FinishExtract, ExtractFails, InitVersion, StartNode,
       Kill, Control, NodeStep, Sync, Commit, NodeRestart

\* What is archived is of a stopped node.
LEMMA ArchiveStep ==
    ASSUME StoreType, JobType, JobPlaces, StopHolds, ArchiveOfStoppedNode, [Next]_vars
    PROVE  ArchiveOfStoppedNode'
<1>. USE DEF ArchiveOfStoppedNode
<1>0. ~missed' => ~missed
  BY MissedStays
<1>1. CASE UNCHANGED archives
  BY <1>0, <1>1
<1>2. CASE BeginArchive
  <2>1. PICK id \in Ids : archives' = [archives EXCEPT ![id] = Begun]
    BY <1>2 DEF BeginArchive
  <2>2. Begun.live = (node = "running")
    BY DEF Begun
  <2>. QED  BY <1>2, <2>1, <2>2 DEF BeginArchive, At, StopHolds, Working, StoreType
<1>3. CASE FinishArchive
  <2>1. latest \in Names /\ archives[latest] \in Archive
    BY <1>3 DEF FinishArchive, At, JobPlaces, StoreType
  <2>2. Ended.live = (archives[latest].live \/ node = "running")
    BY <2>1 DEF Ended, Archive
  <2>. QED
    BY <1>3, <2>1, <2>2, SnapshotAssumption DEF FinishArchive, At, StopHolds, Working, StoreType
<1>7. CASE ArchiveFails
  <2>1. latest \in Names /\ archives[latest] \in Archive
    BY <1>7 DEF ArchiveFails, At, JobPlaces, StoreType
  <2>2. PICK f \in {"torn", "short"} : archives' = [archives EXCEPT ![latest].file = f]
    BY <1>7 DEF ArchiveFails
  <2>3. [archives[latest] EXCEPT !.file = f].live = archives[latest].live
    BY <2>1 DEF Archive
  <2>. QED  BY <1>0, <1>7, <2>1, <2>2, <2>3, SnapshotAssumption DEF ArchiveFails, StoreType
<1>4. CASE BeginDownload
  BY <1>0, <1>4 DEF BeginDownload, StoreType
<1>5. CASE FinishDownload
  <2>1. Url \in Names /\ archives[Url] \in Archive
    BY <1>5, SnapshotAssumption DEF FinishDownload, At, JobPlaces, StoreType, Names
  <2>2. [archives[Url] EXCEPT !.file = "whole"].live = archives[Url].live
    BY <2>1 DEF Archive
  <2>. QED  BY <1>0, <1>5, <2>1, <2>2, SnapshotAssumption DEF FinishDownload, StoreType
<1>6. \/ UNCHANGED archives \/ BeginArchive \/ FinishArchive \/ ArchiveFails
      \/ BeginDownload \/ FinishDownload
  BY Steps DEF vars, store, stored, Begin, StartCreate, StartRestore, CreateStep, SyncRefused,
         SyncConfigured, SyncStop, BeginClean, FinishClean, CleanIncomplete, SyncStart,
         wait_for_sync, StopForArchive, NoPrune, BeginPrune, FinishPrune, PruneFails,
         RestoreStep, StopForRestore, RemoveData, WriteState, NoSnapshot, FindSnapshot,
         DownloadFails, ExtractUnsupported, BeginExtract, FinishExtract, ExtractFails,
         InitVersion, StartNode, Kill, Control, NodeStep, Sync, Commit, NodeRestart
<1>. QED  BY <1>1, <1>2, <1>3, <1>4, <1>5, <1>6, <1>7

\* What is archived after a sync is of a synced node.
LEMMA SyncedStep ==
    ASSUME StoreType, ProcessType, JobType, JobPlaces, StopHolds, RunsWell,
           ArchiveNotHalfSynced, [Next]_vars
    PROVE  ArchiveNotHalfSynced'
<1>. USE DEF ArchiveNotHalfSynced, At, Goto, Ends, store, process, asked
<1>0. data \in Data
  BY DEF StoreType
<1>1. CASE Begin \/ UNCHANGED vars
  BY <1>1 DEF Begin, StartCreate, StartRestore, vars
<1>2. CASE StartNode \/ Control \/ Kill
  BY <1>2 DEF StartNode, Control, Kill
<1>3. CASE wait_for_sync
  BY <1>3 DEF wait_for_sync, RunsWell, Bootable
<1>4. CASE StopForArchive
  BY <1>4 DEF StopForArchive, stop_process, Unanswered
<1>5. CASE BeginPrune \/ FinishPrune
  BY <1>0, <1>5 DEF BeginPrune, FinishPrune, Data
<1>6. CASE NoPrune \/ PruneFails \/ BeginArchive \/ FinishArchive \/ ArchiveFails
  BY <1>6 DEF NoPrune, PruneFails, BeginArchive, FinishArchive, ArchiveFails
<1>7. CASE \/ SyncRefused \/ SyncConfigured \/ SyncStop \/ BeginClean \/ FinishClean
           \/ CleanIncomplete \/ SyncStart
  BY <1>7 DEF SyncRefused, SyncConfigured, SyncStop, BeginClean, FinishClean, CleanIncomplete,
         SyncStart
<1>8. CASE RestoreStep
  BY <1>8 DEF RestoreStep, StopForRestore, RemoveData, WriteState, NoSnapshot, FindSnapshot,
         BeginDownload, FinishDownload, DownloadFails, ExtractUnsupported, BeginExtract,
         FinishExtract, ExtractFails, InitVersion
<1>9. CASE Sync
  <2>1. PICK h \in data.height..MaxHeight : h > 0 /\ data' = [data EXCEPT !.height = h]
    BY <1>9 DEF Sync
  <2>. QED  BY <1>0, <1>9, <2>1 DEF Sync, Data
<1>10. CASE Commit
  BY <1>0, <1>10 DEF Commit, Data
<1>11. CASE NodeRestart
  BY <1>11 DEF NodeRestart
<1>. QED
  BY <1>1, <1>2, <1>3, <1>4, <1>5, <1>6, <1>7, <1>8, <1>9, <1>10, <1>11, Steps
     DEF CreateStep, NodeStep

\* A job that is done leaves the node running.
LEMMA DoneStep ==
    ASSUME StoreType, ProcessType, JobType, DoneLeavesRunning, [Next]_vars
    PROVE  DoneLeavesRunning'
<1>. USE DEF DoneLeavesRunning, Bootable, At, Goto, Ends, store, process
<1>1. CASE Begin \/ UNCHANGED vars
  BY <1>1 DEF Begin, StartCreate, StartRestore, vars
<1>2. CASE StartNode
  BY <1>2 DEF StartNode, start_process, Unanswered, ProcessType
<1>3. CASE Control \/ Kill
  BY <1>3 DEF Control, Kill
<1>4. CASE CreateStep
  BY <1>4 DEF CreateStep, SyncRefused, SyncConfigured, SyncStop, BeginClean, FinishClean,
         CleanIncomplete, SyncStart, wait_for_sync, StopForArchive, NoPrune, BeginPrune,
         FinishPrune, PruneFails, BeginArchive, FinishArchive, ArchiveFails
<1>5. CASE RestoreStep
  BY <1>5 DEF RestoreStep, StopForRestore, RemoveData, WriteState, NoSnapshot, FindSnapshot,
         BeginDownload, FinishDownload, DownloadFails, ExtractUnsupported, BeginExtract,
         FinishExtract, ExtractFails, InitVersion
<1>6. CASE NodeStep
  BY <1>6 DEF NodeStep, Sync, Commit, NodeRestart
<1>. QED  BY <1>1, <1>2, <1>3, <1>4, <1>5, <1>6, Steps

\* Only the end of an extraction leads to the end of a restore.
LEMMA RestoredStep ==
    ASSUME StoreType, JobType, JobPlaces, RestoredSoFar, RestoredIsWhole, [Next]_vars
    PROVE  RestoredSoFar' /\ RestoredIsWhole'
<1>. USE DEF RestoredSoFar, RestoredIsWhole, Chosen, At, Goto, Ends, store, stored, asked
<1>0. data \in Data
  BY DEF StoreType
<1>1. CASE Begin \/ UNCHANGED vars
  BY <1>1 DEF Begin, StartCreate, StartRestore, vars
<1>2. CASE StartNode \/ Control \/ Kill
  BY <1>2 DEF StartNode, Control, Kill
<1>3. CASE CreateStep
  BY <1>3 DEF JobPlaces, CreateStep, SyncRefused, SyncConfigured, SyncStop, BeginClean,
         FinishClean, CleanIncomplete, SyncStart, wait_for_sync, StopForArchive, NoPrune,
         BeginPrune, FinishPrune, PruneFails, BeginArchive, FinishArchive, ArchiveFails
<1>4. CASE FinishExtract
  BY <1>4 DEF FinishExtract, Unpacked
<1>5. CASE InitVersion
  BY <1>5 DEF InitVersion
<1>6. CASE \/ StopForRestore \/ RemoveData \/ WriteState \/ NoSnapshot \/ FindSnapshot
           \/ BeginDownload \/ FinishDownload \/ DownloadFails \/ ExtractUnsupported
           \/ BeginExtract \/ ExtractFails
  BY <1>6 DEF StopForRestore, RemoveData, WriteState, NoSnapshot, FindSnapshot,
         BeginDownload, FinishDownload, DownloadFails, ExtractUnsupported, BeginExtract,
         ExtractFails
<1>7. CASE Sync \/ Commit
  <2>1. data'.whole = data.whole
    BY <1>0, <1>7 DEF Sync, Commit, Data
  <2>. QED  BY <1>7, <2>1 DEF Sync, Commit
<1>8. CASE NodeRestart
  BY <1>8 DEF NodeRestart
<1>. QED
  BY <1>1, <1>2, <1>3, <1>4, <1>5, <1>6, <1>7, <1>8, Steps DEF RestoreStep, NodeStep

-----------------------------------------------------------------------------

\* SnapshotInv is an invariant.
THEOREM SnapshotInvariant == Spec => []SnapshotInv
<1>1. SnapshotInv /\ [Next]_vars => SnapshotInv'
  BY StoreTypeStep, ProcessTypeStep, JobTypeStep, PlacesStep, StopStep, RunsStep, ArchiveStep,
     SyncedStep, DoneStep, RestoredStep DEF SnapshotInv, TypeOK
<1>. QED  BY <1>1, InitInv, PTL DEF Spec

\* Every variable of snapshot.py's jobs and of what they work on has its type,
\* and the file with the last mtime is there (snapshot.py:198-211).
THEOREM TypeCorrect == Spec => []TypeOK
<1>1. SnapshotInv => TypeOK
  BY DEF SnapshotInv
<1>. QED  BY <1>1, SnapshotInvariant, PTL

\* While supervisord answers, no sequence of jobs, kills and restarts of the
\* daemon archives the database of a running node (snapshot.py:306).
THEOREM ArchivesOfStoppedNodes == Spec => []ArchiveOfStoppedNode
<1>1. SnapshotInv => ArchiveOfStoppedNode
  BY DEF SnapshotInv
<1>. QED  BY <1>1, SnapshotInvariant, PTL

\* While supervisord answers, create --statesync archives a synced directory,
\* whole but for what a failed pruning has done to it (snapshot.py:303-307).
THEOREM ArchivesAreSynced == Spec => []ArchiveNotHalfSynced
<1>1. SnapshotInv => ArchiveNotHalfSynced
  BY DEF SnapshotInv
<1>. QED  BY <1>1, SnapshotInvariant, PTL

\* A job that returned 0 has the node running, if supervisord answers and the
\* node can run (snapshot.py:315).
THEOREM DoneMeansRunning == Spec => []DoneLeavesRunning
<1>1. SnapshotInv => DoneLeavesRunning
  BY DEF SnapshotInv
<1>. QED  BY <1>1, SnapshotInvariant, PTL

\* A restore that returned 0 has read its archive to the end, and restored a
\* complete one as it was (snapshot.py:210, 239-246).
THEOREM RestoresAreWhole == Spec => []RestoredIsWhole
<1>1. SnapshotInv => RestoredIsWhole
  BY DEF SnapshotInv
<1>. QED  BY <1>1, SnapshotInvariant, PTL

\* No step of a create takes the signing state away or back
\* (statesync.py:119).
THEOREM SignStateIsKept == Spec => CreateKeepsSignState
<1>. DEFINE Kept == pc # "idle" /\ action # "restore" /\ data.pv # Nil
                       => data'.pv # Nil /\ data'.pv >= data.pv
<1>1. SnapshotInv /\ [Next]_vars => [Kept]_vars
  <2>. SUFFICES ASSUME SnapshotInv, [Next]_vars, pc # "idle", action # "restore", data.pv # Nil
                PROVE  data'.pv # Nil /\ data'.pv >= data.pv
    OBVIOUS
  <2>0. data \in Data /\ data.pv \in Nat
    BY SnapshotAssumption DEF SnapshotInv, TypeOK, StoreType, Data, Signed
  <2>. USE DEF At, store
  <2>1. CASE Begin \/ StartNode \/ Kill \/ Control \/ UNCHANGED vars
    BY <2>0, <2>1 DEF Begin, StartCreate, StartRestore, StartNode, Kill, Control, vars
  <2>2. CASE CreateStep
    <3>1. \/ data' = data \/ data' = [data EXCEPT !.whole = FALSE]
          \/ data' = [data EXCEPT !.whole = TRUE]
          \/ data' = [data EXCEPT !.height = 0, !.whole = TRUE]
      BY <2>2 DEF CreateStep, SyncRefused, SyncConfigured, SyncStop, BeginClean,
             FinishClean, CleanIncomplete, SyncStart, wait_for_sync, StopForArchive, NoPrune,
             BeginPrune, FinishPrune, PruneFails, BeginArchive, FinishArchive, ArchiveFails
    <3>2. data'.pv = data.pv
      BY <2>0, <3>1 DEF Data
    <3>. QED  BY <2>0, <3>2
  <2>3. CASE RestoreStep
    BY <2>3 DEF SnapshotInv, JobPlaces, RestoreStep, StopForRestore, RemoveData, WriteState,
           NoSnapshot, FindSnapshot, BeginDownload, FinishDownload, DownloadFails,
           ExtractUnsupported, BeginExtract, FinishExtract, ExtractFails, InitVersion
  <2>4. CASE Sync \/ NodeRestart
    <3>1. data'.pv = data.pv
      BY <2>0, <2>4 DEF Sync, NodeRestart, Data
    <3>. QED  BY <2>0, <3>1
  <2>5. CASE Commit
    <3>1. data'.pv = IF data.height + 1 > data.pv THEN data.height + 1 ELSE data.pv
      BY <2>0, <2>5 DEF Commit, Data
    <3>2. data.height \in Nat
      BY <2>0 DEF Data
    <3>. QED  BY <2>0, <3>1, <3>2, SnapshotAssumption
  <2>. QED  BY <2>1, <2>2, <2>3, <2>4, <2>5, Steps DEF NodeStep
<1>. QED  BY <1>1, SnapshotInvariant, PTL DEF Spec, CreateKeepsSignState

-----------------------------------------------------------------------------
(* SnapshotJob implements Backup *)

\* What the job has made of the directory and of the archive it is writing.
WorkSoFar ==
    /\ pc = "archiving" => archives[latest].file = "torn"
    /\ pc = "downloading" => archives[Url].file = "torn"
    /\ ~missed /\ pc = "archiving" =>
          /\ archives[latest].height = data.height
          /\ archives[latest].pv = data.pv
          /\ archives[latest].intact = data.whole
    /\ ~missed /\ pc = "state" => data = [height |-> 0, whole |-> TRUE, pv |-> Nil]
    /\ ~missed /\ pc \in {"find", "downloading", "extract"} => data.whole

LEMMA WorkStep ==
    ASSUME StoreType, JobPlaces, StopHolds, WorkSoFar, [Next]_vars
    PROVE  WorkSoFar'
<1>. USE DEF WorkSoFar, At, Goto, Ends, store, stored
<1>0. data \in Data /\ (missed => missed')
  BY MissedStays DEF StoreType
<1>1. CASE Begin \/ StartNode \/ Kill \/ Control
  BY <1>1 DEF Begin, StartCreate, StartRestore, StartNode, Kill, Control
<1>2. CASE BeginArchive
  <2>1. PICK id \in Ids : archives' = [archives EXCEPT ![id] = Begun] /\ latest' = id
    BY <1>2 DEF BeginArchive
  <2>2. archives'[latest'] = Begun
    BY <2>1 DEF StoreType, Names
  <2>. QED  BY <1>2, <2>2 DEF BeginArchive, Begun
<1>3. CASE CreateStep /\ ~BeginArchive
  BY <1>3 DEF CreateStep, SyncRefused, SyncConfigured, SyncStop, BeginClean, FinishClean,
         CleanIncomplete, SyncStart, wait_for_sync, StopForArchive, NoPrune, BeginPrune,
         FinishPrune, PruneFails, FinishArchive, ArchiveFails
<1>4. CASE BeginDownload
  <2>1. Url \in Names
    BY DEF Names
  <2>. QED  BY <1>0, <1>4, <2>1 DEF BeginDownload, StoreType
<1>5. CASE WriteState
  <2>1. ~missed' => data'.whole
    BY <1>0, <1>5 DEF WriteState, Data
  <2>. QED  BY <1>5, <2>1 DEF WriteState
<1>6. CASE \/ StopForRestore \/ RemoveData \/ NoSnapshot \/ FindSnapshot \/ FinishDownload
           \/ DownloadFails \/ ExtractUnsupported \/ BeginExtract \/ FinishExtract \/ ExtractFails
           \/ InitVersion
  BY <1>0, <1>6 DEF StopForRestore, RemoveData, NoSnapshot, FindSnapshot, FinishDownload,
         DownloadFails, ExtractUnsupported, BeginExtract, FinishExtract, ExtractFails, InitVersion
<1>7. CASE NodeStep \/ UNCHANGED vars
  BY <1>0, <1>7 DEF NodeStep, Sync, Commit, NodeRestart, vars, StopHolds, Working
<1>. QED
  BY <1>1, <1>2, <1>3, <1>4, <1>5, <1>6, <1>7, Steps DEF RestoreStep

BackupInv == SnapshotInv /\ WorkSoFar

\* Nothing changes in Backup.
Quiet == UNCHANGED <<holderBar, dirBar, copiesBar>>

\* What is there under each name, whatever the file's type.
LEMMA CopiesStay == UNCHANGED archives => UNCHANGED copiesBar
BY DEF copiesBar

\* The directory in Backup is the one there is, but for its wholeness.
LEMMA DirIs ==
    ASSUME StoreType
    PROVE  /\ data = [height |-> data.height, whole |-> data.whole, pv |-> data.pv]
           /\ data.height \in 0..MaxHeight /\ data.pv \in Signed /\ data.whole \in BOOLEAN
           /\ dirBar = [height |-> data.height, pv |-> data.pv,
                        whole |-> IF pc \in {"pruning", "extracting"} THEN TRUE ELSE data.whole]
BY DEF StoreType, Data, dirBar

LEMMA InitBackup == Init => Abstract!Init
<1>. SUFFICES ASSUME Init PROVE Abstract!Init
  OBVIOUS
<1>1. holderBar = "node"
  BY DEF Init, holderBar, Working
<1>2. dirBar = [height |-> 1, whole |-> TRUE, pv |-> 1]
  BY DEF Init, dirBar
<1>3. copiesBar = [n \in Names |-> Nil]
  BY DEF Init, copiesBar
<1>4. dirBar \in Abstract!Dirs /\ Abstract!Fit
  BY <1>2, SnapshotAssumption DEF Abstract!Dirs, Abstract!Fit
<1>. QED  BY <1>1, <1>3, <1>4 DEF Abstract!Init

\* The job takes the directory.
LEMMA LeaseMaps ==
    ASSUME BackupInv, ~missed', SyncStop \/ StopForArchive \/ StopForRestore
    PROVE  \E job \in {"create", "restore"} : Abstract!Lease(job)
<1>. DEFINE taker == IF action = "restore" THEN "restore" ELSE "create"
<1>. USE DEF At, Goto, store, stored, asked
<1>1. UNCHANGED <<data, archives>> /\ pc \in {"sync_stop", "stop", "halt"}
      /\ pc' \in {"clean", "prune", "reset"} /\ UNCHANGED action
  BY DEF SyncStop, StopForArchive, StopForRestore
<1>2. holderBar \in {"node", "nobody"} /\ holderBar' = taker /\ taker \in {"create", "restore"}
  BY <1>1 DEF holderBar, Working
<1>3. UNCHANGED <<dirBar, copiesBar>>
  BY <1>1, CopiesStay DEF dirBar
<1>. HIDE DEF taker
<1>. QED  BY <1>2, <1>3 DEF Abstract!Lease

\* The job gives it back.
LEMMA ReturnMaps ==
    ASSUME BackupInv, [Next]_vars, ~missed', SyncStart \/ StartNode
    PROVE  \E job \in {"create", "restore"} : Abstract!Return(job)
<1>. USE DEF At, Goto, Ends, store, stored, asked
<1>1. UNCHANGED <<data, archives>> /\ pc \in {"sync_start", "start"} /\ pc' \in {"wait", "idle"}
  BY DEF SyncStart, StartNode
<1>2. ~missed /\ node = "stopped"
  BY <1>1, MissedStays DEF BackupInv, SnapshotInv, StopHolds, Working
<1>3. node' = IF Bootable THEN "running" ELSE "stopped"
  BY <1>2 DEF SyncStart, StartNode, start_process, Unanswered, process
<1>4. holderBar \in {"create", "restore"} /\ holderBar' = IF Bootable THEN "node" ELSE "nobody"
  BY <1>1, <1>3 DEF holderBar, Working
<1>5. UNCHANGED <<dirBar, copiesBar>> /\ dirBar = data
  BY <1>1, CopiesStay DEF dirBar
<1>6. Bootable = Abstract!Fit
  BY <1>5 DEF Bootable, Abstract!Fit
<1>. QED  BY <1>4, <1>5, <1>6 DEF Abstract!Return

\* The job ends or is killed in between.
LEMMA BreakMaps ==
    ASSUME BackupInv, [Next]_vars, ~missed',
           Kill \/ NoSnapshot \/ DownloadFails \/ ExtractFails
              \/ (InitVersion /\ pc' = "idle")
    PROVE  Quiet \/ \E job \in {"create", "restore"} : Abstract!BreakOff(job)
<1>. USE DEF At, Goto, Ends, store, stored, process
<1>1. UNCHANGED <<data, archives, node>> /\ pc' = "idle"
  BY DEF Kill, NoSnapshot, DownloadFails, ExtractFails, InitVersion
<1>2. UNCHANGED copiesBar /\ dirBar' = data
  BY <1>1, CopiesStay DEF dirBar
<1>3. CASE pc \in Working
  <2>1. node = "stopped"
    BY <1>3, MissedStays DEF BackupInv, SnapshotInv, StopHolds
  <2>2. holderBar \in {"create", "restore"} /\ holderBar' = "nobody"
    BY <1>1, <1>3, <2>1 DEF holderBar, Working
  <2>3. data \in Data
    BY DEF BackupInv, SnapshotInv, TypeOK, StoreType
  <2>4. data = [data EXCEPT !.whole = TRUE]
        \/ data = [[data EXCEPT !.whole = TRUE] EXCEPT !.whole = FALSE]
    BY <2>3 DEF Data
  <2>5. data \in {dirBar, [dirBar EXCEPT !.whole = FALSE]}
    BY <2>4 DEF dirBar
  <2>. QED  BY <1>2, <2>2, <2>5 DEF Abstract!BreakOff
<1>4. CASE pc \notin Working
  BY <1>1, <1>2, <1>4 DEF Quiet, holderBar, dirBar, Working
<1>. QED  BY <1>3, <1>4

\* A create's wipe and its archive.
LEMMA CreateMaps ==
    ASSUME BackupInv, [Next]_vars, ~missed',
           \/ BeginClean \/ FinishClean \/ CleanIncomplete \/ BeginPrune \/ FinishPrune
           \/ PruneFails \/ BeginArchive \/ FinishArchive
    PROVE  Quiet \/ Abstract!Wipe \/ \E n \in Names : Abstract!Drop(n) \/ Abstract!Take(n)
<1>. USE DEF At, Goto, store, stored, asked, process
<1>0. /\ data \in Data /\ archives \in [Names -> Archive \union {Nil}]
      /\ ~missed /\ Nil \notin Archive
  BY MissedStays, SnapshotAssumption DEF BackupInv, SnapshotInv, TypeOK, StoreType
<1>1. holderBar = "create" /\ holderBar' = "create"
  BY DEF BackupInv, SnapshotInv, JobPlaces, holderBar, Working, BeginClean, FinishClean,
         CleanIncomplete, BeginPrune, FinishPrune, PruneFails, BeginArchive, FinishArchive
<1>2. CASE BeginClean \/ FinishClean
  <2>1. UNCHANGED copiesBar
    BY <1>2, CopiesStay DEF BeginClean, FinishClean
  <2>2. dirBar = data /\ dirBar' = data'
    BY <1>2 DEF BeginClean, FinishClean, dirBar
  <2>. QED  BY <1>1, <1>2, <2>1, <2>2 DEF BeginClean, FinishClean, Abstract!Wipe
<1>3. CASE CleanIncomplete
  BY <1>1, <1>3, CopiesStay DEF CleanIncomplete, Quiet, dirBar
<1>4. CASE BeginPrune \/ FinishPrune
  <2>1. UNCHANGED copiesBar
    BY <1>4, CopiesStay DEF BeginPrune, FinishPrune
  <2>2. dirBar' = dirBar
    BY <1>0, <1>4 DEF BeginPrune, FinishPrune, dirBar, Data
  <2>. QED  BY <1>1, <2>1, <2>2 DEF Quiet
<1>7. CASE PruneFails
  <2>1. UNCHANGED copiesBar
    BY <1>7, CopiesStay DEF PruneFails
  <2>2. dirBar = [data EXCEPT !.whole = TRUE] /\ dirBar' = data
    BY <1>7 DEF PruneFails, dirBar
  <2>3. CASE data.whole
    BY <1>0, <1>1, <2>1, <2>2, <2>3 DEF Quiet, Data
  <2>4. CASE ~data.whole
    <3>1. dirBar' = [dirBar EXCEPT !.whole = FALSE]
      BY <1>0, <2>2, <2>4 DEF Data
    <3>. QED  BY <1>1, <2>1, <3>1 DEF Abstract!Wipe
  <2>. QED  BY <2>3, <2>4
<1>5. CASE BeginArchive
  <2>1. PICK id \in Ids : archives' = [archives EXCEPT ![id] = Begun]
    BY <1>5 DEF BeginArchive
  <2>2. id \in Names /\ Begun.file = "torn"
    BY DEF Names, Begun
  <2>3. copiesBar' = [copiesBar EXCEPT ![id] = Nil]
    BY <1>0, <2>1, <2>2 DEF copiesBar
  <2>4. dirBar' = dirBar
    BY <1>5 DEF BeginArchive, dirBar
  <2>. QED  BY <1>1, <2>2, <2>3, <2>4 DEF Abstract!Drop
<1>6. CASE FinishArchive
  <2>1. latest \in Names /\ archives[latest] \in Archive
    BY <1>6 DEF FinishArchive, BackupInv, SnapshotInv, TypeOK, StoreType, JobPlaces
  <2>2. copiesBar[latest] = Nil
    BY <1>6, <2>1 DEF FinishArchive, BackupInv, WorkSoFar, copiesBar
  <2>3. /\ Ended.height = data.height /\ Ended.pv = data.pv /\ Ended.intact = data.whole
        /\ Ended.file = "whole"
    BY <1>0, <1>6, <2>1 DEF FinishArchive, BackupInv, WorkSoFar, Ended, Archive
  <2>4. Ended # Nil
    BY <2>1, EndedType, SnapshotAssumption DEF BackupInv, SnapshotInv, TypeOK, Names
  <2>5. archives' = [archives EXCEPT ![latest] = Ended]
    BY <1>6 DEF FinishArchive
  <2>6. copiesBar' = [copiesBar EXCEPT ![latest] =
                        [height |-> data.height, whole |-> data.whole, pv |-> data.pv,
                         part |-> FALSE]]
    BY <1>0, <2>1, <2>3, <2>4, <2>5 DEF copiesBar
  <2>7. dirBar = data /\ dirBar' = data
    BY <1>6 DEF FinishArchive, dirBar
  <2>9. Abstract!Take(latest)
    BY <1>1, <2>2, <2>6, <2>7 DEF Abstract!Take, Abstract!Copy
  <2>. QED  BY <2>1, <2>9
<1>. QED  BY <1>2, <1>3, <1>4, <1>5, <1>6, <1>7

\* An archive that fails leaves nothing, or a part.
LEMMA ArchiveFailsMaps ==
    ASSUME BackupInv, [Next]_vars, ~missed', ArchiveFails
    PROVE  \/ Abstract!BreakOff("create")
           \/ \E n \in Names : Abstract!BreakOffCopy(n)
<1>. USE DEF At, Ends, process
<1>0. /\ data \in Data /\ archives \in [Names -> Archive \union {Nil}]
      /\ ~missed /\ Nil \notin Archive /\ latest \in Names /\ archives[latest] \in Archive
      /\ node = "stopped"
  BY MissedStays, SnapshotAssumption
     DEF BackupInv, SnapshotInv, TypeOK, StoreType, JobPlaces, StopHolds, Working, ArchiveFails
<1>1. holderBar = "create" /\ holderBar' = "nobody"
  BY <1>0 DEF ArchiveFails, BackupInv, SnapshotInv, JobPlaces, holderBar, Working
<1>2. dirBar = data /\ dirBar' = data
  BY DEF ArchiveFails, dirBar
<1>3. copiesBar[latest] = Nil
  BY <1>0 DEF ArchiveFails, BackupInv, WorkSoFar, copiesBar
<1>4. PICK f \in {"torn", "short"} : archives' = [archives EXCEPT ![latest].file = f]
  BY DEF ArchiveFails
<1>. DEFINE a == [archives[latest] EXCEPT !.file = f]
<1>5. /\ archives' = [archives EXCEPT ![latest] = a] /\ a \in Archive /\ a # Nil /\ a.file = f
      /\ a.height = data.height /\ a.intact = data.whole /\ a.pv = data.pv
  BY <1>0, <1>4 DEF ArchiveFails, BackupInv, WorkSoFar, Archive, Files
<1>. HIDE DEF a
<1>6. CASE f = "torn"
  <2>1. UNCHANGED copiesBar
    BY <1>0, <1>3, <1>5, <1>6 DEF copiesBar
  <2>. QED  BY <1>1, <1>2, <2>1 DEF Abstract!BreakOff
<1>7. CASE f = "short"
  <2>1. copiesBar' = [copiesBar EXCEPT ![latest] =
                        [height |-> data.height, whole |-> data.whole, pv |-> data.pv,
                         part |-> TRUE]]
    BY <1>0, <1>5, <1>7 DEF copiesBar
  <2>2. Abstract!BreakOffCopy(latest)
    BY <1>1, <1>2, <1>3, <2>1 DEF Abstract!BreakOffCopy, Abstract!Copy
  <2>. QED  BY <1>0, <2>2
<1>. QED  BY <1>6, <1>7

\* A restore's reset, its download and its extraction.
LEMMA RestoreMaps ==
    ASSUME BackupInv, [Next]_vars, ~missed',
           \/ RemoveData \/ WriteState \/ FindSnapshot \/ BeginDownload \/ FinishDownload
           \/ ExtractUnsupported \/ BeginExtract \/ FinishExtract
           \/ (InitVersion /\ pc' # "idle")
    PROVE  \/ Quiet \/ Abstract!Empty
           \/ \E n \in Names : Abstract!Fetch(n) \/ Abstract!Restore(n)
<1>. USE DEF At, Goto, Ends, store, stored, asked, process
<1>0. /\ data \in Data /\ archives \in [Names -> Archive \union {Nil}]
      /\ ~missed /\ Nil \notin Archive /\ Url \in Names
  BY MissedStays, SnapshotAssumption DEF BackupInv, SnapshotInv, TypeOK, StoreType, Names
<1>1. holderBar = "restore" /\ holderBar' = "restore"
  BY DEF BackupInv, SnapshotInv, JobPlaces, holderBar, Working, RemoveData, WriteState,
         FindSnapshot, BeginDownload, FinishDownload, ExtractUnsupported, BeginExtract,
         FinishExtract, InitVersion
<1>2. CASE RemoveData \/ WriteState
  <2>1. data' \in [height : {0}, whole : {TRUE}, pv : {0, Nil}]
    <3>1. CASE RemoveData
      BY <3>1 DEF RemoveData
    <3>2. CASE WriteState
      <4>1. data = [height |-> 0, whole |-> TRUE, pv |-> Nil] /\ data' = [data EXCEPT !.pv = 0]
        BY <1>0, <3>2 DEF BackupInv, WorkSoFar, WriteState
      <4>2. data' = [height |-> 0, whole |-> TRUE, pv |-> 0]
        BY <4>1
      <4>. QED  BY <4>2
    <3>. QED  BY <1>2, <3>1, <3>2
  <2>2. UNCHANGED copiesBar /\ dirBar' = data'
    BY <1>2, CopiesStay DEF RemoveData, WriteState, dirBar
  <2>. QED  BY <1>1, <2>1, <2>2 DEF Abstract!Empty
<1>3. CASE FindSnapshot \/ ExtractUnsupported \/ (InitVersion /\ pc' # "idle")
  <2>1. UNCHANGED copiesBar /\ UNCHANGED dirBar
    BY <1>3, CopiesStay DEF FindSnapshot, ExtractUnsupported, InitVersion, dirBar
  <2>. QED  BY <1>1, <2>1 DEF Quiet
<1>4. CASE BeginDownload
  <2>. DEFINE a == [ height |-> UrlHeight, pv |-> 0, intact |-> TRUE,
                     file |-> "torn", live |-> FALSE ]
  <2>1. archives' = [archives EXCEPT ![Url] = a] /\ a.file = "torn" /\ archives[Url] = Nil
    BY <1>4 DEF BeginDownload, Stored
  <2>. HIDE DEF a
  <2>2. UNCHANGED copiesBar
    BY <1>0, <2>1 DEF copiesBar
  <2>3. UNCHANGED dirBar
    BY <1>4 DEF BeginDownload, dirBar
  <2>. QED  BY <1>1, <2>2, <2>3 DEF Quiet
<1>5. CASE FinishDownload
  <2>. DEFINE b == [archives[Url] EXCEPT !.file = "whole"]
              c == [ height |-> b.height, whole |-> b.intact, pv |-> b.pv ]
  <2>0. latest = Url /\ archives[Url].file = "torn"
    BY <1>5 DEF FinishDownload, BackupInv, SnapshotInv, JobPlaces, WorkSoFar
  <2>1. archives[Url] \in Archive /\ copiesBar[Url] = Nil
    <3>1. Url # Nil
      BY <1>0, SnapshotAssumption
    <3>2. archives[Url] # Nil
      BY <2>0, <3>1 DEF BackupInv, SnapshotInv, TypeOK, StoreType
    <3>. QED  BY <1>0, <2>0, <3>2 DEF copiesBar
  <2>2. b \in Archive /\ b.file = "whole"
    BY <2>1 DEF Archive, Files
  <2>3. archives' = [archives EXCEPT ![Url] = b]
    BY <1>5 DEF FinishDownload
  <2>4. c \in Abstract!Dirs
    BY <2>2 DEF Archive, Signed, Abstract!Dirs
  <2>. HIDE DEF b
  <2>5. copiesBar' = [copiesBar EXCEPT ![Url] = Abstract!Copy(c, FALSE)]
    BY <1>0, <2>2, <2>3 DEF copiesBar, Abstract!Copy
  <2>6. UNCHANGED dirBar
    BY <1>5 DEF FinishDownload, dirBar
  <2>. HIDE DEF c
  <2>7. Abstract!Fetch(Url)
    BY <1>1, <2>1, <2>4, <2>5, <2>6 DEF Abstract!Fetch
  <2>. QED  BY <1>0, <2>7
<1>6. CASE BeginExtract
  <2>1. dirBar = data /\ data.whole /\ dirBar' = [data' EXCEPT !.whole = TRUE]
        /\ data' = [data EXCEPT !.whole = FALSE]
    BY <1>0, <1>6 DEF BeginExtract, dirBar, BackupInv, WorkSoFar
  <2>2. UNCHANGED dirBar
    BY <1>0, <2>1 DEF Data
  <2>. QED  BY <1>1, <1>6, <2>2, CopiesStay DEF BeginExtract, Quiet
<1>7. CASE FinishExtract
  <2>. DEFINE n == IF source = Nil THEN latest ELSE source
              a == archives[n]
              c == [ height |-> a.height, whole |-> a.intact, pv |-> a.pv,
                     part |-> a.file = "short" ]
  <2>1. n \in Names /\ a # Nil /\ a.file # "torn" /\ a \in Archive /\ Chosen = a
    BY <1>0, <1>7 DEF FinishExtract, BackupInv, SnapshotInv, JobPlaces, Picked, Chosen
  <2>2. copiesBar[n] = c
    BY <2>1 DEF copiesBar
  <2>3. UNCHANGED copiesBar /\ dirBar.pv = data.pv /\ dirBar' = data' /\ data' \in Unpacked
    BY <1>0, <1>7, CopiesStay DEF FinishExtract, dirBar, Data
  <2>4. c # Nil
    <3>1. c \in Copied
      BY <2>1 DEF Archive, Copied
    <3>. HIDE DEF c
    <3>. QED  BY <3>1, SnapshotAssumption
  <2>5. Abstract!Over(a.pv) = Over(a.pv)
    BY <2>3 DEF Abstract!Over, Over
  <2>6. a.file = "whole" \/ a.file = "short"
    BY <2>1 DEF Archive, Files
  <2>. HIDE DEF n, a
  <2>7. CASE a.file = "whole"
    <3>1. Unpacked = {[height |-> a.height, whole |-> a.intact, pv |-> Over(a.pv)]}
      BY <2>1, <2>7 DEF Unpacked
    <3>2. c.height = a.height /\ c.whole = a.intact /\ c.pv = a.pv /\ ~c.part
      BY <2>7
    <3>. HIDE DEF c
    <3>3. Abstract!Restored(c) = Unpacked
      BY <2>5, <3>1, <3>2 DEF Abstract!Restored
    <3>. QED  BY <1>1, <2>1, <2>2, <2>3, <2>4, <3>3 DEF Abstract!Restore
  <2>8. CASE a.file = "short"
    <3>1. Unpacked = { d \in [height : {0, a.height}, whole : BOOLEAN,
                              pv : {data.pv, Over(a.pv)}] : d.whole /\ d.height > 0 => a.intact }
      BY <2>1, <2>8 DEF Unpacked
    <3>2. c.height = a.height /\ c.whole = a.intact /\ c.pv = a.pv /\ c.part
      BY <2>8
    <3>. HIDE DEF c
    <3>3. Abstract!Restored(c) = Unpacked
      BY <2>3, <2>5, <3>1, <3>2 DEF Abstract!Restored
    <3>. QED  BY <1>1, <2>1, <2>2, <2>3, <2>4, <3>3 DEF Abstract!Restore
  <2>. QED  BY <2>6, <2>7, <2>8
<1>. QED  BY <1>2, <1>3, <1>4, <1>5, <1>6, <1>7

\* The node by itself, and a start or stop by hand.
LEMMA NodeMaps ==
    ASSUME BackupInv, [Next]_vars, ~missed', NodeStep \/ Control
    PROVE  Quiet \/ Abstract!Use \/ Abstract!Stop \/ Abstract!Start
<1>. USE DEF At, Goto, Ends, store, stored, asked, process
<1>0. /\ data \in Data /\ ~missed /\ MaxHeight \in Nat /\ node \in {"stopped", "running"}
      /\ Nil \notin Nat /\ (node = "running" => Bootable)
  BY MissedStays, SnapshotAssumption
     DEF BackupInv, SnapshotInv, RunsWell, TypeOK, StoreType, ProcessType
<1>1. UNCHANGED copiesBar
  BY CopiesStay DEF NodeStep, Sync, Commit, NodeRestart, Control
<1>2. CASE Sync \/ Commit
  <2>1. /\ pc \notin Working /\ UNCHANGED <<pc, node, action>> /\ node = "running"
    BY <1>0, <1>2 DEF Sync, Commit, BackupInv, SnapshotInv, StopHolds
  <2>2. holderBar = "node" /\ holderBar' = "node" /\ dirBar = data /\ dirBar' = data'
    BY <2>1 DEF holderBar, dirBar, Working
  <2>3. data' \in Data
    BY StoreTypeStep DEF BackupInv, SnapshotInv, TypeOK, StoreType
  <2>4. data.whole /\ data.height \in Nat /\ data.pv \in Nat /\ data.pv # Nil
    BY <1>0, <1>2 DEF Sync, Commit, Bootable, Data, Signed
  <2>5. ASSUME Sync
        PROVE  data'.whole /\ data'.height >= data.height /\ data'.pv >= data.pv
    <3>1. PICK h \in data.height..MaxHeight : data' = [data EXCEPT !.height = h]
      BY <2>5 DEF Sync
    <3>2. data'.whole = data.whole /\ data'.height = h /\ data'.pv = data.pv
      BY <1>0, <3>1 DEF Data
    <3>3. h >= data.height /\ data.pv >= data.pv
      BY <1>0, <2>4
    <3>. QED  BY <2>4, <3>2, <3>3
  <2>6. ASSUME Commit
        PROVE  data'.whole /\ data'.height >= data.height /\ data'.pv >= data.pv
    <3>1. data'.whole = data.whole /\ data'.height = data.height + 1
          /\ data'.pv = IF data.height + 1 > data.pv THEN data.height + 1 ELSE data.pv
      BY <1>0, <2>6 DEF Commit, Data
    <3>2. \A k, s \in Nat : k + 1 >= k /\ (IF k + 1 > s THEN k + 1 ELSE s) >= s
      OBVIOUS
    <3>3. data'.height >= data.height
      BY <2>4, <3>1, <3>2
    <3>4. data'.pv >= data.pv
      BY <2>4, <3>1, <3>2
    <3>. QED  BY <2>4, <3>1, <3>3, <3>4
  <2>7. data'.whole /\ data'.height >= data.height /\ data'.pv >= data.pv
    BY <1>2, <2>5, <2>6
  <2>8. data' \in Abstract!Dirs
    BY <2>3 DEF Data, Signed, Abstract!Dirs
  <2>. QED  BY <1>1, <2>2, <2>4, <2>7, <2>8 DEF Abstract!Use, Abstract!Fit
<1>3. CASE NodeRestart
  BY <1>1, <1>3 DEF NodeRestart, Quiet, holderBar, dirBar
<1>4. CASE Control
  <2>1. holderBar = IF node = "running" THEN "node" ELSE "nobody"
    BY <1>4 DEF Control, holderBar, Working
  <2>2. holderBar' = IF node' = "running" THEN "node" ELSE "nobody"
    BY <1>4 DEF Control, holderBar, Working
  <2>3. dirBar = data /\ dirBar' = data
    BY <1>4 DEF Control, dirBar
  <2>4. node' = "stopped" \/ (node' = "running" /\ Bootable) \/ node' = node
    BY <1>4 DEF Control, start_process, stop_process, restart_process
  <2>. QED
    BY <1>0, <1>1, <2>1, <2>2, <2>3, <2>4
       DEF Quiet, Bootable, Abstract!Fit, Abstract!Stop, Abstract!Start
<1>. QED  BY <1>2, <1>3, <1>4 DEF NodeStep

\* Every step maps.
LEMMA BackupStep ==
    ASSUME BackupInv, [Next]_vars
    PROVE  [missed' \/ Abstract!Next]_(Abstract!vars)
<1>. SUFFICES ASSUME ~missed'
              PROVE  Abstract!Next \/ Quiet
  BY DEF Quiet, Abstract!vars
<1>1. CASE Begin \/ UNCHANGED vars \/ SyncRefused \/ SyncConfigured \/ wait_for_sync \/ NoPrune
  <2>1. UNCHANGED <<data, archives, node>>
    BY <1>1 DEF Begin, StartCreate, StartRestore, vars, SyncRefused, SyncConfigured,
           wait_for_sync, NoPrune, process, store, stored
  <2>2. \/ {pc, pc'} \intersect Working = {}
        \/ {pc, pc'} = {"prune", "archive"} /\ action' = action
        \/ UNCHANGED <<pc, action>>
    BY <1>1 DEF Begin, StartCreate, StartRestore, vars, SyncRefused, SyncConfigured,
           wait_for_sync, NoPrune, At, Goto, Working, asked
  <2>3. UNCHANGED holderBar /\ UNCHANGED dirBar
    BY <2>1, <2>2 DEF holderBar, dirBar, Working
  <2>. QED  BY <2>1, <2>3, CopiesStay DEF Quiet
<1>2. CASE SyncStop \/ StopForArchive \/ StopForRestore
  BY <1>2, LeaseMaps DEF Abstract!Next
<1>3. CASE SyncStart \/ StartNode
  BY <1>3, ReturnMaps DEF Abstract!Next
<1>4. CASE \/ Kill \/ NoSnapshot \/ DownloadFails \/ ExtractFails
           \/ (InitVersion /\ pc' = "idle")
  BY <1>4, BreakMaps DEF Abstract!Next
<1>8. CASE ArchiveFails
  BY <1>8, ArchiveFailsMaps DEF Abstract!Next
<1>5. CASE \/ BeginClean \/ FinishClean \/ CleanIncomplete \/ BeginPrune \/ FinishPrune
           \/ PruneFails \/ BeginArchive \/ FinishArchive
  BY <1>5, CreateMaps DEF Abstract!Next
<1>6. CASE \/ RemoveData \/ WriteState \/ FindSnapshot \/ BeginDownload \/ FinishDownload
           \/ ExtractUnsupported \/ BeginExtract \/ FinishExtract
           \/ (InitVersion /\ pc' # "idle")
  BY <1>6, RestoreMaps DEF Abstract!Next
<1>7. CASE NodeStep \/ Control
  BY <1>7, NodeMaps DEF Abstract!Next
<1>. QED
  BY <1>1, <1>2, <1>3, <1>4, <1>5, <1>6, <1>7, <1>8, Steps DEF CreateStep, RestoreStep

\* Whoever looks at the directory, at who may change it and at the complete
\* archives sees the jobs of snapshot.py and the node take turns
\* (snapshot.py:293-318), up to the first call supervisord does not answer.
THEOREM BackupRefinement == Spec => ImplementsBackup
<1>1. Init => Abstract!Init /\ WorkSoFar
  BY InitBackup DEF Init, WorkSoFar
<1>2. SnapshotInv /\ WorkSoFar /\ [Next]_vars => WorkSoFar'
  BY WorkStep DEF SnapshotInv, TypeOK
<1>3. SnapshotInv /\ WorkSoFar /\ [Next]_vars => [missed' \/ Abstract!Next]_(Abstract!vars)
  BY BackupStep DEF BackupInv
<1>. QED
  BY <1>1, <1>2, <1>3, SnapshotInvariant, PTL DEF Spec, ImplementsBackup

=============================================================================
