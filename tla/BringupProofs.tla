---------------------------- MODULE BringupProofs ----------------------------
(***************************************************************************)
(* Theorems about Bringup, for any catalog, image, environments, chain and *)
(* number of faults.  What the install job does is taken from the lemmas   *)
(* of CvLayoutProofs, what is chosen from those of VersionsProofs.         *)
(***************************************************************************)
EXTENDS Bringup, InstallationProofs, VersionsProofs

-----------------------------------------------------------------------------
(* The choice *)

\* The catalog is one the lookups are proved for.
LEMMA CatalogType ==
    /\ Len(Catalog) \in Nat /\ DOMAIN Catalog = 1 .. Len(Catalog)
    /\ Catalog # <<>> /\ Numbered(Catalog) /\ 1 \in DOMAIN Catalog
    /\ \A i \in DOMAIN Catalog : Catalog[i].name \in Names
<1>. DEFINE S == {Catalog[i] : i \in DOMAIN Catalog}
<1>1. Len(Catalog) \in Nat /\ DOMAIN Catalog = 1 .. Len(Catalog) /\ Catalog # <<>>
  <2>1. Catalog \in Seq(S) /\ Catalog # <<>>
    BY BringupAssumption
  <2>. HIDE DEF S
  <2>. QED  BY <2>1
<1>2. Numbered(Catalog) /\ 1 \in DOMAIN Catalog
  BY <1>1, BringupAssumption DEF Numbered
<1>3. ASSUME NEW i \in DOMAIN Catalog PROVE Catalog[i].name \in Names
  <2>1. get_arch_version(Catalog[i]).name \in Names
    BY BringupAssumption, RequestType
  <2>. QED  BY <2>1 DEF get_arch_version
<1>. QED  BY <1>1, <1>2, <1>3

\* Whatever the volume holds, one of the Requests is chosen, or the lookup
\* raises; nothing only for the label or the height of a status.json.  What is
\* chosen for a recorded plan is that plan, if it can be read.
LEMMA Choice ==
    ASSUME env \in Envs, data \in Data
    PROVE  /\ ChosenVersion \in Requests \union {Raised, Nil}
           /\ env.binary_version = Nil /\ data.status = Nil => ChosenVersion # Nil
           /\ env.binary_url = Nil /\ env.binary_version = Nil /\ data.upgrade_info # Nil =>
                 ChosenVersion \in {UpgradeVersion(data.upgrade_info), Raised}
<1>1. \/ env.binary_url # Nil /\ ChosenVersion = binary_url_version(env)
      \/ /\ data.upgrade_info # Nil
         /\ ChosenVersion \in {UpgradeVersion(data.upgrade_info), Raised}
      \/ \E i \in DOMAIN Catalog : ChosenVersion = get_arch_version(Catalog[i])
      \/ env.binary_version # Nil /\ ChosenVersion = Nil
      \/ data.status # Nil /\ ChosenVersion = Nil
      \/ ChosenVersion = Raised
  <2>1. data.status = Nil \/ data.status \in Nat
    BY BringupAssumption DEF Data
  <2>. DEFINE v == main_version(Catalog, GenesisVersion, env, data, TRUE)
  <2>2. \/ env.binary_url # Nil /\ v = binary_url_version(env)
        \/ data.upgrade_info # Nil /\ v \in {UpgradeVersion(data.upgrade_info), Raised}
        \/ \E i \in DOMAIN Catalog : v = get_arch_version(Catalog[i])
        \/ env.binary_version # Nil /\ v = Nil
        \/ data.status # Nil /\ v = Nil
        \/ v = Raised
    <3>. DEFINE answered == TRUE
    <3>1. /\ v = main_version(Catalog, GenesisVersion, env, data, answered)
          /\ Numbered(Catalog) /\ Catalog # <<>> /\ DOMAIN Catalog = 1 .. Len(Catalog)
          /\ Len(Catalog) \in Nat
      BY CatalogType
    <3>. HIDE DEF v, answered
    <3>2. \/ env.binary_url # Nil /\ v = binary_url_version(env)
          \/ /\ ~Overridden(env) /\ data.upgrade_info # Nil
             /\ v = IF Readable(data.upgrade_info, answered)
                    THEN UpgradeVersion(data.upgrade_info) ELSE Raised
          \/ \E i \in DOMAIN Catalog : v = get_arch_version(Catalog[i])
          \/ /\ env.binary_url = Nil /\ env.binary_version # Nil
             /\ Unlabelled(Catalog, env.binary_version) /\ v = Nil
          \/ /\ ~Overridden(env) /\ data.upgrade_info = Nil /\ data.status # Nil
             /\ Eligible(Catalog, data.status) = {} /\ v = Nil
          \/ /\ ~Overridden(env) /\ data.upgrade_info = Nil /\ data.status = Nil
             /\ GenesisVersion # Nil /\ v = Raised
      BY <2>1, <3>1, Chosen
    <3>. QED  BY <3>2
  <2>. QED  BY <2>2 DEF ChosenVersion
<1>2. data.upgrade_info # Nil =>
         /\ data.upgrade_info \in Plans
         /\ UpgradeVersion(data.upgrade_info) \in Requests
  BY BringupAssumption DEF Data
<1>3. /\ Nil # Raised /\ Nil \notin Requests
      /\ env.binary_url # Nil => binary_url_version(env) \in Requests
      /\ \A i \in DOMAIN Catalog : get_arch_version(Catalog[i]) \in Requests
  BY BringupAssumption, LayoutAssumption, SentinelAssumption
<1>4. ChosenVersion \in Requests \union {Raised, Nil}
  BY <1>1, <1>2, <1>3
<1>5. env.binary_version = Nil /\ data.status = Nil => ChosenVersion # Nil
  BY <1>1, <1>2, <1>3
<1>6. env.binary_url = Nil /\ env.binary_version = Nil /\ data.upgrade_info # Nil =>
         ChosenVersion \in {UpgradeVersion(data.upgrade_info), Raised}
  BY DEF ChosenVersion, main_version, get_upgrade_info_version
<1>. QED  BY <1>4, <1>5, <1>6

\* A block is due to an entry of the catalog.
LEMMA DueType ==
    ASSUME NEW h \in Nat
    PROVE  Due(h).name \in Names
<1>. DEFINE past == {i \in DOMAIN Catalog : Catalog[i].height \in 1..h}
            heights == {Catalog[i].height : i \in past}
            last(i) == \A j \in past : Catalog[j].height <= Catalog[i].height
<1>1. CASE past = {}
  BY <1>1, CatalogType DEF Due
<1>2. CASE past # {}
  <2>1. heights \subseteq Nat /\ heights # {} /\ \A k \in heights : k <= h
    BY <1>2
  <2>2. \E m \in heights : \A k \in heights : k <= m
    <3>. HIDE DEF heights
    <3>. QED  BY <2>1, Greatest
  <2>3. \E i \in past : last(i)
    BY <2>2
  <2>. DEFINE d == CHOOSE i \in past : last(i)
  <2>4. d \in past
    <3>. HIDE DEF past, last
    <3>. QED  BY <2>3
  <2>5. Due(h) = Catalog[d]
    BY <1>2 DEF Due
  <2>. HIDE DEF d
  <2>. QED  BY <2>4, <2>5, CatalogType
<1>. QED  BY <1>1, <1>2

-----------------------------------------------------------------------------
(* The types *)

\* Writing one field of data/, or the two that go together, leaves it one.
LEMMA DataType ==
    ASSUME NEW d \in Data
    PROVE  /\ \A b \in BOOLEAN : [d EXCEPT !.dir = b] \in Data
           /\ \A b \in BOOLEAN : [d EXCEPT !.whole = b] \in Data
           /\ \A pv \in 0..MaxHeight \union {Nil} : [d EXCEPT !.pv = pv] \in Data
           /\ \A h \in 0..MaxHeight, pv \in 0..MaxHeight \union {Nil} :
                 [d EXCEPT !.height = h, !.pv = pv] \in Data
           /\ \A plan \in Plans : [d EXCEPT !.upgrade_info = plan] \in Data
<1>. DEFINE Status == 0..MaxHeight \union {Nil}
            Infos  == Plans \union {Nil}
            States == 0..MaxHeight \union {Nil}
            Blocks == 0..MaxHeight
<1>1. Data = [dir : BOOLEAN, height : Blocks, upgrade_info : Infos,
              status : Status, pv : States, whole : BOOLEAN]
  BY DEF Data
<1>. HIDE DEF Status, Infos, States, Blocks
<1>2. \A b \in BOOLEAN : [d EXCEPT !.dir = b] \in Data
  BY <1>1
<1>3. \A b \in BOOLEAN : [d EXCEPT !.whole = b] \in Data
  BY <1>1
<1>4. \A pv \in States : [d EXCEPT !.pv = pv] \in Data
  BY <1>1
<1>5. \A h \in Blocks, pv \in States : [d EXCEPT !.height = h, !.pv = pv] \in Data
  BY <1>1
<1>6. \A plan \in Infos : [d EXCEPT !.upgrade_info = plan] \in Data
  BY <1>1
<1>. QED  BY <1>2, <1>3, <1>4, <1>5, <1>6 DEF Infos, States, Blocks

LEMMA EmptyType == NoData \in Data /\ EmptyData \in Data
<1>1. 0 \in 0..MaxHeight
  BY BringupAssumption
<1>2. NoData \in Data
  BY <1>1 DEF Data, NoData
<1>3. EmptyData \in Data
  BY <1>2, DataType DEF EmptyData
<1>. QED  BY <1>2, <1>3

\* A container keeps its environment.
LEMMA SameEnv == [BringupNext]_allvars => env' = env
BY DEF BringupNext, Prepare, Node, allvars, local, Restart, Replace, Kill, RsyncPhase,
       RsyncPartial, ChooseVersion, RechooseVersion, Choose, InstallStep, VersionInstalled,
       VersionReinstalled, Installed, EnsureDataDir, CosmovisorInit, CosmovisorInitFails,
       RemoveGenerated, CopyState, RemoveData, MakeData, MoveState, UnsafeReset,
       BeginExtract, Extract, ExtractFails, CheckGenesis, CurlGenesis, CurlFails, Boot,
       Commit, HaltForUpgrade, CosmovisorUpgrade

\* The steps that write data/ leave it of its type.
LEMMA DataStep == BringupTypeOK /\ [BringupNext]_allvars => data' \in Data
<1>. SUFFICES ASSUME BringupTypeOK, [BringupNext]_allvars, data' # data
              PROVE  data' \in Data
  BY DEF BringupTypeOK, LocalType
<1>. USE DEF local
<1>1. data \in Data /\ backup \in 0..MaxHeight \union {Nil} /\ MaxHeight \in Nat
  BY BringupAssumption DEF BringupTypeOK, LocalType
<1>2. data.pv \in 0..MaxHeight \union {Nil} /\ data.height \in 0..MaxHeight
  BY <1>1 DEF Data
<1>3. CASE EnsureDataDir \/ MakeData
  BY <1>3, <1>1, DataType DEF EnsureDataDir, MakeData
<1>4. CASE CosmovisorInit \/ MoveState
  <2>1. 0 \in 0..MaxHeight
    BY <1>1
  <2>2. \E pv \in 0..MaxHeight \union {Nil} : data' = [data EXCEPT !.pv = pv]
    BY <1>4, <1>1, <1>2, <2>1 DEF CosmovisorInit, MoveState
  <2>. QED  BY <2>2, <1>1, DataType
<1>5. CASE RemoveData
  BY <1>5, EmptyType DEF RemoveData
<1>6. CASE UnsafeReset
  <2>1. 0 \in 0..MaxHeight
    BY <1>1
  <2>. QED  BY <1>6, <2>1, <1>1, EmptyType, DataType DEF UnsafeReset
<1>7. CASE BeginExtract \/ Extract
  <2>1. (Archive # Nil => Archive \in Data) /\ FALSE \in BOOLEAN
    BY BringupAssumption
  <2>2. CASE Extract
    BY <2>2, <2>1 DEF Extract, BringupTypeOK
  <2>3. CASE BeginExtract
    BY <2>3, <2>1, <1>1, DataType DEF BeginExtract
  <2>. QED  BY <1>7, <2>2, <2>3
<1>8. CASE Commit
  <2>. DEFINE h == data.height + 1
              pv == IF h > data.pv THEN h ELSE data.pv
  <2>1. h \in 0..MaxHeight
    BY <1>8, <1>1, <1>2 DEF Commit
  <2>2. pv \in 0..MaxHeight \union {Nil}
    BY <2>1, <1>2
  <2>3. data' = [data EXCEPT !.height = h, !.pv = pv]
    BY <1>8 DEF Commit
  <2>. HIDE DEF h, pv
  <2>. QED  BY <2>1, <2>2, <2>3, <1>1, DataType
<1>9. CASE HaltForUpgrade
  <2>1. \E plan \in Plans : data' = [data EXCEPT !.upgrade_info = plan]
    BY <1>9 DEF HaltForUpgrade
  <2>. QED  BY <2>1, <1>1, DataType
<1>. QED
  BY <1>3, <1>4, <1>5, <1>6, <1>7, <1>8, <1>9
     DEF BringupNext, Prepare, Node, allvars, vars, Restart, Replace, Kill, RsyncPhase,
         RsyncPartial, ChooseVersion, RechooseVersion, Choose, InstallStep, VersionInstalled,
         VersionReinstalled, Installed, CosmovisorInitFails, RemoveGenerated, CopyState,
         ExtractFails, CheckGenesis, CurlGenesis, CurlFails, Boot, CosmovisorUpgrade

\* The binary that runs is that of an upgrade.
LEMMA LinkedType == TypeOK => Linked \in Names \union {Nil}
BY ImageAssumption DEF TypeOK, Linked

LEMMA LocalStep == BringupTypeOK /\ [BringupNext]_allvars => LocalType'
<1>. SUFFICES ASSUME BringupTypeOK, [BringupNext]_allvars PROVE LocalType'
  OBVIOUS
<1>. USE DEF local, choices
<1>1. CASE UNCHANGED allvars
  BY <1>1 DEF allvars, BringupTypeOK, LocalType
<1>. SUFFICES ASSUME BringupNext PROVE LocalType'
  BY <1>1
<1>. USE DEF BringupNext, Prepare, Node, Restart, Replace, Kill, RsyncPhase, RsyncPartial,
             ChooseVersion, RechooseVersion, Choose, InstallStep, VersionInstalled,
             VersionReinstalled, Installed, EnsureDataDir, CosmovisorInit,
             CosmovisorInitFails, RemoveGenerated, CopyState, RemoveData, MakeData,
             MoveState, UnsafeReset, BeginExtract, Extract, ExtractFails, CheckGenesis,
             CurlGenesis, CurlFails, Boot, Commit, HaltForUpgrade, CosmovisorUpgrade
<1>2. /\ env \in Envs /\ phase \in Phases /\ data \in Data
      /\ genesis_file \in {"absent", "generated", "torn", "chain"}
      /\ backup \in 0..MaxHeight \union {Nil} /\ daemon \in Names \union {Nil}
      /\ faults \in 0..MaxFaults /\ signed \in 0..MaxHeight
      /\ MaxHeight \in Nat /\ MaxFaults \in Nat
  BY BringupAssumption DEF BringupTypeOK, LocalType
<1>3. data.pv \in 0..MaxHeight \union {Nil} /\ data.height \in 0..MaxHeight
  BY <1>2 DEF Data
<1>4. env' \in Envs
  BY <1>2
<1>5. phase' \in Phases
  BY <1>2 DEF Goto, Phases
<1>6. genesis_file' \in {"absent", "generated", "torn", "chain"}
  BY <1>2
<1>7. backup' \in 0..MaxHeight \union {Nil}
  BY <1>2, <1>3
<1>8. daemon' \in Names \union {Nil}
  <2>1. Linked \in Names \union {Nil}
    BY LinkedType DEF BringupTypeOK
  <2>. QED
    BY <1>2, <2>1
<1>9. faults' \in 0..MaxFaults
  <2>1. faults' = faults \/ Fault
    OBVIOUS
  <2>. QED  BY <1>2, <2>1 DEF Fault
<1>10. signed' \in 0..MaxHeight
  <2>1. CASE Commit
    BY <2>1, <1>2, <1>3 DEF Commit
  <2>. QED
    BY <1>2, <2>1
<1>11. choice' \in Choices /\ rechoice' \in Choices
  <2>1. choice \in Choices /\ rechoice \in Choices
    BY DEF BringupTypeOK, LocalType
  <2>2. choice' \in {choice, "none", "version", "nothing", "raised"}
        /\ rechoice' \in {rechoice, "none", "version", "nothing", "raised"}
    BY DEF Chose
  <2>. QED  BY <2>1, <2>2 DEF Choices
<1>. QED
  BY <1>4, <1>5, <1>6, <1>7, <1>8, <1>9, <1>10, <1>11, DataStep DEF LocalType

-----------------------------------------------------------------------------
(* The install job inside the container *)

\* What a step of the container is to the tree: a step of CvLayout, of the job
\* only while prepare waits for it, or cosmovisor's own upgrade.
LEMMA TreeSteps ==
    ASSUME BringupTypeOK, [BringupNext]_allvars
    PROVE  \/ UNCHANGED vars
           \/ pc = "idle" /\ (Rsync \/ NewContainer)
           \/ phase \in {"choose", "rechoose"} /\ Start
           \/ phase \in {"install", "reinstall"} /\ pc # "idle" /\ (Step \/ Crash)
           \/ CosmovisorUpgrade
<1>. USE DEF local
<1>1. CASE ChooseVersion \/ RechooseVersion
  <2>1. ChosenVersion \in Requests \union {Raised, Nil}
    BY Choice DEF BringupTypeOK, LocalType
  <2>. QED
    BY <1>1, <2>1, BringupAssumption DEF ChooseVersion, RechooseVersion, Choose, Start
<1>2. CASE RsyncPhase
  BY <1>2 DEF RsyncPhase, Rsync, rsync_cosmovisor
<1>3. CASE RsyncPartial
  BY <1>3 DEF RsyncPartial, Rsync, rsync_cosmovisor
<1>4. CASE InstallStep
  BY <1>4 DEF InstallStep, Step
<1>5. CASE Replace
  BY <1>5 DEF Replace, NewContainer
<1>6. CASE Kill
  BY <1>6 DEF Kill, BringupTypeOK
<1>. QED
  BY <1>1, <1>2, <1>3, <1>4, <1>5, <1>6
     DEF BringupNext, Prepare, Node, allvars, Restart, VersionInstalled, VersionReinstalled,
         Installed, EnsureDataDir, CosmovisorInit, CosmovisorInitFails, RemoveGenerated,
         CopyState, RemoveData, MakeData, MoveState, UnsafeReset, BeginExtract, Extract,
         ExtractFails, CheckGenesis, CurlGenesis, CurlFails, Boot, Commit, HaltForUpgrade

\* cosmovisor's own upgrade leaves the upgrade it links whole, takes no file
\* away and touches nothing else.
LEMMA UpgradeStep ==
    ASSUME BringupTypeOK, CosmovisorUpgrade
    PROVE  /\ TypeOK'
           /\ pc = "idle" /\ current' \in Names /\ file'[current'][Bin] # Nil
           /\ \A n \in Names, f \in FileNames : file[n][f] # Nil => file'[n][f] # Nil
           /\ UNCHANGED <<genesis, opt, control, local>>
<1>. DEFINE n == data.upgrade_info.name
            c == [url |-> data.upgrade_info.url, whole |-> TRUE]
            i == [height |-> data.height + 1, whole |-> TRUE]
            o == IF file[n][Bin] = Nil THEN c ELSE file[n][Bin]
<1>1. TypeOK /\ pc = "idle" /\ data \in Data
  BY DEF BringupTypeOK, LocalType, CosmovisorUpgrade
<1>2. data.upgrade_info \in Plans /\ data.height \in 0..MaxHeight
  BY <1>1 DEF CosmovisorUpgrade, Data
<1>4. /\ n \in Names /\ data.upgrade_info.url \in Urls \union {Nil}
      /\ file[n][Bin] = Nil => data.upgrade_info.url \in Urls
  BY <1>2, BringupAssumption DEF CosmovisorUpgrade
<1>5. data.height + 1 \in Heights
  BY <1>2, BringupAssumption
<1>6. /\ file[n][Bin] = Nil => c \in Content /\ c # Nil
      /\ i \in UpgradeInfo /\ i # Nil
  BY <1>4, <1>5, WritesType
<1>7. file' = [file EXCEPT ![n][Bin] = o] /\ info' = [info EXCEPT ![n] = i]
      /\ current' = n /\ UNCHANGED <<genesis, opt, control, local>>
  BY DEF CosmovisorUpgrade
<1>8. o \in Content /\ o # Nil
  <2>1. file[n][Bin] \in Content \union {Nil}
    BY <1>1, <1>4 DEF TypeOK, FileNames
  <2>. QED  BY <2>1, <1>6
<1>. HIDE DEF n, c, i, o
<1>9. file' \in [Names -> [FileNames -> Content \union {Nil}]]
      /\ info' \in [Names -> UpgradeInfo \union {Nil}] /\ current' \in Names \union {Nil}
  BY <1>1, <1>4, <1>6, <1>7, <1>8 DEF TypeOK, FileNames
<1>10. TypeOK'
  BY <1>1, <1>4, <1>6, <1>7, <1>9 DEF TypeOK, control, request
<1>11. \A m \in Names, f \in FileNames : file[m][f] # Nil => file'[m][f] # Nil
  BY <1>1, <1>7, <1>8 DEF TypeOK, FileNames
<1>12. file'[n][Bin] # Nil
  BY <1>1, <1>4, <1>7, <1>8 DEF TypeOK, FileNames
<1>. QED  BY <1>1, <1>4, <1>7, <1>10, <1>11, <1>12

LEMMA TreeTypeStep == BringupTypeOK /\ [BringupNext]_allvars => TypeOK'
<1>. SUFFICES ASSUME BringupTypeOK, [BringupNext]_allvars PROVE TypeOK'
  OBVIOUS
<1>1. [Next]_vars \/ CosmovisorUpgrade
  BY TreeSteps DEF Next
<1>. QED  BY <1>1, TypeStep, UpgradeStep DEF BringupTypeOK

LEMMA BringupTypeStep == BringupTypeOK /\ [BringupNext]_allvars => BringupTypeOK'
<1>. SUFFICES ASSUME BringupTypeOK, [BringupNext]_allvars PROVE BringupTypeOK'
  OBVIOUS
<1>1. TypeOK' /\ LocalType'
  BY TreeTypeStep, LocalStep
<1>2. CASE UNCHANGED allvars
  BY <1>1, <1>2 DEF allvars, vars, local, BringupTypeOK
<1>. SUFFICES ASSUME BringupNext PROVE BringupTypeOK'
  BY <1>2
<1>3. CASE Kill
  <2>1. pc' = "idle" /\ phase' = "down" /\ daemon' = Nil
    BY <1>3 DEF Kill, Crash, Ends, Goto, vars
  <2>. QED  BY <1>1, <2>1 DEF BringupTypeOK
<1>4. CASE ChooseVersion \/ RechooseVersion
  <2>1. daemon' = Nil /\ phase' # "extract"
    BY <1>4 DEF ChooseVersion, RechooseVersion, Choose, BringupTypeOK
  <2>2. pc' # "idle" => phase' \in {"install", "reinstall"}
    BY <1>4 DEF ChooseVersion, RechooseVersion, Choose, BringupTypeOK, vars
  <2>. QED  BY <1>1, <2>1, <2>2 DEF BringupTypeOK
<1>5. CASE InstallStep
  BY <1>1, <1>5 DEF InstallStep, BringupTypeOK
<1>6. CASE Node
  <2>1. phase = "up" /\ phase' = phase /\ pc' = pc
    BY <1>6
       DEF Node, Boot, Commit, HaltForUpgrade, CosmovisorUpgrade, BringupTypeOK, vars, local,
           control
  <2>. QED  BY <1>1, <2>1 DEF BringupTypeOK
<1>7. CASE ~(Kill \/ ChooseVersion \/ RechooseVersion \/ InstallStep \/ Node)
  <2>1. /\ pc' = pc /\ pc = "idle" /\ daemon' = daemon /\ daemon = Nil
        /\ phase' = "extract" => Archive # Nil
    BY <1>7
       DEF BringupNext, Prepare, Restart, Replace, RsyncPhase, RsyncPartial, VersionInstalled,
           VersionReinstalled, Installed, EnsureDataDir, CosmovisorInit, CosmovisorInitFails,
           RemoveGenerated, CopyState, RemoveData, MakeData, MoveState, UnsafeReset,
           BeginExtract, Extract, ExtractFails, CheckGenesis, CurlGenesis, CurlFails,
           Goto, BringupTypeOK, vars, control, Rsync, rsync_cosmovisor, NewContainer
  <2>. QED  BY <1>1, <2>1 DEF BringupTypeOK
<1>. QED  BY <1>3, <1>4, <1>5, <1>6, <1>7

LEMMA BringupTypeInit == BringupInit => BringupTypeOK
<1>. SUFFICES ASSUME BringupInit PROVE BringupTypeOK
  OBVIOUS
<1>1. TypeOK
  BY InitTypeOK DEF BringupInit
<1>2. LocalType
  BY EmptyType, BringupAssumption DEF BringupInit, LocalType, Phases, Choices
<1>. QED  BY <1>1, <1>2 DEF BringupInit, Init, BringupTypeOK

\* Every variable has its type, and the install job runs only while prepare
\* waits for it, the node only under supervisord.
THEOREM BringupTypeCorrect == BringupSpec => []BringupTypeOK
<1>1. BringupInit => BringupTypeOK
  BY BringupTypeInit
<1>2. BringupTypeOK /\ [BringupNext]_allvars => BringupTypeOK'
  BY BringupTypeStep
<1>. QED  BY <1>1, <1>2, PTL DEF BringupSpec

-----------------------------------------------------------------------------
(* The link the node is started with *)

\* The phases of prepare after a version was installed or none was found.
Fitted == Phases \ {"down", "rsync", "choose", "install", "reinstall"}

\* While a job is on, the tree is as LayoutInv says; cosmovisor's own upgrade
\* breaks its statements about the last job only when no job is waited for.
JobInv ==
    phase \in {"install", "reinstall"} =>
       /\ InstallDone /\ FailureKeepsCurrent /\ link
       /\ pc = "idle" => result \in {"ok", "raised"}
       /\ phase = "reinstall" => was # Nil \/ choice = "nothing"

TreeInv ==
    /\ BringupTypeOK /\ JobProgress /\ LinksResolve /\ JobInv
    /\ phase \in Fitted => current # Nil \/ choice = "nothing"

LEMMA TreeInit == BringupInit => TreeInv
<1>. SUFFICES ASSUME BringupInit PROVE TreeInv
  OBVIOUS
<1>1. BringupTypeOK /\ LayoutInv
  BY BringupTypeInit, InitLayoutInv DEF BringupInit
<1>. QED  BY <1>1 DEF BringupInit, LayoutInv, TreeInv, JobInv, Fitted

\* Between jobs, the tree changes by what is copied from the image and by
\* cosmovisor's own upgrade; neither takes a link's binary away.
LEMMA BetweenJobs ==
    ASSUME TypeOK, JobProgress, LinksResolve, TypeOK',
           pc = "idle", UNCHANGED control,
           genesis' # genesis => genesis' = InImage /\ ImageGenesis # Nil,
           \A n \in Names : file[n][Bin] # Nil => file'[n][Bin] # Nil,
           current' # current => current' # Nil /\ file'[current'][Bin] # Nil
    PROVE  JobProgress' /\ LinksResolve'
<1>1. JobProgress'
  BY DEF JobProgress, control
<1>2. (current' # Nil => file'[current'][Bin] # Nil)
  BY DEF TypeOK, LinksResolve
<1>3. (genesis' \in Names => file'[genesis'][Bin] # Nil) /\ (genesis' = InImage => ImageGenesis # Nil)
  BY LayoutAssumption DEF LinksResolve
<1>. QED  BY <1>1, <1>2, <1>3 DEF LinksResolve

\* Nothing but the job touches what is asked of it.
LEMMA TreeStep == TreeInv /\ [BringupNext]_allvars => TreeInv'
<1>. SUFFICES ASSUME TreeInv, [BringupNext]_allvars PROVE TreeInv'
  OBVIOUS
<1>0. BringupTypeOK /\ BringupTypeOK' /\ TypeOK /\ TypeOK'
  BY BringupTypeStep DEF TreeInv, BringupTypeOK
<1>1. CASE InstallStep
  <2>1. LayoutInv /\ [Next]_vars
    BY <1>0, <1>1 DEF InstallStep, TreeInv, JobInv, LayoutInv, Next, Step
  <2>2. LayoutInv'
    BY <2>1, LayoutStep
  <2>3. phase' = phase /\ phase \in {"install", "reinstall"} /\ choice' = choice
        /\ link' = link /\ was' = was /\ (pc' = "idle" => result' \in {"ok", "raised"})
    BY <1>1
       DEF InstallStep, Work, Failure, SkipExisting, FetchFails, BeginWrite, FinishWrite,
           WriteFails, RaiseNotFound, create_upgrade_info, DumpInfo, DumpFails,
           link_cv_current, SymlinkCurrent, link_cv_genesis, SymlinkGenesis, Ends, request,
           choices
  <2>4. JobInv' /\ phase' \notin Fitted
    BY <2>2, <2>3 DEF LayoutInv, TreeInv, JobInv, Fitted
  <2>. QED  BY <1>0, <2>2, <2>4 DEF LayoutInv, TreeInv
<1>2. CASE Kill
  <2>1. phase' = "down"
    BY <1>2 DEF Kill, Goto
  <2>2. CASE pc = "idle"
    BY <1>0, <1>2, <2>1, <2>2
       DEF Kill, vars, TreeInv, JobInv, Fitted, JobProgress, LinksResolve
  <2>3. CASE pc # "idle"
    <3>1. LayoutInv /\ [Next]_vars
      BY <1>0, <1>2, <2>3 DEF Kill, BringupTypeOK, TreeInv, JobInv, LayoutInv, Next
    <3>2. LayoutInv'
      BY <3>1, LayoutStep
    <3>. QED  BY <1>0, <2>1, <3>2 DEF LayoutInv, TreeInv, JobInv, Fitted
  <2>. QED  BY <2>2, <2>3
<1>3. CASE ChooseVersion \/ RechooseVersion
  <2>2. CASE UNCHANGED vars
    <3>1. /\ phase' \in {"down", "genesis", "mkdir"}
          /\ phase' = "genesis" => phase = "rechoose" /\ choice' = choice
          /\ phase' = "mkdir" => choice' = "nothing"
      BY <1>3, <2>2
         DEF ChooseVersion, RechooseVersion, Choose, Chose, create_cv_upgrade, vars
    <3>. QED
      BY <1>0, <2>2, <3>1
         DEF vars, TreeInv, JobInv, Fitted, Phases, JobProgress, LinksResolve
  <2>3. CASE ~UNCHANGED vars
    <3>1. /\ create_cv_upgrade(ChosenVersion, TRUE)
          /\ phase' \in {"install", "reinstall"}
          /\ phase' = "reinstall" => phase = "rechoose" /\ choice' = choice
      BY <1>3, <2>3 DEF ChooseVersion, RechooseVersion, Choose, Chose
    <3>2. /\ pc' = "fetch" /\ link' = TRUE /\ next' = 1 /\ result' = "none" /\ was' = current
          /\ UNCHANGED <<file, info, current, genesis, opt>>
      BY <3>1 DEF create_cv_upgrade, layout
    <3>3. JobProgress'
      BY <3>2 DEF JobProgress
    <3>4. LinksResolve'
      BY <3>2 DEF LinksResolve, TreeInv
    <3>5. InstallDone' /\ FailureKeepsCurrent'
      BY <3>2 DEF InstallDone, FailureKeepsCurrent
    <3>6. JobInv' /\ phase' \notin Fitted
      BY <3>1, <3>2, <3>5 DEF TreeInv, JobInv, Fitted, Phases
    <3>. QED  BY <1>0, <3>3, <3>4, <3>6 DEF TreeInv
  <2>. QED  BY <2>2, <2>3
<1>4. CASE CosmovisorUpgrade
  <2>1. /\ pc = "idle" /\ current' \in Names /\ file'[current'][Bin] # Nil
        /\ \A n \in Names : file[n][Bin] # Nil => file'[n][Bin] # Nil
        /\ UNCHANGED <<genesis, opt, control, local>>
    BY <1>0, <1>4, UpgradeStep DEF FileNames
  <2>2. phase' = "up" /\ current' # Nil
    BY <1>4, <2>1, LayoutAssumption DEF CosmovisorUpgrade, local
  <2>3. JobProgress' /\ LinksResolve'
    BY <1>0, <2>1, <2>2, BetweenJobs DEF TreeInv
  <2>. QED  BY <1>0, <2>2, <2>3 DEF TreeInv, JobInv
<1>5. CASE RsyncPhase \/ RsyncPartial \/ Replace
  <2>1. phase' \in {"rsync", "choose"}
    BY <1>5 DEF RsyncPhase, RsyncPartial, Replace, Goto
  <2>2. pc = "idle" /\ ([Next]_vars) /\ UNCHANGED <<control, current>>
        /\ (genesis' # genesis => genesis' = InImage /\ ImageGenesis # Nil)
    BY <1>0, <1>5
       DEF RsyncPhase, RsyncPartial, Replace, Rsync, rsync_cosmovisor, NewContainer, vars,
           layout, control, BringupTypeOK, TypeOK, Next
  <2>3. \A n \in Names : file[n][Bin] # Nil => file'[n][Bin] # Nil
    BY <1>0, <2>2, FilesStay DEF FileNames
  <2>4. JobProgress' /\ LinksResolve'
    BY <1>0, <2>2, <2>3, BetweenJobs DEF TreeInv
  <2>. QED  BY <1>0, <2>1, <2>4 DEF TreeInv, JobInv, Fitted
<1>6. CASE VersionInstalled \/ VersionReinstalled
  <2>1. /\ pc = "idle" /\ UNCHANGED vars /\ choice' = choice
        /\ \/ phase = "install" /\ phase' = (IF result = "ok" THEN "mkdir" ELSE "down")
           \/ phase = "reinstall" /\ phase' = "genesis"
    BY <1>6 DEF VersionInstalled, VersionReinstalled, Installed, choices
  <2>2. phase' = "down" \/ current # Nil \/ choice = "nothing"
    <3>1. CASE result = "ok"
      <4>1. current = job.name /\ job # Nil
        BY <2>1, <3>1 DEF TreeInv, JobInv, InstallDone, JobProgress
      <4>. QED  BY <1>0, <4>1, NextFileType, LayoutAssumption
    <3>2. CASE result # "ok" /\ phase = "reinstall"
      BY <2>1, <3>2 DEF TreeInv, JobInv, FailureKeepsCurrent
    <3>. QED  BY <2>1, <3>1, <3>2
  <2>. QED
    BY <1>0, <2>1, <2>2 DEF vars, TreeInv, JobInv, Fitted, JobProgress, LinksResolve
<1>7. CASE ~(InstallStep \/ Kill \/ ChooseVersion \/ RechooseVersion \/ CosmovisorUpgrade
             \/ RsyncPhase \/ RsyncPartial \/ Replace \/ VersionInstalled \/ VersionReinstalled)
  <2>1. UNCHANGED vars
    BY <1>7
       DEF BringupNext, Prepare, Node, allvars, Restart, EnsureDataDir, CosmovisorInit,
           CosmovisorInitFails, RemoveGenerated, CopyState, RemoveData, MakeData, MoveState,
           UnsafeReset, BeginExtract, Extract, ExtractFails, CheckGenesis, CurlGenesis,
           CurlFails, Boot, Commit, HaltForUpgrade
  <2>2. \/ phase' = phase /\ choice' = choice
        \/ /\ phase' \notin {"install", "reinstall"}
           /\ phase' \in Fitted => phase \in Fitted /\ choice' = choice
    BY <1>7
       DEF BringupNext, Prepare, Node, allvars, local, Restart, EnsureDataDir, CosmovisorInit,
           CosmovisorInitFails, RemoveGenerated, CopyState, RemoveData, MakeData, MoveState,
           UnsafeReset, BeginExtract, Extract, ExtractFails, CheckGenesis, CurlGenesis,
           CurlFails, Boot, Commit, HaltForUpgrade, Goto, Fitted, Phases, choices
  <2>3. JobInv'
    BY <2>1, <2>2 DEF vars, TreeInv, JobInv, InstallDone, Present, FailureKeepsCurrent
  <2>4. /\ JobProgress' /\ LinksResolve'
        /\ phase' \in Fitted => current' # Nil \/ choice' = "nothing"
    BY <2>1, <2>2 DEF vars, TreeInv, JobProgress, LinksResolve
  <2>. QED  BY <1>0, <2>3, <2>4 DEF TreeInv
<1>. QED  BY <1>1, <1>2, <1>3, <1>4, <1>5, <1>6, <1>7

\* The node is never started while current is missing, but after a start that
\* found no version to install.
THEOREM UpAlwaysHasCurrent == BringupSpec => []UpHasCurrent
<1>1. BringupInit => TreeInv
  BY TreeInit
<1>2. TreeInv /\ [BringupNext]_allvars => TreeInv'
  BY TreeStep
<1>3. TreeInv => UpHasCurrent
  BY DEF TreeInv, Fitted, Phases, UpHasCurrent
<1>. QED  BY <1>1, <1>2, <1>3, PTL DEF BringupSpec

-----------------------------------------------------------------------------
(* The signing state *)

\* A validator that has signed has its genesis file, so init does not run
\* again and makes no fresh signing state.  Without a restore, what data/ and
\* the backup hold is not behind what was signed, and the backup is used up
\* before the node can sign more.
SignInv ==
    /\ signed # 0 => /\ genesis_file \in {"generated", "chain"}
                     /\ phase \notin {"init", "rmgenesis", "curl"}
    /\ daemon # Nil => data.pv # Nil /\ genesis_file \in {"generated", "chain"}
    /\ ~env.restore_snapshot /\ ~env.restore_url =>
          /\ phase \notin {"restore", "extract", "rechoose", "reinstall"}
          /\ data.pv # Nil => data.pv >= signed
          /\ backup # Nil => backup >= signed /\ env.reset_on_start
          /\ phase \in {"unsafe_reset", "genesis", "curl", "up"} => backup = Nil

LEMMA SignInit == BringupInit => SignInv
BY EmptyType DEF BringupInit, SignInv, NoData

LEMMA SignStep ==
    BringupTypeOK /\ BringupTypeOK' /\ SignInv /\ [BringupNext]_allvars => SignInv'
<1>. SUFFICES ASSUME BringupTypeOK, BringupTypeOK', SignInv, [BringupNext]_allvars
              PROVE  SignInv'
  OBVIOUS
<1>. DEFINE Plain == ~env.restore_snapshot /\ ~env.restore_url
<1>1. /\ signed \in Nat /\ MaxHeight \in Nat /\ Nil \notin Nat
      /\ data.pv \in Nat \union {Nil} /\ data.height \in Nat
      /\ backup \in Nat \union {Nil} /\ data \in Data
  <2>1. data \in Data /\ backup \in 0..MaxHeight \union {Nil} /\ signed \in 0..MaxHeight
    BY DEF BringupTypeOK, LocalType
  <2>2. data.pv \in 0..MaxHeight \union {Nil} /\ data.height \in 0..MaxHeight
    BY <2>1 DEF Data
  <2>. QED  BY <2>1, <2>2, BringupAssumption
<1>2. env' = env
  BY SameEnv
<1>3. CASE Commit
  <2>. DEFINE h == data.height + 1
              pv == IF h > data.pv THEN h ELSE data.pv
  <2>1. /\ daemon # Nil /\ phase = "up" /\ data.pv # Nil
        /\ genesis_file \in {"generated", "chain"}
    BY <1>3 DEF Commit, SignInv, BringupTypeOK
  <2>2. data'.pv = pv /\ signed' = (IF h > signed THEN h ELSE signed)
        /\ UNCHANGED <<phase, genesis_file, backup, daemon>>
    BY <1>1, <1>3 DEF Commit, Data
  <2>3. pv \in Nat /\ pv # Nil /\ (data.pv >= signed => pv >= signed')
    BY <1>1, <2>1, <2>2
  <2>. HIDE DEF h, pv
  <2>. QED  BY <1>2, <2>1, <2>2, <2>3 DEF SignInv
<1>4. CASE HaltForUpgrade
  <2>1. data'.pv = data.pv /\ phase = "up"
    BY <1>1, <1>4 DEF HaltForUpgrade, Data, BringupTypeOK
  <2>2. UNCHANGED <<phase, genesis_file, backup, signed>> /\ daemon' = Nil
    BY <1>4 DEF HaltForUpgrade
  <2>. QED  BY <1>2, <2>1, <2>2 DEF SignInv
<1>5. CASE CosmovisorInit
  <2>1. data'.pv = (IF data.pv = Nil THEN 0 ELSE data.pv) /\ signed = 0 /\ daemon' = Nil
    BY <1>1, <1>5 DEF CosmovisorInit, Data, SignInv, BringupTypeOK
  <2>2. phase' = "rmgenesis" /\ UNCHANGED <<backup, signed>>
    BY <1>5 DEF CosmovisorInit, Goto
  <2>. QED  BY <1>1, <1>2, <2>1, <2>2 DEF SignInv
<1>6. CASE EnsureDataDir \/ MakeData
  <2>1. data'.pv = data.pv /\ daemon' = Nil
    BY <1>1, <1>6 DEF EnsureDataDir, MakeData, Data, BringupTypeOK
  <2>2. /\ phase' \in {"init", "cp", "mv"} /\ UNCHANGED <<backup, signed, genesis_file>>
        /\ phase' = "init" => genesis_file = "absent"
    BY <1>6 DEF EnsureDataDir, MakeData, Goto
  <2>. QED  BY <1>2, <2>1, <2>2 DEF SignInv
<1>7. CASE CopyState \/ RemoveData
  <2>1. /\ backup' \in {data.pv, backup} /\ (backup' # backup => env.reset_on_start)
        /\ data'.pv \in {data.pv, Nil} /\ daemon' = Nil
    BY <1>7 DEF CopyState, RemoveData, NoData, BringupTypeOK
  <2>2. /\ phase' \in {"rm", "mkdata", "unsafe_reset"} /\ UNCHANGED <<signed, genesis_file>>
        /\ phase' = "unsafe_reset" => ~env.reset_on_start /\ backup' = backup
    BY <1>7 DEF CopyState, RemoveData, Goto
  <2>. QED  BY <1>2, <2>1, <2>2 DEF SignInv
<1>8. CASE MoveState
  <2>1. data'.pv = backup /\ daemon' = Nil
    BY <1>1, <1>8 DEF MoveState, Data, BringupTypeOK
  <2>2. phase' = "unsafe_reset" /\ backup' = Nil /\ UNCHANGED <<signed, genesis_file>>
    BY <1>8 DEF MoveState, Goto
  <2>. QED  BY <1>2, <2>1, <2>2 DEF SignInv
<1>9. CASE UnsafeReset \/ BeginExtract \/ Extract \/ ExtractFails
  <2>1. /\ Plain => phase' = "genesis" /\ UNCHANGED <<data, backup>>
        /\ phase' \in {"restore", "extract", "rechoose", "genesis"} /\ daemon' = Nil
        /\ UNCHANGED <<signed, genesis_file>>
        /\ Plain => phase = "unsafe_reset"
    BY <1>9
       DEF UnsafeReset, BeginExtract, Extract, ExtractFails, Goto, SignInv, BringupTypeOK
  <2>. QED  BY <1>2, <2>1 DEF SignInv
<1>10. CASE ChooseVersion \/ RechooseVersion \/ VersionInstalled \/ VersionReinstalled \/ InstallStep
  <2>1. /\ phase' \in {"mkdir", "down", "install", "reinstall", "genesis"}
        /\ Plain => phase \in {"choose", "install"} /\ phase' \in {"mkdir", "down", "install"}
        /\ UNCHANGED <<data, genesis_file, backup, signed>> /\ daemon' = Nil
    BY <1>10
       DEF ChooseVersion, RechooseVersion, Choose, VersionInstalled, VersionReinstalled,
           Installed, InstallStep, SignInv, BringupTypeOK
  <2>. QED  BY <1>2, <2>1 DEF SignInv
<1>11. CASE Restart \/ Replace \/ Kill \/ RsyncPhase \/ RsyncPartial
  <2>1. /\ phase' \in {"down", "rsync", "choose"} /\ daemon' = Nil
        /\ UNCHANGED <<data, genesis_file, signed>> /\ backup' \in {backup, Nil}
    BY <1>11 DEF Restart, Replace, Kill, RsyncPhase, RsyncPartial, Goto, BringupTypeOK
  <2>. QED  BY <1>2, <2>1 DEF SignInv
<1>12. CASE CosmovisorInitFails \/ RemoveGenerated \/ CheckGenesis \/ CurlGenesis \/ CurlFails
  <2>1. /\ UNCHANGED <<data, backup, signed>> /\ daemon' = Nil
        /\ phase \in {"init", "rmgenesis", "genesis", "curl"}
        /\ phase' \in {"rmgenesis", "down", "cp", "curl", "up"}
        /\ phase' \in {"curl", "up"} => phase \in {"genesis", "curl"}
        /\ phase = "genesis" => genesis_file = "absent"
                                \/ (UNCHANGED genesis_file /\ phase' = "up")
    BY <1>12
       DEF CosmovisorInitFails, RemoveGenerated, CheckGenesis, CurlGenesis, CurlFails, Goto,
           BringupTypeOK
  <2>. QED  BY <1>2, <2>1 DEF SignInv
<1>13. CASE Boot
  <2>1. /\ UNCHANGED <<phase, data, genesis_file, backup, signed>> /\ data.pv # Nil
        /\ genesis_file \in {"generated", "chain"}
    BY <1>13 DEF Boot
  <2>. QED  BY <1>2, <2>1 DEF SignInv
<1>14. CASE CosmovisorUpgrade \/ UNCHANGED allvars
  BY <1>14 DEF CosmovisorUpgrade, allvars, local, SignInv
<1>. QED
  BY <1>3, <1>4, <1>5, <1>6, <1>7, <1>8, <1>9, <1>10, <1>11, <1>12, <1>13, <1>14
     DEF BringupNext, Prepare, Node

\* RESET_ON_START never leaves a node running that is behind what its key signed.
THEOREM SigningIsKept == BringupSpec => []SignStateKept
<1>. DEFINE Inv == BringupTypeOK /\ SignInv
<1>1. BringupInit => Inv
  BY BringupTypeInit, SignInit
<1>2. Inv /\ [BringupNext]_allvars => Inv'
  BY BringupTypeStep, SignStep
<1>3. Inv => SignStateKept
  BY DEF SignInv, SignStateKept
<1>. QED  BY <1>1, <1>2, <1>3, PTL DEF BringupSpec

-----------------------------------------------------------------------------
(* The binary of a recorded upgrade *)

Restoring == env.restore_snapshot \/ env.restore_url

\* What a restore has in data/: nothing announced before it extracts, a torn
\* directory while it does, and what the archive holds when it chooses again.
RestoreInv ==
    /\ phase = "restore" => data.upgrade_info = Nil
    /\ phase = "extract" => ~data.whole
    /\ phase \in {"rechoose", "reinstall"} => data = Archive /\ Archive # Nil
    /\ ~Restoring => /\ phase \notin {"restore", "extract", "rechoose", "reinstall"}
                     /\ data.status = Nil

\* The node is what current led to when it was started: nothing links while it
\* runs, and its databases are whole.
DaemonInv ==
    daemon # Nil =>
       data.whole /\ (daemon = current \/ (current = Nil /\ choice = "nothing"))

\* Every choice of this start came to a version.
Versioned == choice = "version" /\ rechoice \in {"none", "version"}

\* A start that does not restore chooses once, and ends if that raises.
VersionInv ==
    env.binary_url = Nil /\ env.binary_version = Nil /\ ~Restoring =>
       /\ rechoice = "none"
       /\ phase \in Fitted \union {"install"} => choice = "version"

\* What data/ holds can be relied on: a start that restores wipes it first, and
\* one whose restore failed or was cut short runs on what was left.
Trusted ==
    Restoring =>
       phase \in {"genesis", "curl", "up"} /\ result = "ok" /\ data.whole /\ Versioned

\* A recorded upgrade is the last block's or the next one's, and
Announced(plan, height) == plan.name \in {Due(height).name, Due(height + 1).name}

\* current leads to it, or still to the binary it replaces.
LinkFollows(plan, height) ==
    \/ current = plan.name
    \/ current = Due(height).name /\ plan.name = Due(height + 1).name

\* The job installs the recorded upgrade, so that afterwards current follows it.
ChoiceInv ==
    env.binary_url = Nil /\ env.binary_version = Nil /\ data.upgrade_info # Nil =>
       /\ phase \in {"install", "reinstall"} => job.name = data.upgrade_info.name
       /\ Trusted => /\ Announced(data.upgrade_info, data.height)
                     /\ phase \in Fitted => LinkFollows(data.upgrade_info, data.height)

LEMMA ChoiceInit == BringupInit => RestoreInv /\ DaemonInv /\ VersionInv /\ ChoiceInv
BY DEF BringupInit, RestoreInv, DaemonInv, VersionInv, ChoiceInv, NoData, Fitted

LEMMA RestoreStep ==
    BringupTypeOK /\ RestoreInv /\ [BringupNext]_allvars => RestoreInv'
<1>. SUFFICES ASSUME BringupTypeOK, RestoreInv, [BringupNext]_allvars PROVE RestoreInv'
  OBVIOUS
<1>1. env' = env
  BY SameEnv
<1>0. ~Restoring => data'.status = Nil
  <2>. SUFFICES ASSUME ~Restoring PROVE data'.status = Nil
    OBVIOUS
  <2>1. data \in Data /\ data.status = Nil /\ phase \notin {"restore", "extract"}
    BY DEF RestoreInv, BringupTypeOK, LocalType
  <2>2. CASE data' = data
    BY <2>1, <2>2
  <2>3. CASE data' # data
    <3>1. \/ data' = NoData
          \/ \E b : data' = [data EXCEPT !.dir = b]
          \/ \E pv : data' = [data EXCEPT !.pv = pv]
          \/ \E h, pv : data' = [data EXCEPT !.height = h, !.pv = pv]
          \/ \E plan : data' = [data EXCEPT !.upgrade_info = plan]
      BY <2>1, <2>3
         DEF BringupNext, Prepare, Node, allvars, local, Restart, Replace, Kill, RsyncPhase,
             RsyncPartial, ChooseVersion, RechooseVersion, Choose, InstallStep,
             VersionInstalled, VersionReinstalled, Installed, EnsureDataDir, CosmovisorInit,
             CosmovisorInitFails, RemoveGenerated, CopyState, RemoveData, MakeData,
             MoveState, UnsafeReset, BeginExtract, Extract, ExtractFails, CheckGenesis,
             CurlGenesis, CurlFails, Boot, Commit, HaltForUpgrade, CosmovisorUpgrade,
             Restoring
    <3>2. NoData.status = Nil
      BY DEF NoData
    <3>3. \A d \in Data :
             /\ \A b : [d EXCEPT !.dir = b].status = d.status
             /\ \A pv : [d EXCEPT !.pv = pv].status = d.status
             /\ \A h, pv : [d EXCEPT !.height = h, !.pv = pv].status = d.status
             /\ \A plan : [d EXCEPT !.upgrade_info = plan].status = d.status
      BY DEF Data
    <3>4. CASE data' = NoData
      BY <3>2, <3>4
    <3>5. CASE \E b : data' = [data EXCEPT !.dir = b]
      BY <2>1, <3>3, <3>5
    <3>6. CASE \E pv : data' = [data EXCEPT !.pv = pv]
      BY <2>1, <3>3, <3>6
    <3>7. CASE \E h, pv : data' = [data EXCEPT !.height = h, !.pv = pv]
      BY <2>1, <3>3, <3>7
    <3>8. CASE \E plan : data' = [data EXCEPT !.upgrade_info = plan]
      BY <2>1, <3>3, <3>8
    <3>. QED  BY <3>1, <3>4, <3>5, <3>6, <3>7, <3>8
  <2>. QED  BY <2>2, <2>3
<1>2. CASE UnsafeReset \/ BeginExtract \/ Extract
  <2>1. CASE UnsafeReset
    BY <1>0, <1>1, <2>1 DEF UnsafeReset, Goto, RestoreInv, Restoring, EmptyData, NoData
  <2>2. CASE BeginExtract
    <3>1. \A d \in Data : ~[d EXCEPT !.whole = FALSE].whole
      BY DEF Data
    <3>2. data \in Data /\ (Archive # Nil => Archive \in Data)
      BY BringupAssumption DEF BringupTypeOK, LocalType
    <3>3. ~data'.whole /\ phase' = "extract" /\ phase = "restore"
      BY <2>2, <3>1, <3>2 DEF BeginExtract, Goto
    <3>. QED  BY <1>0, <1>1, <3>3 DEF RestoreInv, Restoring
  <2>3. CASE Extract
    BY <1>0, <1>1, <2>3 DEF Extract, Goto, RestoreInv, Restoring, BringupTypeOK
  <2>. QED  BY <1>2, <2>1, <2>2, <2>3
<1>3. CASE RechooseVersion \/ InstallStep \/ VersionReinstalled \/ ExtractFails
  <2>1. /\ UNCHANGED data
        /\ \/ phase' \in {"genesis", "install"}
           \/ phase' = "reinstall" /\ phase \in {"rechoose", "reinstall"}
    BY <1>3
       DEF RechooseVersion, Choose, InstallStep, VersionReinstalled, Installed, ExtractFails, Goto
  <2>. QED  BY <1>0, <1>1, <2>1 DEF RestoreInv, Restoring
<1>4. CASE UNCHANGED allvars \/ Node
  <2>1. UNCHANGED <<phase, data>> \/ phase' = "up"
    BY <1>4
       DEF allvars, local, Node, Boot, Commit, HaltForUpgrade, CosmovisorUpgrade, BringupTypeOK
  <2>. QED  BY <1>0, <1>1, <2>1 DEF RestoreInv, Restoring
<1>5. CASE ~(UnsafeReset \/ BeginExtract \/ Extract \/ RechooseVersion \/ InstallStep
             \/ VersionReinstalled \/ ExtractFails \/ UNCHANGED allvars \/ Node)
  <2>1. phase' \notin {"restore", "extract", "rechoose", "reinstall"}
    BY <1>5
       DEF BringupNext, Prepare, Restart, Replace, Kill, RsyncPhase, RsyncPartial,
           ChooseVersion, Choose, VersionInstalled, Installed, EnsureDataDir, CosmovisorInit,
           CosmovisorInitFails, RemoveGenerated, CopyState, RemoveData, MakeData, MoveState,
           CheckGenesis, CurlGenesis, CurlFails, Goto
  <2>. QED  BY <1>0, <1>1, <2>1 DEF RestoreInv, Restoring
<1>. QED  BY <1>2, <1>3, <1>4, <1>5

LEMMA DaemonStep == TreeInv /\ DaemonInv /\ [BringupNext]_allvars => DaemonInv'
<1>. SUFFICES ASSUME TreeInv, DaemonInv, [BringupNext]_allvars, daemon' # Nil
              PROVE  data'.whole
                     /\ (daemon' = current' \/ (current' = Nil /\ choice' = "nothing"))
  BY DEF DaemonInv
<1>0. BringupTypeOK /\ data \in Data
  BY DEF TreeInv, BringupTypeOK, LocalType
<1>1. CASE Boot
  <2>1. current # Nil \/ choice = "nothing"
    BY <1>1 DEF Boot, TreeInv, Fitted, Phases
  <2>2. /\ daemon' = Linked /\ data.whole /\ data' = data
        /\ current' = current /\ choice' = choice
    BY <1>1 DEF Boot, vars, choices
  <2>3. current # Nil => daemon' = current'
    BY <2>2 DEF Linked
  <2>4. current = Nil => current' = Nil /\ choice' = "nothing"
    BY <2>1, <2>2
  <2>5. data'.whole
    BY <2>2, Zenon
  <2>. QED  BY <2>3, <2>4, <2>5, Zenon
<1>2. CASE Commit
  <2>1. data'.whole = data.whole
    BY <1>0, <1>2 DEF Commit, Data
  <2>. QED  BY <1>2, <2>1 DEF Commit, vars, choices, DaemonInv
<1>3. CASE ~(Boot \/ Commit)
  <2>1. UNCHANGED <<daemon, current, data, choice>>
    BY <1>0, <1>3
       DEF BringupNext, Prepare, Node, allvars, vars, local, choices, Restart, Replace, Kill,
           RsyncPhase,
           RsyncPartial, ChooseVersion, RechooseVersion, Choose, InstallStep,
           VersionInstalled, VersionReinstalled, Installed, EnsureDataDir, CosmovisorInit,
           CosmovisorInitFails, RemoveGenerated, CopyState, RemoveData, MakeData, MoveState,
           UnsafeReset, BeginExtract, Extract, ExtractFails, CheckGenesis, CurlGenesis,
           CurlFails, HaltForUpgrade, CosmovisorUpgrade, BringupTypeOK
  <2>. QED  BY <2>1 DEF DaemonInv
<1>. QED  BY <1>1, <1>2, <1>3

LEMMA VersionStep ==
    BringupTypeOK /\ RestoreInv /\ VersionInv /\ [BringupNext]_allvars => VersionInv'
<1>. SUFFICES ASSUME BringupTypeOK, RestoreInv, VersionInv, [BringupNext]_allvars,
                     env.binary_url = Nil, env.binary_version = Nil, ~Restoring
              PROVE  rechoice' = "none"
                     /\ (phase' \in Fitted \union {"install"} => choice' = "version")
  BY SameEnv DEF VersionInv, Restoring
<1>1. /\ rechoice = "none" /\ (phase \in Fitted \union {"install"} => choice = "version")
      /\ phase \notin {"restore", "extract", "rechoose", "reinstall"}
      /\ ChosenVersion # Nil
  BY Choice DEF VersionInv, RestoreInv, BringupTypeOK, LocalType
<1>2. CASE ChooseVersion
  BY <1>1, <1>2 DEF ChooseVersion, Choose, Chose, Fitted
<1>3. CASE Restart \/ Replace
  BY <1>3 DEF Restart, Replace, Goto, Fitted
<1>4. CASE ~(ChooseVersion \/ Restart \/ Replace)
  <2>1. /\ UNCHANGED choices
        /\ phase' \in Fitted \union {"install"} => phase \in Fitted \union {"install"}
    BY <1>1, <1>4
       DEF BringupNext, Prepare, Node, allvars, local, Kill, RsyncPhase, RsyncPartial,
           RechooseVersion, Choose, InstallStep, VersionInstalled, VersionReinstalled,
           Installed, EnsureDataDir, CosmovisorInit, CosmovisorInitFails, RemoveGenerated,
           CopyState, RemoveData, MakeData, MoveState, UnsafeReset, BeginExtract, Extract,
           ExtractFails, CheckGenesis, CurlGenesis, CurlFails, Boot, Commit,
           HaltForUpgrade, CosmovisorUpgrade, Goto, Fitted, Phases
  <2>. QED  BY <1>1, <2>1 DEF choices
<1>. QED  BY <1>2, <1>3, <1>4

LEMMA ChoiceStep ==
    TreeInv /\ RestoreInv /\ DaemonInv /\ VersionInv /\ ChoiceInv /\ [BringupNext]_allvars
       => ChoiceInv'
<1>. SUFFICES ASSUME TreeInv, RestoreInv, DaemonInv, VersionInv, ChoiceInv,
                     [BringupNext]_allvars,
                     env.binary_url = Nil, env.binary_version = Nil, data'.upgrade_info # Nil
              PROVE  ChoiceInv'
  BY SameEnv DEF ChoiceInv
<1>. DEFINE plan == data.upgrade_info
<1>0. /\ BringupTypeOK /\ data \in Data /\ data.height \in Nat
      /\ env' = env /\ Restoring' = Restoring
  <2>1. BringupTypeOK /\ data \in Data
    BY DEF TreeInv, BringupTypeOK, LocalType
  <2>2. data.height \in 0..MaxHeight
    BY <2>1 DEF Data
  <2>. QED  BY <2>1, <2>2, SameEnv, BringupAssumption DEF Restoring
<1>1. ASSUME data'.upgrade_info = plan, data'.height = data.height,
             phase' \notin {"install", "reinstall"}, Trusted' => Trusted,
             phase' \in Fitted => phase \in Fitted /\ current' = current
      PROVE  ChoiceInv'
  BY <1>0, <1>1 DEF ChoiceInv, Announced, LinkFollows
<1>2. CASE ChooseVersion \/ RechooseVersion
  <2>1. plan # Nil /\ UNCHANGED data
    BY <1>2 DEF ChooseVersion, RechooseVersion, Choose
  <2>2. ChosenVersion \in {UpgradeVersion(plan), Raised} /\ UpgradeVersion(plan) \in Requests
    BY <1>0, <2>1, Choice, BringupAssumption DEF Data, BringupTypeOK, LocalType
  <2>3. Nil \notin {UpgradeVersion(plan), Raised}
    BY <2>2, LayoutAssumption, SentinelAssumption
  <2>4. CASE UNCHANGED vars
    <3>1. \/ phase' = "down" /\ (Restoring => ~Trusted')
          \/ phase' = "genesis" /\ rechoice' = "raised" /\ Restoring
      BY <1>0, <1>2, <2>2, <2>3, <2>4
         DEF ChooseVersion, RechooseVersion, Choose, Chose, create_cv_upgrade, vars, Trusted,
             RestoreInv
    <3>2. CASE phase' = "down" /\ (Restoring => ~Trusted')
      BY <1>0, <1>1, <2>1, <3>2 DEF Fitted, Trusted
    <3>3. CASE phase' = "genesis" /\ rechoice' = "raised" /\ Restoring
      BY <1>0, <2>1, <3>3 DEF ChoiceInv, Trusted, Versioned
    <3>. QED  BY <3>1, <3>2, <3>3
  <2>5. CASE ~UNCHANGED vars
    <3>1. create_cv_upgrade(ChosenVersion, TRUE) /\ phase' \in {"install", "reinstall"}
          /\ ChosenVersion = UpgradeVersion(plan)
      BY <1>2, <2>2, <2>3, <2>5 DEF ChooseVersion, RechooseVersion, Choose
    <3>2. job'.name = plan.name
      BY <3>1 DEF create_cv_upgrade, UpgradeVersion
    <3>3. Trusted' => Trusted
      BY <1>0, <3>1 DEF Trusted
    <3>. QED  BY <1>0, <2>1, <3>1, <3>2, <3>3 DEF ChoiceInv, Fitted, Announced
  <2>. QED  BY <2>4, <2>5
<1>3. CASE InstallStep
  <2>1. UNCHANGED <<phase, data, job>> /\ phase \in {"install", "reinstall"}
    BY <1>3
       DEF InstallStep, Work, Failure, SkipExisting, FetchFails, BeginWrite, FinishWrite,
           WriteFails, RaiseNotFound, create_upgrade_info, DumpInfo, DumpFails,
           link_cv_current, SymlinkCurrent, link_cv_genesis, SymlinkGenesis, Ends, request
  <2>2. Trusted' => Trusted
    BY <1>0, <2>1 DEF Trusted
  <2>. QED  BY <1>0, <2>1, <2>2 DEF ChoiceInv, Fitted, Announced
<1>4. CASE VersionInstalled \/ VersionReinstalled
  <2>1. /\ pc = "idle" /\ UNCHANGED vars /\ UNCHANGED data
        /\ \/ phase = "install" /\ phase' = (IF result = "ok" THEN "mkdir" ELSE "down")
           \/ phase = "reinstall" /\ phase' = "genesis"
    BY <1>4 DEF VersionInstalled, VersionReinstalled, Installed
  <2>2. result = "ok" => current' = plan.name
    BY <2>1 DEF vars, TreeInv, JobInv, InstallDone, ChoiceInv
  <2>3. Trusted' => Announced(plan, data.height)
    <3>1. CASE phase = "install"
      <4>1. Trusted' => Trusted
        BY <1>0, <2>1, <3>1 DEF Trusted
      <4>. QED  BY <2>1, <4>1 DEF ChoiceInv
    <3>2. CASE phase = "reinstall"
      <4>1. data = Archive /\ Archive # Nil
        BY <3>2 DEF RestoreInv
      <4>. QED  BY <2>1, <4>1, ArchiveAssumption DEF Announced
    <3>. QED  BY <2>1, <3>1, <3>2
  <2>4. Trusted' /\ phase' \in Fitted => result = "ok"
    BY <1>0, <2>1 DEF vars, Trusted, Fitted, RestoreInv
  <2>. QED  BY <1>0, <2>1, <2>2, <2>3, <2>4 DEF ChoiceInv, Announced, LinkFollows
<1>5. CASE UnsafeReset
  <2>1. ~Restoring /\ UNCHANGED <<data, vars>> /\ phase = "unsafe_reset" /\ phase' = "genesis"
    BY <1>5 DEF UnsafeReset, Goto, Restoring, EmptyData, NoData
  <2>2. Trusted' => Trusted
    BY <1>0, <2>1 DEF Trusted
  <2>. QED  BY <1>0, <1>1, <2>1, <2>2 DEF Fitted, Phases, vars
<1>6. CASE BeginExtract \/ Extract \/ ExtractFails
  <2>1. Restoring
    BY <1>6 DEF BeginExtract, Extract, ExtractFails, RestoreInv
  <2>2. phase' \in {"extract", "rechoose"} \/ ~data'.whole
    BY <1>6 DEF BeginExtract, Extract, ExtractFails, Goto, RestoreInv
  <2>3. ~Trusted' /\ phase' \notin {"install", "reinstall"}
    BY <1>0, <1>6, <2>1, <2>2 DEF Trusted, BeginExtract, Extract, ExtractFails, Goto
  <2>. QED  BY <2>3 DEF ChoiceInv
<1>7. CASE CheckGenesis \/ CurlGenesis \/ CurlFails
  <2>1. /\ UNCHANGED <<data, vars, choices>>
        /\ phase \in {"genesis", "curl"} /\ phase' \in {"curl", "up", "down"}
    BY <1>7 DEF CheckGenesis, CurlGenesis, CurlFails, Goto
  <2>2. Trusted' => Trusted
    BY <1>0, <2>1 DEF Trusted, Versioned, vars, choices
  <2>. QED  BY <1>0, <1>1, <2>1, <2>2 DEF Fitted, Phases, vars
<1>8. CASE \/ EnsureDataDir \/ CosmovisorInit \/ CosmovisorInitFails \/ RemoveGenerated
           \/ CopyState \/ RemoveData \/ MakeData \/ MoveState
  <2>1. /\ UNCHANGED vars
        /\ phase \in {"mkdir", "init", "rmgenesis", "cp", "rm", "mkdata", "mv"}
        /\ phase' \in {"init", "rmgenesis", "down", "cp", "rm", "mkdata", "mv", "unsafe_reset"}
    BY <1>8
       DEF EnsureDataDir, CosmovisorInit, CosmovisorInitFails, RemoveGenerated, CopyState,
           RemoveData, MakeData, MoveState, Goto
  <2>2. data'.upgrade_info = plan /\ data'.height = data.height
    BY <1>0, <1>8
       DEF EnsureDataDir, CosmovisorInit, CosmovisorInitFails, RemoveGenerated, CopyState,
           RemoveData, MakeData, MoveState, Data, NoData
  <2>3. Trusted' => Trusted
    BY <1>0, <2>1 DEF Trusted
  <2>. QED  BY <1>1, <2>1, <2>2, <2>3 DEF Fitted, Phases, vars
<1>9. CASE Restart \/ Replace \/ Kill \/ RsyncPhase \/ RsyncPartial
  <2>1. phase' \in {"down", "rsync", "choose"} /\ UNCHANGED data
    BY <1>9 DEF Restart, Replace, Kill, RsyncPhase, RsyncPartial, Goto
  <2>2. Trusted' => Trusted
    BY <1>0, <2>1 DEF Trusted
  <2>. QED  BY <1>1, <2>1, <2>2 DEF Fitted
<1>10. CASE Boot \/ UNCHANGED allvars
  <2>1. UNCHANGED <<data, phase, vars, choices>>
    BY <1>10 DEF Boot, allvars, local
  <2>2. Trusted' <=> Trusted
    BY <1>0, <2>1 DEF Trusted, Versioned, vars, choices
  <2>. QED  BY <1>0, <2>1, <2>2 DEF ChoiceInv, Announced, LinkFollows, vars
<1>11. CASE Commit \/ HaltForUpgrade
  <2>1. /\ phase = "up" /\ UNCHANGED <<phase, vars, choices>> /\ daemon # Nil
        /\ data'.whole = data.whole
    BY <1>0, <1>11 DEF Commit, HaltForUpgrade, BringupTypeOK, Data
  <2>2. (Trusted' <=> Trusted) /\ phase' \in Fitted
    BY <1>0, <2>1 DEF Trusted, Versioned, Fitted, Phases, vars, choices
  <2>5. Trusted => daemon = current
    <3>1. Trusted => choice = "version"
      BY <2>1, <2>2 DEF Trusted, Versioned, VersionInv
    <3>. QED  BY <2>1, <3>1 DEF DaemonInv
  <2>3. CASE Commit
    <3>1. data'.upgrade_info = plan /\ data'.height = data.height + 1
      BY <1>0, <2>3 DEF Commit, Data
    <3>2. Trusted => current = Due(data.height + 1).name
      BY <2>5, <2>3 DEF Commit
    <3>3. Trusted => plan.name = current
      BY <2>1, <2>2, <3>1, <3>2 DEF ChoiceInv, LinkFollows
    <3>. QED
      BY <1>0, <2>1, <2>2, <3>1, <3>2, <3>3 DEF ChoiceInv, Announced, LinkFollows, vars
  <2>4. CASE HaltForUpgrade
    <3>1. /\ data'.upgrade_info.name = Due(data.height + 1).name
          /\ data'.height = data.height /\ (Trusted => current = Due(data.height).name)
      BY <1>0, <2>5, <2>4 DEF HaltForUpgrade, Data
    <3>. QED
      BY <1>0, <2>1, <2>2, <3>1 DEF ChoiceInv, Announced, LinkFollows, vars
  <2>. QED  BY <1>11, <2>3, <2>4
<1>12. CASE CosmovisorUpgrade
  <2>1. /\ current' = plan.name /\ UNCHANGED <<data, phase, result, choices>> /\ phase = "up"
    BY <1>12 DEF CosmovisorUpgrade, local, control
  <2>2. Trusted' <=> Trusted
    BY <1>0, <2>1 DEF Trusted, Versioned, choices
  <2>. QED  BY <1>0, <2>1, <2>2 DEF ChoiceInv, Announced, LinkFollows
<1>. QED
  BY <1>2, <1>3, <1>4, <1>5, <1>6, <1>7, <1>8, <1>9, <1>10, <1>11, <1>12
     DEF BringupNext, Prepare, Node

\* Once an upgrade is recorded, the node of a start whose every choice came to a
\* version that is installed runs the last block's binary or the next one's.
THEOREM RightBinaryRuns == BringupSpec => []RightBinaryAfterUpgrade
<1>. DEFINE Inv == TreeInv /\ RestoreInv /\ DaemonInv /\ VersionInv /\ ChoiceInv
<1>1. BringupInit => Inv
  BY TreeInit, ChoiceInit
<1>2. Inv /\ [BringupNext]_allvars => Inv'
  BY TreeStep, RestoreStep, DaemonStep, VersionStep, ChoiceStep DEF TreeInv
<1>3. Inv => RightBinaryAfterUpgrade
  <2>. SUFFICES ASSUME Inv, env.binary_url = Nil, env.binary_version = Nil,
                       Versioned, daemon # Nil, data.upgrade_info # Nil, result = "ok"
                PROVE  daemon \in {Due(data.height).name, Due(data.height + 1).name}
    BY DEF RightBinaryAfterUpgrade, Versioned
  <2>1. phase = "up" /\ daemon = current /\ data.whole
    BY DEF TreeInv, BringupTypeOK, DaemonInv, Versioned
  <2>2. Trusted /\ phase \in Fitted
    BY <2>1 DEF Trusted, Fitted, Phases
  <2>. QED  BY <2>1, <2>2 DEF ChoiceInv, Announced, LinkFollows
<1>. QED  BY <1>1, <1>2, <1>3, PTL DEF BringupSpec

-----------------------------------------------------------------------------
(* What others see of the tree *)

\* cosmovisor's own upgrade is a swap.
LEMMA UpgradeMaps ==
    ASSUME BringupTypeOK, CosmovisorUpgrade
    PROVE  Abstract!Swap
<1>. DEFINE n == data.upgrade_info.name
<1>1. /\ TypeOK /\ TypeOK' /\ pc = "idle"
      /\ current' \in Names /\ file'[current'][Bin] # Nil
      /\ \A m \in Names : file[m][Bin] # Nil => file'[m][Bin] # Nil
      /\ UNCHANGED <<genesis, opt, pc, job, link, result>>
  BY UpgradeStep DEF BringupTypeOK, control, FileNames
<1>2. \A m \in Names : m # current' => file'[m] = file[m]
  BY <1>1 DEF CosmovisorUpgrade, TypeOK
<1>3. installedBar' = installedBar \union {current'}
  BY <1>1, <1>2 DEF installedBar
<1>4. activeBar' = current' /\ statusBar' = statusBar /\ wantBar' = wantBar
      /\ baseBar' = baseBar
  BY <1>1 DEF activeBar, statusBar, wantBar, baseBar, GenesisExists
<1>5. statusBar # "busy"
  BY <1>1 DEF statusBar, TypeOK
<1>. QED  BY <1>1, <1>3, <1>4, <1>5 DEF Abstract!Swap

\* A container implements the installation with cosmovisor beside it.
THEOREM HostedRefinement == BringupSpec => ImplementsHostedInstallation
<1>1. BringupInit => Abstract!Init
  BY InitMaps DEF BringupInit
<1>2. TreeInv /\ [BringupNext]_allvars => [Abstract!HostedNext]_(Abstract!vars)
  <2>. SUFFICES ASSUME TreeInv, [BringupNext]_allvars
                PROVE  [Abstract!HostedNext]_(Abstract!vars)
    OBVIOUS
  <2>1. BringupTypeOK /\ TypeOK /\ JobProgress
    BY DEF TreeInv, BringupTypeOK
  <2>2. [Next]_vars \/ CosmovisorUpgrade
    BY <2>1, TreeSteps DEF Next
  <2>. QED  BY <2>1, <2>2, StepMaps, UpgradeMaps DEF Abstract!HostedNext
<1>. QED
  BY <1>1, <1>2, TreeInit, TreeStep, PTL
     DEF BringupSpec, ImplementsHostedInstallation, Abstract!HostedSpec

\* In a container too, wherever it is killed, no link leads to an upgrade
\* without a binary.
THEOREM LinksResolveInContainers == BringupSpec => []LinksResolve
<1>1. TreeInv => LinksResolve
  BY DEF TreeInv
<1>. QED  BY <1>1, TreeInit, TreeStep, PTL DEF BringupSpec

\* Nor is a genesis link that leads somewhere ever replaced by anything but the
\* image's.
THEOREM GenesisIsKeptInContainers == BringupSpec => GenesisKept
<1>1. TreeInv /\ [BringupNext]_allvars
         => [GenesisExists /\ genesis' # genesis => genesis' = InImage]_vars
  <2>. SUFFICES ASSUME TreeInv, [BringupNext]_allvars, GenesisExists, genesis' # genesis
                PROVE  genesis' = InImage
    OBVIOUS
  <2>1. [Next]_vars \/ CosmovisorUpgrade
    BY TreeSteps DEF Next, TreeInv
  <2>2. [Next]_vars
    BY <2>1 DEF CosmovisorUpgrade
  <2>. QED  BY <2>2, GenesisStep DEF TreeInv
<1>. QED  BY <1>1, TreeInit, TreeStep, PTL DEF BringupSpec, GenesisKept

-----------------------------------------------------------------------------
(* Where the files of a container come from *)

\* The files of the version that was installed last stay.
KeptInv == pc = "idle" /\ result = "ok" => Present(job)

LEMMA KeptStep == TreeInv /\ KeptInv /\ [BringupNext]_allvars => KeptInv'
<1>. SUFFICES ASSUME TreeInv, KeptInv, [BringupNext]_allvars, pc' = "idle", result' = "ok"
              PROVE  Present(job)'
  BY DEF KeptInv
<1>. USE DEF layout, control, request
<1>0. BringupTypeOK /\ TypeOK
  BY DEF TreeInv, BringupTypeOK
<1>1. ASSUME UNCHANGED <<pc, job, result>>,
             \A n \in Names, f \in FileNames : file[n][f] # Nil => file'[n][f] # Nil
      PROVE  Present(job)'
  <2>1. Present(job) /\ job \in Requests
    BY <1>0, <1>1 DEF KeptInv, TreeInv, JobProgress, TypeOK
  <2>2. job.name \in Names /\ \A k \in DOMAIN Files(job) : Files(job)[k].file \in FileNames
    BY <2>1, RequestType, FilesType
  <2>. QED  BY <1>1, <2>1, <2>2 DEF Present
<1>2. CASE UNCHANGED vars
  BY <1>1, <1>2 DEF vars
<1>3. CASE Rsync \/ NewContainer
  <2>1. UNCHANGED <<pc, job, result>>
    BY <1>3 DEF Rsync, rsync_cosmovisor, NewContainer
  <2>. QED  BY <1>0, <1>1, <1>3, <2>1, FilesStay DEF Next
<1>4. CASE phase \in {"install", "reinstall"} /\ pc # "idle" /\ (Step \/ Crash)
  <2>1. LayoutInv'
    BY <1>0, <1>4, LayoutStep DEF TreeInv, JobInv, LayoutInv, Next
  <2>. QED  BY <2>1 DEF LayoutInv, InstallDone
<1>5. ~Start
  BY DEF Start, create_cv_upgrade
<1>6. CASE CosmovisorUpgrade
  BY <1>0, <1>1, <1>6, UpgradeStep
<1>. QED  BY <1>0, <1>2, <1>3, <1>4, <1>5, <1>6, TreeSteps

\* A plan names the URL that a request for its upgrade names.
LEMMA UpgradeUrls ==
    BringupTypeOK /\ UrlsAsRequested /\ CosmovisorUpgrade => UrlsAsRequested'
<1>. SUFFICES ASSUME BringupTypeOK, UrlsAsRequested, CosmovisorUpgrade, OneUrlPerFile,
                     NEW v \in Requests, NEW i \in DOMAIN Files(v),
                     file'[v.name][Files(v)[i].file] # Nil
              PROVE  file'[v.name][Files(v)[i].file].url = Files(v)[i].url
  BY DEF UrlsAsRequested
<1>. DEFINE plan == data.upgrade_info
            w == UpgradeVersion(plan)
            f == Files(v)[i].file
<1>1. TypeOK /\ plan \in Plans
  BY DEF BringupTypeOK, LocalType, CosmovisorUpgrade, Data
<1>2. w \in Requests /\ v.name \in Names /\ f \in FileNames
  BY <1>1, BringupAssumption, RequestType, FilesType
<1>4. /\ w.name = plan.name
      /\ plan.url # Nil => Files(w) = <<[file |-> Bin, url |-> plan.url]>>
  BY DEF Files, UpgradeVersion
<1>5. CASE v.name = plan.name /\ f = Bin /\ file[v.name][f] = Nil
  <2>1. file'[v.name][f].url = plan.url /\ plan.url # Nil
    BY <1>1, <1>2, <1>5 DEF CosmovisorUpgrade, TypeOK
  <2>2. Files(v)[i].url = Files(w)[1].url
    BY <1>2, <1>4, <1>5, <2>1 DEF OneUrlPerFile
  <2>. QED  BY <1>4, <2>1, <2>2
<1>6. CASE ~(v.name = plan.name /\ f = Bin /\ file[v.name][f] = Nil)
  <2>1. file'[v.name][f] = file[v.name][f]
    BY <1>1, <1>2, <1>6 DEF CosmovisorUpgrade, TypeOK
  <2>. QED  BY <2>1 DEF UrlsAsRequested
<1>. QED  BY <1>5, <1>6

\* If every file has one URL, the files of the version that was installed last
\* come from the URLs it names, whether a job, the image or cosmovisor put
\* them there.
THEOREM InstalledAsRequestedInContainers == BringupSpec => []FilesAsRequested
<1>. DEFINE Inv == TreeInv /\ KeptInv /\ UrlsAsRequested
<1>1. BringupInit => Inv
  BY TreeInit, UrlsInit DEF BringupInit, Init, KeptInv
<1>2. Inv /\ [BringupNext]_allvars => Inv'
  <2>. SUFFICES ASSUME Inv, [BringupNext]_allvars PROVE Inv'
    OBVIOUS
  <2>1. BringupTypeOK /\ TypeOK
    BY DEF TreeInv, BringupTypeOK
  <2>2. [Next]_vars \/ CosmovisorUpgrade
    BY <2>1, TreeSteps DEF Next
  <2>3. UrlsAsRequested'
    BY <2>1, <2>2, UrlsStep, UpgradeUrls
  <2>. QED  BY <2>3, TreeStep, KeptStep
<1>3. Inv => FilesAsRequested
  <2>. SUFFICES ASSUME Inv, OneUrlPerFile, pc = "idle", result = "ok",
                       NEW k \in DOMAIN Files(job)
                PROVE  file[job.name][Files(job)[k].file].url = Files(job)[k].url
    BY DEF FilesAsRequested
  <2>1. job \in Requests
    BY DEF TreeInv, BringupTypeOK, TypeOK, JobProgress
  <2>2. file[job.name][Files(job)[k].file] # Nil
    BY DEF KeptInv, Present
  <2>. QED  BY <2>1, <2>2 DEF UrlsAsRequested
<1>. QED  BY <1>1, <1>2, <1>3, PTL DEF BringupSpec

-----------------------------------------------------------------------------
(* How long prepare can take *)

\* What prepare has before it.
Ahead ==
    [ down |-> 0, up |-> 1, curl |-> 2, genesis |-> 3, reinstall |-> 4, rechoose |-> 5,
      extract |-> 6, restore |-> 7, unsafe_reset |-> 8, mv |-> 9, mkdata |-> 10, rm |-> 11,
      cp |-> 12, rmgenesis |-> 13, init |-> 14, mkdir |-> 15, install |-> 16,
      choose |-> 17, rsync |-> 18 ]

\* prepare never goes back and never waits but for the install job, which gets
\* shorter: a start that is not killed ends, in supervisord or with the
\* container.
THEOREM PrepareMovesOn ==
    BringupSpec =>
       [][Prepare /\ phase # "down" =>
             \/ Ahead[phase'] < Ahead[phase]
             \/ phase' = phase /\ Remaining' < Remaining]_allvars
<1>1. BringupTypeOK =>
         (Prepare /\ phase # "down" =>
             \/ Ahead[phase'] < Ahead[phase]
             \/ phase' = phase /\ Remaining' < Remaining)
  <2>. SUFFICES ASSUME BringupTypeOK, Prepare, phase # "down"
                PROVE  \/ Ahead[phase'] < Ahead[phase]
                       \/ phase' = phase /\ Remaining' < Remaining
    OBVIOUS
  <2>1. CASE InstallStep
    <3>1. Step /\ phase' = phase
      BY <2>1 DEF InstallStep, Step
    <3>. QED  BY <3>1, JobShrinks DEF BringupTypeOK
  <2>2. CASE \/ RsyncPhase \/ ChooseVersion \/ VersionInstalled \/ EnsureDataDir
             \/ CosmovisorInit \/ CosmovisorInitFails \/ RemoveGenerated \/ CopyState
    <3>1. \/ phase = "rsync" /\ phase' = "choose"
          \/ phase = "choose" /\ phase' \in {"install", "mkdir", "down"}
          \/ phase = "install" /\ phase' \in {"mkdir", "down"}
          \/ phase = "mkdir" /\ phase' \in {"init", "cp"}
          \/ phase = "init" /\ phase' = "rmgenesis"
          \/ phase = "rmgenesis" /\ phase' \in {"cp", "down"}
          \/ phase = "cp" /\ phase' \in {"rm", "unsafe_reset"}
      BY <2>2
         DEF RsyncPhase, ChooseVersion, Choose, VersionInstalled, Installed, EnsureDataDir,
             CosmovisorInit, CosmovisorInitFails, RemoveGenerated, CopyState, Goto
    <3>. QED  BY <3>1 DEF Ahead
  <2>3. CASE \/ RemoveData \/ MakeData \/ MoveState \/ UnsafeReset \/ BeginExtract
             \/ Extract \/ ExtractFails \/ RechooseVersion \/ VersionReinstalled
             \/ CheckGenesis \/ CurlGenesis \/ CurlFails
    <3>1. \/ phase = "rm" /\ phase' = "mkdata"
          \/ phase = "mkdata" /\ phase' = "mv"
          \/ phase = "mv" /\ phase' = "unsafe_reset"
          \/ phase = "unsafe_reset" /\ phase' \in {"restore", "genesis"}
          \/ phase = "restore" /\ phase' \in {"extract", "genesis"}
          \/ phase = "extract" /\ phase' \in {"rechoose", "genesis"}
          \/ phase = "rechoose" /\ phase' \in {"reinstall", "genesis"}
          \/ phase = "reinstall" /\ phase' = "genesis"
          \/ phase = "genesis" /\ phase' \in {"curl", "up", "down"}
          \/ phase = "curl" /\ phase' = "up"
      BY <2>3
         DEF RemoveData, MakeData, MoveState, UnsafeReset, BeginExtract, Extract, ExtractFails,
             RechooseVersion, Choose, VersionReinstalled, Installed, CheckGenesis,
             CurlGenesis, CurlFails, Goto
    <3>. QED  BY <3>1 DEF Ahead
  <2>. QED  BY <2>1, <2>2, <2>3 DEF Prepare, Restart
<1>. QED  BY <1>1, BringupTypeCorrect, PTL
===============================================================================
