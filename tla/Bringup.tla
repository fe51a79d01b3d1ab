------------------------------- MODULE Bringup -------------------------------
(***************************************************************************)
(* One container of the image: bin/entrypoint.sh from the first line of    *)
(* prepare to supervisord, over the volume it finds, with bin/initversion  *)
(* choosing and installing the binary (CvLayout) and the node running      *)
(* afterwards.  The container is killed at any point and started again on  *)
(* the same volume.                                                        *)
(*                                                                         *)
(* prepare runs on the left of "prepare && start", where bash ignores      *)
(* "set -e": a command of prepare that fails does not end it, only an      *)
(* explicit exit does.                                                     *)
(*                                                                         *)
(* External, and modelled from how the scripts use them: cosmovisor, the   *)
(* daemon, curl and the chain.                                             *)
(***************************************************************************)
EXTENDS CvLayout

CONSTANTS
    Catalog,         \* codebase['versions'], genesis version first
    GenesisVersion,  \* chain.json's codebase.genesis.version
    Envs,            \* the settings a container may be run with
    Plans,           \* the upgrade-info.json files the chain may come to
    Archive,         \* the data/ in the snapshot that is restored, Nil: none
    MaxHeight,       \* bound on the chain
    MaxFaults        \* bound on kills and failures

\* What data/ holds: the last committed height, upgrade-info.json, the height
\* in status.json, the height in priv_validator_state.json, and whether its
\* databases are whole.  A status.json comes with an archive only.
Data ==
    [ dir : BOOLEAN, height : 0..MaxHeight, upgrade_info : Plans \union {Nil},
      status : 0..MaxHeight \union {Nil}, pv : 0..MaxHeight \union {Nil}, whole : BOOLEAN ]

NoData    == [ dir |-> FALSE, height |-> 0, upgrade_info |-> Nil, status |-> Nil,
               pv |-> Nil, whole |-> TRUE ]
EmptyData == [NoData EXCEPT !.dir = TRUE]

\* Every version that can be chosen is one of the Requests.
ASSUME BringupAssumption ==
    /\ MaxHeight \in Nat /\ MaxFaults \in Nat /\ 0 .. MaxHeight + 1 \subseteq Heights
    /\ TRUE \in LinkModes
    /\ Nil \notin Nat /\ Nil \notin Plans /\ Raised \notin Requests
    /\ Catalog \in Seq({Catalog[i] : i \in DOMAIN Catalog}) /\ Catalog # <<>>
    /\ \A i \in DOMAIN Catalog :
          /\ Catalog[i].height \in Nat
          /\ get_arch_version(Catalog[i]) \in Requests
    /\ Plans \subseteq [name : Names, form : Forms, url : Urls \union {Nil}]
    /\ \A plan \in Plans : UpgradeVersion(plan) \in Requests
    /\ \A e \in Envs : e.binary_url # Nil => binary_url_version(e) \in Requests
    /\ Archive \in Data \union {Nil}

\* The version that has to execute block h: the one with the greatest height up
\* to h, and before the first height the genesis version.
Due(h) ==
    LET past == {i \in DOMAIN Catalog : Catalog[i].height \in 1..h}
    IN  IF past = {}
        THEN Catalog[1]
        ELSE Catalog[CHOOSE i \in past :
                        \A j \in past : Catalog[j].height <= Catalog[i].height]

\* An archive was made from a node of this chain: its upgrade-info.json, if
\* there is one, names the upgrade that executed its last block or the one
\* that is due next.
ASSUME ArchiveAssumption ==
    Archive # Nil /\ Archive.upgrade_info # Nil =>
       Archive.upgrade_info.name
          \in {Due(Archive.height).name, Due(Archive.height + 1).name}

VARIABLES
    env,           \* the environment variables of the container
    phase,         \* where prepare is; "down": no container, "up": supervisord
    data,          \* the data directory
    genesis_file,  \* config/genesis.json
    backup,        \* /tmp/priv_validator_state.json.backup
    daemon,        \* the upgrade whose binary runs, Nil: none
    faults,        \* number of kills and failures so far
    signed,        \* history: the last height the validator key signed
    choice,        \* history: what initversion.py came to in this start,
    rechoice       \* and at the end of its restore

choices == <<choice, rechoice>>
local == <<env, phase, data, genesis_file, backup, daemon, faults, signed, choices>>
allvars == <<vars, local>>

\* Not made yet, a version, no version to install, an exception.
Choices == {"none", "version", "nothing", "raised"}

Phases ==
    {"down", "rsync", "choose", "install", "mkdir", "init", "rmgenesis",
     "cp", "rm", "mkdata", "mv", "unsafe_reset", "restore", "extract", "rechoose",
     "reinstall", "genesis", "curl", "up"}

BringupInit ==
    /\ Init
    /\ env \in Envs
    /\ phase = "down"
    /\ data = NoData
    /\ genesis_file = "absent"
    /\ backup = Nil
    /\ daemon = Nil
    /\ faults = 0
    /\ signed = 0 /\ choice = "none" /\ rechoice = "none"

Goto(p) == phase' = p

Fault ==
    /\ faults < MaxFaults
    /\ faults' = faults + 1

\* The binary "cosmovisor run" would use: current, and genesis without one.
Linked == IF current # Nil THEN current
          ELSE IF genesis = InImage THEN ImageGenesis ELSE genesis

Runnable(n) ==
    /\ n # Nil
    /\ \/ file[n][Bin] # Nil /\ file[n][Bin].whole
       \/ current = Nil /\ genesis = InImage /\ opt

-----------------------------------------------------------------------------
(* The container *)

\* A restart of the container keeps its /tmp.
Restart ==
    /\ phase = "down"
    /\ Goto("rsync")
    /\ choice' = "none" /\ rechoice' = "none"
    /\ UNCHANGED <<vars, data, genesis_file, backup, daemon, faults, signed, env>>

\* A new container does not, and may be one of another image.
Replace ==
    /\ phase = "down"
    /\ Fault
    /\ backup' = Nil
    /\ UNCHANGED vars \/ NewContainer
    /\ Goto("rsync")
    /\ choice' = "none" /\ rechoice' = "none"
    /\ UNCHANGED <<data, genesis_file, daemon, signed, env>>

Kill ==
    /\ phase # "down"
    /\ Fault
    /\ Goto("down")
    /\ daemon' = Nil
    /\ IF pc = "idle" THEN UNCHANGED vars ELSE Crash
    /\ UNCHANGED <<data, genesis_file, backup, signed, choices, env>>

-----------------------------------------------------------------------------
(* initialize_version: initversion.py *)

RsyncPhase ==
    /\ phase = "rsync"
    /\ Goto("choose")
    /\ IF opt THEN rsync_cosmovisor(ImageFiles, TRUE) ELSE UNCHANGED vars
    /\ UNCHANGED <<data, genesis_file, backup, daemon, faults, signed, choices, env>>

RsyncPartial ==
    /\ phase = "rsync"
    /\ opt
    /\ Fault
    /\ Rsync
    /\ Goto("choose")
    /\ UNCHANGED <<data, genesis_file, backup, daemon, signed, choices, env>>

Chose(at, outcome) ==
    /\ choice' = IF at = "choose" THEN outcome ELSE choice
    /\ rechoice' = IF at = "rechoose" THEN outcome ELSE rechoice

\* If what it reads can be read, and the link in upgrade-info.json answers.
ChosenVersion == main_version(Catalog, GenesisVersion, env, data, TRUE)

\* Without a version, main installs nothing and returns all the same.
Choose(at, then, failed) ==
    /\ phase = at
    /\ \/ /\ ChosenVersion \notin {Nil, Raised}
          /\ create_cv_upgrade(ChosenVersion, TRUE)
          /\ phase' = IF at = "choose" THEN "install" ELSE "reinstall"
          /\ Chose(at, "version") /\ faults' = faults
       \/ /\ ChosenVersion = Nil
          /\ phase' = then
          /\ Chose(at, "nothing") /\ faults' = faults
          /\ UNCHANGED vars
       \/ /\ phase' = failed
          /\ Chose(at, "raised")
          /\ IF ChosenVersion = Raised THEN faults' = faults ELSE Fault
          /\ UNCHANGED vars
    /\ UNCHANGED <<data, genesis_file, backup, daemon, signed, env>>

\* A failed initversion.py ends prepare, although with status 0: the $? of
\* "exit $?" is that of the test before it.
ChooseVersion == Choose("choose", "mkdir", "down")

InstallStep ==
    /\ phase \in {"install", "reinstall"}
    /\ pc # "idle"
    /\ \/ Work /\ faults' = faults
       \/ Failure /\ Fault
    /\ UNCHANGED <<phase, data, genesis_file, backup, daemon, signed, choices, env>>

\* A slip: the exit status of initversion.py is not looked at.
InstalledAnyhow(at, then, failed) ==
    /\ phase = at
    /\ pc = "idle"
    /\ phase' = then
    /\ UNCHANGED <<vars, data, genesis_file, backup, daemon, faults, signed, choices, env>>

\* A slip: initversion.py is started in the background.
InstallingStill(at, then, failed) ==
    /\ phase = at
    /\ phase' = IF result = "raised" THEN failed ELSE then
    /\ UNCHANGED <<vars, data, genesis_file, backup, daemon, faults, signed, choices, env>>

Installed(at, then, failed) ==
    /\ phase = at
    /\ pc = "idle"
    /\ phase' = IF result = "ok" THEN then ELSE failed
    /\ UNCHANGED <<vars, data, genesis_file, backup, daemon, faults, signed, choices, env>>

VersionInstalled == Installed("install", "mkdir", "down")

-----------------------------------------------------------------------------
(* initialize_node *)

EnsureDataDir ==
    /\ phase = "mkdir"
    /\ IF genesis_file = "absent"
       THEN /\ data' = [data EXCEPT !.dir = TRUE]
            /\ Goto("init")
       ELSE /\ data' = data
            /\ Goto("cp")
    /\ UNCHANGED <<vars, genesis_file, backup, daemon, faults, signed, choices, env>>

\* cosmovisor run init: a genesis file of its own, and a fresh signing state
\* where there is none.
CosmovisorInit ==
    /\ phase = "init"
    /\ Runnable(Linked)
    /\ genesis_file' = "generated"
    /\ data' = [data EXCEPT !.pv = IF data.pv = Nil THEN 0 ELSE data.pv]
    /\ Goto("rmgenesis")
    /\ UNCHANGED <<vars, backup, daemon, faults, signed, choices, env>>

CosmovisorInitFails ==
    /\ phase = "init"
    /\ IF Runnable(Linked) THEN Fault ELSE faults' = faults
    /\ Goto("rmgenesis")
    /\ UNCHANGED <<vars, data, genesis_file, backup, daemon, signed, choices, env>>

RemoveGenerated ==
    /\ phase = "rmgenesis"
    /\ genesis_file' = "absent"
    /\ Goto(IF genesis_file = "absent" THEN "down" ELSE "cp")
    /\ UNCHANGED <<vars, data, backup, daemon, faults, signed, choices, env>>

-----------------------------------------------------------------------------
(* delete_data_dir: four commands, each of which may fail unnoticed *)

CopyState ==
    /\ phase = "cp"
    /\ IF env.reset_on_start
       THEN /\ backup' = IF data.pv # Nil THEN data.pv ELSE backup
            /\ Goto("rm")
       ELSE /\ backup' = backup
            /\ Goto("unsafe_reset")
    /\ UNCHANGED <<vars, data, genesis_file, daemon, faults, signed, choices, env>>

RemoveData ==
    /\ phase = "rm"
    /\ data' = NoData
    /\ Goto("mkdata")
    /\ UNCHANGED <<vars, genesis_file, backup, daemon, faults, signed, choices, env>>

MakeData ==
    /\ phase = "mkdata"
    /\ data' = [data EXCEPT !.dir = TRUE]
    /\ Goto("mv")
    /\ UNCHANGED <<vars, genesis_file, backup, daemon, faults, signed, choices, env>>

\* A slip: without a backup a fresh signing state is made.
MoveOrMakeState ==
    /\ phase = "mv"
    /\ data' = [data EXCEPT !.pv = IF backup = Nil THEN 0 ELSE backup]
    /\ backup' = Nil
    /\ Goto("unsafe_reset")
    /\ UNCHANGED <<vars, genesis_file, daemon, faults, signed, choices, env>>

MoveState ==
    /\ phase = "mv"
    /\ data' = [data EXCEPT !.pv = backup]
    /\ backup' = Nil
    /\ Goto("unsafe_reset")
    /\ UNCHANGED <<vars, genesis_file, daemon, faults, signed, choices, env>>

-----------------------------------------------------------------------------
(* load_data_from_image: snapshot.py restore, whose failure is not noticed *)

UnsafeReset ==
    /\ phase = "unsafe_reset"
    /\ IF env.restore_snapshot \/ env.restore_url
       THEN /\ data' = [EmptyData EXCEPT !.pv = 0]
            /\ Goto("restore")
       ELSE /\ data' = data
            /\ Goto("genesis")
    /\ UNCHANGED <<vars, genesis_file, backup, daemon, faults, signed, choices, env>>

\* The archive is extracted over the fresh data directory, file by file: the
\* small files may or may not have come before a kill.
BeginExtract ==
    /\ phase = "restore"
    /\ Archive # Nil
    /\ \E d \in {data, Archive} : data' = [d EXCEPT !.whole = FALSE]
    /\ Goto("extract")
    /\ UNCHANGED <<vars, genesis_file, backup, daemon, faults, signed, choices, env>>

Extract ==
    /\ phase = "extract"
    /\ data' = Archive
    /\ Goto("rechoose")
    /\ UNCHANGED <<vars, genesis_file, backup, daemon, faults, signed, choices, env>>

\* No archive, no answer to the download, or an archive that breaks off: what
\* was extracted stays.
ExtractFails ==
    /\ phase \in {"restore", "extract"}
    /\ IF Archive = Nil THEN faults' = faults ELSE Fault
    /\ Goto("genesis")
    /\ UNCHANGED <<vars, data, genesis_file, backup, daemon, signed, choices, env>>

\* restore_snapshot ends with another initversion.main.
RechooseVersion == Choose("rechoose", "genesis", "genesis")

VersionReinstalled == Installed("reinstall", "genesis", "genesis")

-----------------------------------------------------------------------------
(* download_genesis *)

\* zcat's ">" makes the file at once, curl's -o when the first byte arrives.
\* Without a chain.json nothing sets GENESIS_URL, and "set -u" ends the script.
CheckGenesis ==
    /\ phase = "genesis"
    /\ \/ /\ genesis_file # "absent" \/ env.genesis_url = "empty"
          /\ Goto("up") /\ genesis_file' = genesis_file
       \/ /\ genesis_file = "absent" /\ env.genesis_url = "given"
          /\ Goto("curl") /\ genesis_file' \in {"absent", "torn"}
       \/ /\ genesis_file = "absent" /\ env.genesis_url = Nil
          /\ Goto("down") /\ genesis_file' = genesis_file
    /\ UNCHANGED <<vars, data, backup, daemon, faults, signed, choices, env>>

CurlGenesis ==
    /\ phase = "curl"
    /\ genesis_file' = "chain"
    /\ Goto("up")
    /\ UNCHANGED <<vars, data, backup, daemon, faults, signed, choices, env>>

\* curl's status is not looked at, nor does -f turn an error page into one.
CurlFails ==
    /\ phase = "curl"
    /\ Fault
    /\ Goto("up")
    /\ UNCHANGED <<vars, data, genesis_file, backup, daemon, signed, choices, env>>

-----------------------------------------------------------------------------
(* supervisord, cosmovisor and the daemon *)

\* cosmovisor makes a missing current link to genesis; here it stays missing,
\* which is the same to Linked and to every later writer of the link.
Boot ==
    /\ phase = "up"
    /\ daemon = Nil
    /\ Runnable(Linked)
    /\ genesis_file \in {"generated", "chain"}
    /\ data.pv # Nil /\ data.whole
    /\ daemon' = Linked
    /\ UNCHANGED <<vars, phase, data, genesis_file, backup, faults, signed, choices, env>>

\* A block is executed by the binary that is due, and signed.
Commit ==
    /\ daemon # Nil
    /\ data.height < MaxHeight
    /\ daemon = Due(data.height + 1).name
    /\ data' = [data EXCEPT
                   !.height = data.height + 1,
                   !.pv = IF data.height + 1 > data.pv THEN data.height + 1 ELSE data.pv]
    /\ signed' = IF data.height + 1 > signed THEN data.height + 1 ELSE signed
    /\ UNCHANGED <<vars, phase, genesis_file, backup, daemon, faults, choices, env>>

\* Before a block it cannot execute, the binary that executed the last one
\* writes upgrade-info.json and stops.
HaltForUpgrade ==
    LET due == Due(data.height + 1).name
    IN  /\ daemon # Nil
        /\ data.height < MaxHeight
        /\ daemon = Due(data.height).name /\ daemon # due
        /\ \E plan \in Plans :
              plan.name = due /\ data' = [data EXCEPT !.upgrade_info = plan]
        /\ daemon' = Nil
        /\ UNCHANGED <<vars, phase, genesis_file, backup, faults, signed, choices, env>>

\* DAEMON_ALLOW_DOWNLOAD_BINARIES: cosmovisor downloads a missing binary, as a
\* whole, links current to it and records the upgrade.
CosmovisorUpgrade ==
    LET plan == data.upgrade_info
    IN  /\ phase = "up"
        /\ daemon = Nil
        /\ plan # Nil
        /\ current # plan.name
        /\ file[plan.name][Bin] # Nil \/ (plan.form # "bad" /\ plan.url # Nil)
        /\ file' = [file EXCEPT ![plan.name][Bin] =
                      IF @ = Nil THEN [url |-> plan.url, whole |-> TRUE] ELSE @]
        /\ info' = [info EXCEPT ![plan.name] = [height |-> data.height + 1, whole |-> TRUE]]
        /\ current' = plan.name
        /\ UNCHANGED <<genesis, opt, control, local>>

-----------------------------------------------------------------------------

Prepare ==
    \/ Restart \/ RsyncPhase \/ ChooseVersion \/ InstallStep \/ VersionInstalled
    \/ EnsureDataDir \/ CosmovisorInit \/ CosmovisorInitFails \/ RemoveGenerated
    \/ CopyState \/ RemoveData \/ MakeData \/ MoveState
    \/ UnsafeReset \/ BeginExtract \/ Extract \/ ExtractFails
    \/ RechooseVersion \/ VersionReinstalled
    \/ CheckGenesis \/ CurlGenesis \/ CurlFails

Node == Boot \/ Commit \/ HaltForUpgrade \/ CosmovisorUpgrade

BringupNext == Prepare \/ Replace \/ RsyncPartial \/ Kill \/ Node

\* A script that runs goes on, and a container that ended is started again.
BringupSpec == BringupInit /\ [][BringupNext]_allvars /\ WF_allvars(Prepare)

-----------------------------------------------------------------------------
(* Properties *)

LocalType ==
    /\ env \in Envs
    /\ phase \in Phases
    /\ data \in Data
    /\ genesis_file \in {"absent", "generated", "torn", "chain"}
    /\ backup \in 0..MaxHeight \union {Nil}
    /\ daemon \in Names \union {Nil}
    /\ faults \in 0..MaxFaults /\ signed \in 0..MaxHeight
    /\ choice \in Choices /\ rechoice \in Choices

\* Every variable has its type, only prepare installs, only supervisord runs the
\* node, and what is extracted is there.
BringupTypeOK ==
    /\ TypeOK /\ LocalType
    /\ pc # "idle" => phase \in {"install", "reinstall"}
    /\ daemon # Nil => phase = "up"
    /\ phase = "extract" => Archive # Nil

\* Once an upgrade is recorded in data/, whatever kills, partial downloads and
\* new containers came between, the binary that runs is the one that executed
\* the last block, to halt at the next, or the one that executes the next:
\* initversion.py:98-100 before any guess from the data directory.  Asked when
\* no BINARY_URL or BINARY_VERSION overrides the choice (initversion.py:92-97),
\* every choice of this start came to a version and the last install job
\* returned: entrypoint.sh goes on after a restore whose second choice raised,
\* with the binary of the first.
RightBinaryAfterUpgrade ==
    /\ env.binary_url = Nil /\ env.binary_version = Nil
    /\ choice = "version" /\ rechoice \in {"none", "version"} /\ result = "ok"
    /\ daemon # Nil /\ data.upgrade_info # Nil
    => daemon \in {Due(data.height).name, Due(data.height + 1).name}

\* The node is never started while current is missing, unless this start found
\* no version at all: a job killed between the unlink and the symlink
\* (cvutils.py:204-209) is made good by the next prepare or that prepare ends
\* (entrypoint.sh:104-107).  Without a version main installs nothing and
\* prepare goes on (initversion.py:120); cosmovisor then silently falls back to
\* the genesis binary.
UpHasCurrent == phase = "up" => current # Nil \/ choice = "nothing"

\* RESET_ON_START throws the chain's data away but never the validator's last
\* signed height (entrypoint.sh:132-135), wherever the container is killed and
\* even if its /tmp is lost: either the node has the state or it does not start.
SignStateKept ==
    daemon # Nil /\ env.reset_on_start /\ ~env.restore_snapshot /\ ~env.restore_url =>
       data.pv >= signed

\* To who looks at the installed upgrades, the active one and how the last
\* request ended, the whole life of a volume is made of the steps of an
\* installation and of cosmovisor's swaps: every prepare that is cut short, its
\* second choice after a restore and containers of either image included
\* (entrypoint.sh:102-109, cvutils.py:140-221).
ImplementsHostedInstallation == Abstract!HostedSpec

\* In containers of the chain's own image, where rsync_cosmovisor repairs what
\* a killed job or a failed copy left behind (initversion.py:23-29), prepare
\* comes through to supervisord in the end, however often it was cut short, if
\* the chain's information could be had and the recorded plan can be parsed: a
\* plan that cannot ends every prepare (initversion.py:75, entrypoint.sh:105).
Parsable == data.upgrade_info # Nil => data.upgrade_info.form # "bad"

ComesUp == env.genesis_url # Nil /\ [](opt /\ Parsable) => <>[](phase = "up")

\* README.md:57, "from genesis": without overrides the node runs the binary
\* that executed the last block or executes the next.  A kill before the first
\* upgrade breaks it: the data directory exists, so the latest version is taken.
FromGenesis ==
    daemon # Nil => daemon \in {Due(data.height).name, Due(data.height + 1).name}

\* entrypoint.sh:166, "Retrieve the genesis file": the node starts on the file
\* from GENESIS_URL.  A container killed between cosmovisor's init and the rm
\* of the file init made (entrypoint.sh:118-121) breaks it: the next prepare
\* takes that file for the chain's.
ChainGenesis == daemon # Nil => genesis_file = "chain"

=============================================================================
