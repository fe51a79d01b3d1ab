# Verification of foundation-cosmovisor

TLA+ models of the scripts under `src/bin` that build, start and maintain a
cosmos node in a container: which binary is installed, how the tree cosmovisor
reads is written, how a container comes up over the volume it finds and with
which settings, how snapshots are taken and restored beside a running node, and
what is concluded from the node's status. TLC checks each model on small
instances; TLAPS proves every safety property and every refinement of the passing
runs for all instances.

## 1. The system

| part | code | state it keeps | operations |
| --- | --- | --- | --- |
| version selection | `initversion.py`, `getchaininfo.py`, `cvutils.get_arch_version` | none; reads the catalog, the environment and `data/` | `main` and the lookups it chooses between |
| cosmovisor tree | `cvutils.create_cv_upgrade` and below, `initversion.rsync_cosmovisor` | `cosmovisor/upgrades/<name>/...`, links `current` and `genesis`, on the volume | install a version, copy the image's tree |
| container start | `entrypoint.sh` | `config/`, `data/`, `/tmp/priv_validator_state.json.backup` | `prepare`: version, init, reset, restore, genesis, settings; then supervisord |
| settings | `setpruning.py`, `entrypoint.sh` `modify_*_toml`, `k8speers.py`, `statesync.apply_statesync_config` | `app.toml`, `config.toml` | profile to settings, edits of single keys |
| snapshot jobs | `snapshot.py`, `cosmprund.py` | `data/`, the snapshots directory | `create`, `create --statesync`, `restore` |
| state sync | `statesync.py` | `config.toml`, `data/` | configure, wipe, start |
| process control | `cvcontrol.py`, `supervisord.conf`, `supervisor.d/cosmovisor.conf` | supervisord's process state | start, stop, restart over XML-RPC |
| status and peers | `rpcstatus.py`, `k8sutils.py` | none | `is_catching_up`, `is_behind`, peer lists |
| jail watch | `unjaild.sh` | none | poll and send a transaction |
| image build | `Dockerfile`, `getupgrades.py` | `/opt/cosmovisor` | install every version of a catalog |
| catalogs | `chains/*/upgrades.yml`, `chain.json` | data | |

How they meet: `entrypoint.sh` runs `initversion.py` (which copies the image's
tree and then calls `create_cv_upgrade`), perhaps `snapshot.py restore` (which
runs `initversion.main` again at its end), then the writers of the two toml files
one after the other, and becomes supervisord, which runs cosmovisor, which runs
the daemon through the `current` link. `snapshot.py` and `statesync.py` run
later beside them and ask supervisord over `cvcontrol.py` to stop and start the
node whose directory they archive, wipe or replace; `unjaild.sh` runs beside the
node for good and acts on its `/status`. All of them meet on the volume: nothing
is locked, no write of the Python scripts is made atomic by a rename, and what
one run leaves behind decides what the next does (an existing file is not
downloaded, an existing `data/` means the latest version, an existing genesis
file is the chain's, a toml key that is gone is never written again).

What is hard, therefore: a kill between any two writes and the rerun over what is
left; steps of which one fails while the status is ignored (`prepare && start`
turns `set -e` off, and `exit $?` after a test is `exit 0`); settings of an earlier
environment that show through in a later start; supervisord calls that fail and
are logged; the daemon writing the database a job reads; answers that are old
when they are acted on. `PROJECT.json` lists these hazards line by line.

What makes each part correct: the version that is chosen is the one that executes
the next block; the links lead to a binary, a finished job has installed all it
was asked for and a failed one has harmed nothing; a start ends in supervisord
over the right binary and this start's settings, with the validator's signing
state intact; an archive is of a stopped and synced node, a restore that says so
has restored, and a job that is done leaves the node running; a verdict from the
status is still true when it is used.

## 2. Modules

`Versions` - pure operators, one per lookup. A catalog is a sequence of records
with just the keys that decide something. Names are those of the Python
functions; `main_version` is the if/elif chain of `initversion.main`. An
exception is the value `Raised`, and no version, which `main` passes over, is `Nil`.
`upgrade-info.json` is `[name, form, url]`: its text is a link to JSON, JSON, a URL, or
what cannot be parsed (`Forms`), and `url` is what is found under the architecture,
perhaps nothing. `get_upgrade_info_version` raises where the text cannot be parsed or
the link does not answer (the operand `answered`). `get_chain_json_genesis_version`
raises since it calls a lookup without its `ctx` when `chain.json` names a genesis
version.

`VersionReplay` (extends `Versions`) - the reference definition. A chain executes
blocks, halts where its catalog has an upgrade, writes `upgrade-info.json` in any of its
forms (`Plans`) and continues with the next binary; the properties compare the lookups with the
history of who executed which block. The daemon and cosmovisor are external.

`CvLayout` (extends `Versions`) - the tree and the install job, one action per
write. `file[n][f]` is the content of a file of upgrade `n`: its URL and whether
it is whole. `pc` is where the job is:

| action | code |
| --- | --- |
| `create_cv_upgrade` | the call; the working variables |
| `SkipExisting`, `FetchFails`, `BeginWrite`, `FinishWrite`, `WriteFails` | one `download_file`, existing, not to be had, begun, ended, broken off (the docker image, tar.gz, zip and plain branches differ in where the bytes come from only) |
| `RaiseNotFound` | `cvutils.py:175` |
| `create_upgrade_info`, `DumpInfo`, `DumpFails` | `open(.., 'w')`, then `json.dump` |
| `link_cv_current`, `SymlinkCurrent` | unlink, then symlink |
| `link_cv_genesis`, `SymlinkGenesis` | the genesis link if it leads nowhere: unlink, then symlink |
| `Crash` | the job is killed, between any two of these |
| `rsync_cosmovisor` | the image's tree is copied over the volume's, all of it, or any of its files (rsync's status is not looked at) |
| `NewContainer` | the volume is mounted by the other kind of image |

`Installation` - what the install job promises to who looks at the result only: a
set of installed upgrades, an active one and a base, with one step for adding, one
for activating, and a failure that changes nothing. `CvLayout` implements it
(`ImplementsInstallation`) under the mapping at its end: `installedBar` are the
upgrades with a binary; `activeBar` is `current`, and the old version between the
unlink and the symlink, so that only a kill there loses it; `baseBar` is the
genesis link if it leads somewhere; `wantBar` and `statusBar` are the request and
how it ended. `HostedSpec` adds `Swap`, cosmovisor's own way to the next upgrade:
that is what a container implements.

`Bringup` (extends `CvLayout`) - `prepare`, command by command where the order
matters: the copy from the image, the choice, the install job of `CvLayout`
step by step, init, the signing state's way out and back, the restore and its
second choice, the genesis file; then cosmovisor and the daemon. A choice (`Choose`)
comes to a version, which is installed, to none, and `prepare` goes on without an
install, or to an exception, which ends `prepare`, or the restore if it was its second
choice; `choice` and `rechoice` remember which. `Plans` are the `upgrade-info.json`
files the chain may come to. `env.genesis_url` is given, empty, or not set, which
under `set -u` ends the script where a genesis file is missing. `Kill` stops it
anywhere, `Restart` starts the container again with its `/tmp`, `Replace` without
it and perhaps as the other image. The volume is all that stays.
A restore extracts in two steps, so that a kill finds part of the archive in
`data/`; a node over databases that are not whole is taken not to start.
`HaltForUpgrade` and `CosmovisorUpgrade` are the daemon and cosmovisor, whose
downloads are taken as atomic. `Due(h)` is the upgrade that executes block `h`, the
one with the greatest height at or below it; `ArchiveAssumption` says of a
restored archive that its `upgrade-info.json` names the upgrade of its last block or
the one due next, which is what a node of the same catalog leaves there.

`NodeConfig` - `app.toml` and `config.toml` over starts of one volume with
different environments. A file is a record of the keys that stand for each way of
editing, or has none of them (`NoApp`, `NoConfig`) after a kill between
`open(.., 'w')` and the dump; `Set` is an edit that does nothing to a missing key,
sed's and `modify_toml`'s alike. `phase` follows `prepare`: the two requests for
the trust values (answered with a block, without one, or not at all: a height of
`null` ends the subshell and leaves `SYNC_BLOCK_HEIGHT` empty, whereupon the hash that is
asked for is that of the latest block), `setpruning.py` (which raises where a number is a string), the
`config.toml` edits, `k8speers.py`, the `app.toml` edits; once "up",
`apply_statesync_config` of a state sync job may rewrite `config.toml`. `Restart`
ends the container anywhere and chooses the next environment.

`SnapshotJob` - `snapshot.py`, `statesync.main` and `cvcontrol.main` with the node
and supervisord. `data` is its height, whether it is whole, and the signed height;
`archives` is the snapshots directory, a function from names, and `latest` the
name with the last modification time; an archive records what was archived:
`intact` (the directory was whole), `file` (it is whole, torn or short) and `live` (the
node was running). An archive is begun and finished in two steps over the one it
replaces. A torn one breaks off and no extraction comes to its end; a short one is what
an exception in `compress_lz4` leaves, since the `with` blocks close the tar and the lz4
frame behind the members written so far: it is extracted without an error, and any part
of the directory may be missing then (`Unpacked`). `PruneFails` is a cosmprund that
stops halfway: `cosmprund.py` returns 0 whatever its status was, and the archive is made
of a database that is not whole. `Unanswered` is a call to supervisord that raises, which
`cvcontrol.py` swallows, or one after which supervisord kills a cosmovisor that is slow
to stop and leaves the daemon (`cosmovisor.conf` sets neither `stopwaitsecs` nor
`stopasgroup`): in either case the daemon runs on; `missed` remembers it. `Control` is a start, stop or
restart given by hand between jobs. Actions are named after the
statement of `main`, `create_snapshot`, `restore_snapshot` or `datadir_cleanup`
they stand for.

`Backup` - what the jobs promise to an operator: the directory has one holder (the
node, a job, nobody), only the holder changes it, a copy is made and a copy is
restored in one step, and a job that comes to its end hands a directory the node
can run on to the node. A create that breaks off may leave a copy of a part
(`BreakOffCopy`), of which a part is restored (`Restored`); a wipe, and pruning, may stop
halfway (`Wipe`). `SnapshotJob` implements it (`ImplementsBackup`) up to the
first call that supervisord does not answer: `holderBar` is the job in the places
where it counts on the node being stopped (`Working`); `dirBar` is `data`, but still whole
while cosmprund runs and still the empty one while an archive is extracted; `copiesBar`
are the archives whose file can be read to its end, the short ones as parts.

`NodeWatch` - two observers that have only the node's `/status`: `is_behind`, which
reads the node's status and then one pod's after the other while the chain goes
on (`ReadStatus`, `AskPod`, `NoneAhead`), and the loop of `unjaild.sh` (`Answer`,
`NoAnswer`, `Idle`, `Unjail`, `Sleep`) beside a chain that jails the validator,
perhaps for good (`barred`: tombstoned, or with too little of its own stake), gives it a
seat in the active set or takes it away (`seat`, `SeatChanges`; a full node has none),
includes its transaction and updates its set (`power`), each in a step of its own. The
watch reads none of this but the voting power in the view of its node (`seen`), which is
the chain's only while the node is at the top (`NodeSees`). `misled` remembers that a
round was told no power of a validator that is not jailed, or began with a transaction
still waiting.

`*Proofs` modules hold the theorems about the module they are named after;
`InstallationProofs` extends `CvLayoutProofs`, `VersionReplayProofs` extends
`VersionsProofs`, and `BringupProofs` extends `InstallationProofs` and
`VersionsProofs`. `MC*` modules give TLC its
instances.

Definitions introduced by a comment beginning "A slip" are no part of a
specification: each is the wrong form of the definition below it that a run must
tell from the right one.

## 3. Runs

| run | question | instance |
| --- | --- | --- |
| `version_replay` | do the lookups find the binary that executes the block? | all catalogs of at most 3 versions, heights 0 (missing) to 4 in any order but distinct |
| `cosmovisor_tree` | what do jobs, kills, failures and image copies leave, and is that an installation? | 2 upgrades, 1 library, 5 requests: with and without a library, URL, height; an image that holds one of the two |
| `torn_binary` | is "Successfully added binary" true? No | the same |
| `bringup` | does a start end with the right binary, the signing state and at all, and is a volume's life that of an installation? | 3 versions, blocks 1 to 3, 4 plans (a link, a URL, JSON without this architecture, JSON that cannot be parsed), 6 settings (plain, a reset, a restore, a restore without `GENESIS_URL`, a BINARY_VERSION, an unknown one with an empty `GENESIS_URL`), up to 3 kills or failures |
| `from_genesis` | is a start without settings one from genesis? Not after a kill | 1 setting, 1 fault |
| `generated_genesis` | is the genesis file the chain's? Not after a kill | 1 setting, 1 fault |
| `node_config` | are the settings in force those of the last start? | 5 environments, 2 unbonding times, 2 pods, a chain of 3 blocks, 2 kills |
| `peer_added` | is the node that serves a state sync added to the peers? No | the same |
| `snapshot_job` | are archives of a stopped, synced node; is a restore of what its archive holds; is the node left running; do node and jobs take turns? | 2 heights, 2 faults, one own and one downloaded archive |
| `restore_nothing` | does a restore without an archive return? No | the same |
| `restore_zero` | does status 0 mean restored? No | the same |
| `node_watch` | are verdicts and transactions right although their answers are old? | 1 pod, margin 1, blocks 0 to 2, 2 restarts, jailings, changes of the seat or lost answers, with and without a seat at first |

Why the bounds suffice. The lookups compare heights only with each other, so
three versions and every order of their heights meet every comparison.
The tree's files interact only within one upgrade and the links between two, so two
upgrades suffice to take a link from one to the other and back; jobs are not
bounded. In `Bringup` an upgrade, the version before it and the latest version
have to be three different ones; three faults allow a kill, a loss of `/tmp` and
a failing write in one history. In `NodeConfig` starts are not bounded, so any two
of the environments meet in either order; they differ in every setting that decides
something (a profile of each kind and none, overrides, numbers given as strings, a
cluster, an RPC server); the unbonding times are one just above a day, where the blocks kept for the day do
not suffice without the margin, and one well above; two kills empty both files. In `SnapshotJob` jobs are not bounded; two files
can be in either order and each can be torn or short; two faults allow a killed job
followed by a lost call, and pruning that fails in a job whose archive falls short.
In `NodeWatch` two blocks are more than the margin of one, so a pod that is asked late can
be ahead; a pod's answer is compared with the node's only, so that a second pod adds no
comparison (the proofs are for any number); two faults allow a jailing and a lost answer,
or a jailing and a lost seat; questions and rounds are not bounded. `MaxHeight`, `MaxTip`, `MaxFaults`, `Catalogs`, `Requests` and `Envs` are
the only bounds. Only runs of systems that really stop (a chain at the last
height, a container that is left alone) switch the deadlock check off: it is on
for every run but `version_replay` and those of `Bringup`.

What they show beyond passing:

* `JobProgress`, `LinksResolve`, `InstallDone`, `FailureKeepsCurrent`: the order of
  `create_cv_upgrade`'s writes is what protects the running version; every kill
  leaves `current` as it was, new, or missing, and `UpHasCurrent` shows that a
  missing one reaches supervisord only in a start that found no version at all: `main`
  then installs nothing and returns 0 (`initversion.py:120`), and cosmovisor falls back to
  the genesis binary. A BINARY_VERSION that no entry carries is such a start. `ImplementsInstallation` says the same of
  every step, and in one place; `ImplementsHostedInstallation` says it of the whole
  life of a volume, cosmovisor's swaps included.
* `FilesAsRequested` states its condition, `OneUrlPerFile`: existing files are
  never compared with the request. A version name reused for another
  `BINARY_URL` breaks it.
* `GenesisKept`, `InfoKept`: what was recorded first stays, across every rerun.
* `NextBlockVersionRight` and `RightBinaryAfterUpgrade`: once an upgrade was
  announced, the choice is right in every later container, whatever was killed, or it
  raises, since a plan cannot be parsed or its link does not answer. A first choice that
  raises ends `prepare`. The second choice of a restore does not: `entrypoint.sh:368`
  ignores it and supervisord starts the version chosen before, which is why the property
  asks that each choice came to a version and the last install job returned.
  Before that it is not (`from_genesis`), and a `BINARY_URL` or `BINARY_VERSION` that
  stays set overrules the announced upgrade (`initversion.py:92-97`), which is why the
  property asks for neither; the setting with a `BINARY_VERSION` is in the run.
* `SignStateKept`: `RESET_ON_START` either gives the validator its last signed
  height back or leaves the node unable to start, even if `/tmp` is lost in between.
* `ComesUp` holds for a chain's own image, which repairs torn files on each start; for
  the generic image it does not, which is why the property says `[]opt`. It asks as well
  that the recorded plan can be parsed (`Parsable`) and that `GENESIS_URL` is set: without
  either every prepare ends, and no later one does better. A link that does not answer is
  one of the failures, which `MaxFaults` bounds.
* `SettingsOfThisStart`, `PeersOfThisStart`, `TrustPaired`: nothing of an earlier
  environment survives in the modelled keys, under conditions the properties name.
  A key lost with an emptied file stays lost (`Nil`); where `setpruning.py` raises
  over a number given as a string, the pruning of the earlier start stays in force
  (`pruned`); a request without an answer, or answered without a block, leaves the
  trust values of two blocks (`trusted`), the one for the height as well: the hash of
  the latest block then lands beside the height of an earlier start.
* `RetainsUnbonding`: what the integer divisions of `setpruning.py` cut off is made up
  for by the margin.
* `ArchiveOfStoppedNode`, `ArchiveNotHalfSynced`, `DoneLeavesRunning` hold as long
  as supervisord answers, and say so (`missed`). That the archived directory is whole,
  `ArchiveNotHalfSynced` says up to the pruning only: after that it may not be
  (`PruneFails`). `RestoredIsWhole`: a torn archive is used by every later restore, but no
  such restore returns 0; a complete one is restored as it was; of a short one nothing is
  promised, and its restore does return 0. `ImplementsBackup`
  adds what no single one of them says: that between two of its steps nobody else
  changes the directory the job works on, so that each of the jobs, long as they are,
  has the effect of one step.
* `BehindIsReal`: the margin covers exactly the growth of the chain while the pods are
  asked. `FeeForJailedOnly` says when the watch wastes a fee: if it was told no power of a
  validator that is not jailed (outside the active set, a full node, a node below the
  top), which it takes for jailed (`unjaild.sh:30-32`), or if a round began before the
  last transaction took effect, which the sleep is there for (both `misled`); and that
  nothing else makes it, lost answers and restarts included. `GetsOut` needs no such
  condition, only that the validator may come back (`~barred`).

Findings, each with its run, are in `PROJECT.json`: a torn binary is accepted, an
interrupted first start loses "from genesis" and may keep a generated genesis
file, a restore without an archive raises with the node stopped and the data
gone, a restore that failed returns 0, and a state sync never adds the node that
serves it to the peers (`statesync.py:94` merges the existing value with itself).

## 4. Fairness

`CvLayout` has none: that a job left alone ends is proved without (`JobsAreFinite`).
`Bringup`: `WF_allvars(Prepare)`, the script goes on and a container that ended is
started again. The second half is an assumption on the deployment: neither the
README nor `docker-compose.yml` of the repository sets a restart policy, and
`ComesUp` speaks of containers that are run with one. No fairness of the
node, kills or failures, whose number `MaxFaults` bounds. `SnapshotJob`:
`WF_vars(Job)`, and `WF_vars(Sync)`, a running node with peers catches up, without
which `wait_for_sync` promises nothing. `NodeWatch`: `WF_vars(Watch)`, the loop
goes on (`unjaild.sh` never exits by itself), `WF_vars(NodeFollows \/ CaughtUp)` and
`WF_vars(NodeSees)`, the node catches up and then has the chain's validator set, and the chain's own progress one by one: a jail time passes
(`JailTimePasses`), a transaction that is sent is included (`Include`) and the set is
updated (`UpdateSet`). `NodeConfig`, `VersionReplay` and `CvLayout` have safety
properties only and no fairness.

## 5. Proofs

Every theorem is for any value of the constants that satisfies the named
assumptions of its module: sentinels differ from values, catalogs, images and
environments are well-formed. TLC evaluates them in the runs.

**The tree** (`CvLayoutProofs`; `LayoutAssumption`, `ImageAssumption`).
`TypeCorrect` by one step per action. `LayoutInv`, the inductive invariant, is
`TypeOK`, `JobProgress`, `LinksResolve`, `InstallDone` and `FailureKeepsCurrent`:
`InstallDone` is not inductive alone, since that the job's last step finishes
everything follows only from what `JobProgress` says of every earlier step (the
files before `next` are there, past the test the binary is, `current` is untouched
until the unlink). `LayoutStep` splits the steps into those before the links
(`FetchStep`), the links (`LinkStep`) and the steps while no job runs (`IdleStep`,
where `FilesStay` says that an image copy removes nothing). `LinksAlwaysResolve`,
`InstallStaysDone`, `FailureIsHarmless`, `ProgressInvariant` and the action
properties `GenesisIsKept` and `InfoIsKept` follow; `InstalledAsRequested` is a second
induction over the URLs (`UrlsStep`), under `OneUrlPerFile`. `JobsAreFinite`:
`Remaining`, the stages a job has before it (`Stage`) and two
steps for each file, is a natural number that every step of the job lowers.

**The refinement** (`InstallationProofs`): `Refinement`, `Spec =>
ImplementsInstallation`. Initial states map to initial states, and each action of
`CvLayout` to the action of `Installation` it is or to a stutter; `LayoutInv` gives
what the abstract guards need, for instance that a job about to return ok has the
binary and the link. The lemmas assume `TypeOK` and `JobProgress` only, which hold in a
container too: `HostedRefinement` (`BringupProofs`) uses them again for `BringupSpec =>
ImplementsHostedInstallation`, where cosmovisor's upgrade is the one step of its own
(`UpgradeMaps`).

**The lookups** (`VersionsProofs`): `AtHeight`, `ByLabel` and `Chosen` say what the
lookups return for a catalog of any length (`Numbered`), `Chosen` by the six cases in which
`main` ends, the two without a version and the two exceptions included, from `Least` and
`Greatest`, which get the element a `CHOOSE` takes from the well-foundedness of the
naturals. `VersionReplayProofs` uses them with `ReplayInv`: every block was executed
by its entry (`EntryAt`), the binary that runs executed the last block or was
swapped in for the next, and an announced upgrade that is not swapped in is the
next block's. `StatusIsRight`, `NextBlockIsRight` and `LatestIsRight` follow, from
`CatalogAssumption`: names and heights (but 0, a missing one) of a catalog are
distinct and its first height is at most 1.

**The container** (`BringupProofs`; `BringupAssumption`, `ArchiveAssumption`). `TreeSteps`
relates every step of the container to one of `CvLayout`, so that `TypeStep` and `LayoutStep` carry over; the
one that is none is cosmovisor's own upgrade (`UpgradeStep`). Since it sets
`current` outside any job, `LayoutInv` is not invariant here: `TreeInv` claims
`InstallDone` and `FailureKeepsCurrent` only while prepare waits for a job (`JobInv`),
which is when it uses them, and that `current` is there in every phase after the
first install (`Fitted`), unless there was no version to install. `BringupTypeCorrect` and `UpAlwaysHasCurrent` follow.
`SigningIsKept` is by `SignInv`: a key that has signed has its genesis file, so init
does not make a fresh state; what `data/` and the backup hold is never behind; the
backup is used up before the node can sign again.

`RightBinaryRuns` relates `upgrade-info.json`, the height in `data/`, the request and the
link. Its invariant has four parts beside `TreeInv`. `VersionInv`: a start that does not
restore chooses once. `RestoreInv`: a restore starts over
a directory without an announced upgrade, and chooses again over what the archive holds.
`DaemonInv`: a node that runs is what `current` leads to, over whole databases, or the
genesis binary after a start without a version.
`ChoiceInv`, where nothing overrides the choice: a job in progress was asked for the
upgrade recorded in `data/`; that upgrade is the one due for the last block or for the next
(`Announced`); and in every phase after the install `current` leads to it, or still to the
binary it replaces (`LinkFollows`). The last two hold where each choice of the start
came to a version (`Versioned`), and in a start that restores only once
the restore is done (`Trusted`): a failed one goes on over what it left. What
`main_version` returns comes from `VersionsProofs`, `Due` is defined by the greatest height
as `AtHeight` has it, and `ArchiveAssumption` is needed where an `upgrade-info.json` comes
in from elsewhere.

`LinksResolveInContainers`, `GenesisIsKeptInContainers` and
`InstalledAsRequestedInContainers` carry the tree's own theorems over to containers;
cosmovisor's download is the step they add. `PrepareMovesOn` is the safety half of
`ComesUp`: each step of prepare goes to a phase that is further on (`Ahead`) or lowers
the `Remaining` of the job it waits for, so no loop keeps a prepare from its end.

**Settings** (`NodeConfigProofs`; `ConfigAssumption`, where four mean block times fit into a
day). `ConfigInv` says phase by phase what is settled already, in the file or in the
document that is about to replace it (`PruningInv`, `IndexerInv`, `PeersInv`,
`TrustInv`): a rewrite in progress carries the old values across a step that has
emptied the file. `SettingsHold`, `PeersHold`, `TrustIsPaired` and `RetentionCovers`
follow, the last by the arithmetic of the two divisions.

**Snapshots** (`SnapshotJobProofs`; `SnapshotAssumption`). `SnapshotInv` adds to the properties where each
action's job can be (`JobPlaces`), that nobody starts the node between the stop and the
start of a job (`StopHolds`), that a running node's directory is whole and not empty once
it has caught up (`RunsWell`), and what a restore on its way to 0 has done
(`RestoredSoFar`: read an archive that is not torn, and unpacked all of a whole one).
`ArchivesOfStoppedNodes`, `ArchivesAreSynced`, `DoneMeansRunning`,
`RestoresAreWhole` and `SignStateIsKept` follow. `BackupRefinement` is by a further
invariant (`WorkSoFar`: the archive in progress is of the directory as it is, whole or
not, and a restore extracts into one that was emptied) and one lemma for each kind of step:
leases, returns, ends, and what a create, a restore and the node do.

**The observers** (`NodeWatchProofs`; `WatchAssumption`). `WatchInv` adds that a verdict stands on a pod more than
the margin ahead (`Accused`) and that, while nothing misled the watch, a waiting
transaction, and an answer that will lead to one, is a jailed validator's
(`NeedIsReal`). `AccusationIsReal` and `NoFeeWasted` follow.

Only model-checked: the liveness properties `ComesUp`, `WaitEnds` and
`GetsOut`, which are out of the prover's reach, as is anything with `ENABLED` (what
there is of them without fairness, `JobsAreFinite` and `PrepareMovesOn`, is proved); and
the runs that end in a violation.

## 6. Not modelled

* `config.toml` and `app.toml` key by key: one key stands for each way of editing.
  `client.toml`, trust values and heights given directly in the environment, a
  torn prefix of a toml file (emptied and complete are), a `sed` that fails.
* The node and validator keys, the address book, the wasm files and `entrypoint.d`:
  single writes of files that nothing modelled reads.
* In `Bringup` the environment is the same on every start; changes of it between
  starts are `NodeConfig`'s.
* `initnode.py` and `get_chain_json_recommended_version` (called by nothing; nor is
  `is_behind`, which is modelled for what it promises), the CI and the catalogs
  (data), where the catalog is read from and its download.
* `current` or `genesis` as a directory instead of a link (`cvutils.py:205-207`,
  `:217-219`): nothing in the repository makes one, and `link_cv_genesis` is called only
  where there is neither (`cvutils.py:173`).
* A version without a name (an `upgrade-info.json` without one), and a custom
  `info` text that is no URL: the download fails, as any may.
* Inside a download: archives, mirrors and docker layers; only that the file is
  absent, begun or whole afterwards. The wasm archive of a snapshot, which is
  written by the same steps as the first.
* An unjail transaction that an operator sends beside the watch.
* Two jobs at once. Nothing in the code prevents them; the models run one.
* Entries of one height in a catalog: which one is meant is not for the code to say.

## 7. Plan

1. Done: every module, run and proof named above.
2. Two jobs at once, as a second instance of `SnapshotJob`'s job over the same
   store: what of `Backup` is lost if an operator starts one beside another.
3. `NodeConfig` and `Bringup` composed, so that a change of `RESET_ON_START` or
   `RESTORE_SNAPSHOT` between two starts is part of one history.
4. The safety halves of `WaitEnds` and `GetsOut`, as `PrepareMovesOn` is of `ComesUp`.
