----------------------------- MODULE SnapshotJob -----------------------------
(***************************************************************************)
(* bin/snapshot.py create and restore, with bin/statesync.py for a create  *)
(* that syncs first, run beside the node in a container that is up: the    *)
(* job asks supervisord over bin/cvcontrol.py to stop and start the        *)
(* cosmovisor process, whose files it archives or replaces in between.  A  *)
(* call that supervisord does not answer is logged and ignored, and what   *)
(* cosmprund returns is not looked at.  The job is killed anywhere.  One   *)
(* job runs at a time; nothing in the code sees to that.  Backup is what   *)
(* all of this amounts to.                                                 *)
(*                                                                         *)
(* Left out: the wasm archive written after the snapshot, the same way,    *)
(* and config.toml as statesync.py rewrites it (NodeConfig).               *)
(* External: supervisord, the node, the network it syncs from, cosmprund.  *)
(***************************************************************************)
EXTENDS Naturals

CONSTANTS
    Nil,
    Ids,          \* the identifiers get_block_height finds
    Url,          \* the name of a snapshot that is downloaded
    Unsupported,  \* a URL whose file extract_file does not know
    UrlHeight,    \* the height of the snapshot at Url
    MaxHeight,    \* bound on the chain
    MaxFaults     \* bound on kills, failures and lost calls

VARIABLES
    node,         \* supervisord's cosmovisor process: "stopped" or "running"
    catching_up,  \* what its /status answers
    data,         \* the data directory
    archives,     \* the snapshots directory, by name; nothing deletes a file
    latest,       \* the name in it with the last mtime
    pc,           \* where the job is, "idle": there is none
    action,       \* "create", "statesync": create --statesync, "restore"
    source,       \* the file restored: Nil is the latest of archives
    result,       \* how the last job ended; "0" is its exit status
    missed,       \* history: a call of a job has had no effect on the daemon
    faults        \* kills, failures and lost calls so far

Names == Ids \union {Url}

\* A signed height, Nil: the file is missing.
Signed == 0..MaxHeight \union {Nil}

Data == [height : 0..MaxHeight, whole : BOOLEAN, pv : Signed]

\* "whole", "torn": it cannot be read to its end, or "short": it can, and ends
\* before all the members it should have.
Files == {"whole", "torn", "short"}

\* Of what: its height, its last signed height, and if it was whole; the file;
\* history: the node ran meanwhile.
Archive ==
    [ height : 0..MaxHeight, pv : Signed, intact : BOOLEAN, file : Files, live : BOOLEAN ]

\* What Backup sees of it.
Copied == [height : 0..MaxHeight, whole : BOOLEAN, pv : Signed, part : BOOLEAN]

ASSUME SnapshotAssumption ==
    /\ MaxHeight \in Nat /\ MaxFaults \in Nat
    /\ UrlHeight \in 1..MaxHeight
    /\ Url \notin Ids /\ Unsupported \notin Names
    /\ Nil \notin Names \union {Unsupported} /\ Nil \notin Nat /\ Nil \notin Archive \union Data \union Copied

\* Where main is, in one of the calls it makes.
Places ==
    { "idle", "params", "sync_stop", "clean", "cleaning", "sync_start", "wait",
      "stop", "prune", "pruning", "archive", "archiving",
      "halt", "reset", "state", "find", "downloading", "extract", "extracting",
      "initversion", "start" }

stored == <<archives, latest>>
store == <<data, stored>>
process == <<node, catching_up>>
asked == <<action, source>>
vars == <<node, catching_up, data, archives, latest, pc, action, source, result, missed, faults>>

Init ==
    /\ node = "running"
    /\ catching_up = FALSE
    /\ data = [height |-> 1, whole |-> TRUE, pv |-> 1]
    /\ archives = [n \in Names |-> Nil] /\ latest = Nil
    /\ pc = "idle"
    /\ action = "create"
    /\ source = Nil
    /\ result = "none"
    /\ missed = FALSE
    /\ faults = 0

Fault == faults < MaxFaults /\ faults' = faults + 1

At(here) == pc = here

Goto(there) == pc' = there /\ result' = result

Ends(how) == pc' = "idle" /\ result' = how

\* The daemon exits at once on a damaged database or without its signing state.
Bootable == data.whole /\ data.pv # Nil

-----------------------------------------------------------------------------
(* The node *)

\* State sync or block sync up to the network's height.
Sync ==
    /\ node = "running" /\ catching_up /\ Bootable
    /\ catching_up' = FALSE
    /\ \E h \in data.height..MaxHeight : h > 0 /\ data' = [data EXCEPT !.height = h]
    /\ UNCHANGED <<node, stored, pc, asked, result, missed, faults>>

\* Nothing at or below the last signed height is signed.
Commit ==
    /\ node = "running" /\ ~catching_up /\ Bootable
    /\ data.height < MaxHeight
    /\ data' = [data EXCEPT !.height = @ + 1,
                            !.pv = IF data.height + 1 > @ THEN data.height + 1 ELSE @]
    /\ UNCHANGED <<process, stored, pc, asked, result, missed, faults>>

\* autorestart: the daemon dies and supervisord starts it again.
NodeRestart ==
    /\ node = "running"
    /\ Fault
    /\ catching_up' = TRUE
    /\ UNCHANGED <<node, store, pc, asked, result, missed>>

-----------------------------------------------------------------------------
(* bin/cvcontrol.py *)

stop_process ==
    /\ node' = "stopped"
    /\ UNCHANGED <<catching_up, missed, faults>>

\* Of a running process supervisord answers with a fault, which is ignored too.
start_process ==
    /\ IF node = "stopped" /\ Bootable
       THEN (node' = "running" /\ catching_up' = TRUE)
       ELSE UNCHANGED process
    /\ UNCHANGED <<missed, faults>>

\* The fault of stopping a stopped process skips the start.
restart_process ==
    /\ IF node = "running" /\ Bootable
       THEN node' = "running" /\ catching_up' = TRUE
       ELSE node' = "stopped" /\ catching_up' = catching_up
    /\ UNCHANGED <<missed, faults>>

\* supervisord does not answer; or it kills a cosmovisor that is slow to stop
\* and not the daemon under it (stopasgroup is not set).
Unanswered ==
    /\ Fault
    /\ missed' = TRUE
    /\ UNCHANGED process

\* cvcontrol.py as a command of its own.
Control ==
    /\ At("idle")
    /\ stop_process \/ start_process \/ restart_process
    /\ Ends("none")
    /\ UNCHANGED <<store, asked>>

-----------------------------------------------------------------------------
(* statesync.main; what it returns is not looked at *)

StartCreate(sync) ==
    /\ At("idle")
    /\ action' = IF sync THEN "statesync" ELSE "create"
    /\ pc' = IF sync THEN "params" ELSE "stop"
    /\ result' = "none"
    /\ UNCHANGED <<process, store, source, missed, faults>>

\* An archive node, an RPC server that does not answer, a config.toml that
\* cannot be changed: the directory is left alone.
SyncRefused ==
    /\ At("params") /\ Goto("wait")
    /\ UNCHANGED <<process, store, asked, missed, faults>>

SyncConfigured ==
    /\ At("params") /\ Goto("sync_stop")
    /\ UNCHANGED <<process, store, asked, missed, faults>>

SyncStop ==
    /\ At("sync_stop") /\ Goto("clean")
    /\ stop_process \/ Unanswered
    /\ UNCHANGED <<store, asked>>

\* datadir_cleanup deletes one item after the other.
BeginClean ==
    /\ At("clean") /\ Goto("cleaning")
    /\ data' = [data EXCEPT !.whole = FALSE]
    /\ UNCHANGED <<process, stored, asked, missed, faults>>

\* A slip: priv_validator_state.json is missing from keep_data_files.
CleanAll ==
    /\ At("cleaning") /\ Goto("sync_start")
    /\ data' = [height |-> 0, whole |-> TRUE, pv |-> Nil]
    /\ UNCHANGED <<process, stored, asked, missed, faults>>

\* All but wasm and priv_validator_state.json.
FinishClean ==
    /\ At("cleaning") /\ Goto("sync_start")
    /\ data' = [data EXCEPT !.height = 0, !.whole = TRUE]
    /\ UNCHANGED <<process, stored, asked, missed, faults>>

\* What cannot be deleted is logged and left.
CleanIncomplete ==
    /\ At("cleaning") /\ Goto("sync_start")
    /\ Fault
    /\ UNCHANGED <<process, store, asked, missed>>

SyncStart ==
    /\ At("sync_start") /\ Goto("wait")
    /\ start_process \/ Unanswered
    /\ UNCHANGED <<store, asked>>

\* max_retries is None: any other answer, and no answer, means another round.
WaitOn ==
    /\ At("wait")
    /\ node = "stopped" \/ catching_up
    /\ UNCHANGED vars

\* Slips: the answer is not looked at; it is negated.
wait_once ==
    /\ At("wait") /\ Goto("stop")
    /\ UNCHANGED <<process, store, asked, missed, faults>>

wait_for_catching_up ==
    /\ At("wait") /\ Goto("stop")
    /\ node = "running" /\ catching_up
    /\ UNCHANGED <<process, store, asked, missed, faults>>

wait_for_sync ==
    /\ At("wait") /\ Goto("stop")
    /\ node = "running" /\ ~catching_up
    /\ UNCHANGED <<process, store, asked, missed, faults>>

-----------------------------------------------------------------------------
(* create_snapshot *)

\* A slip: the node is not stopped.
NoStopForArchive ==
    /\ At("stop") /\ Goto("prune")
    /\ UNCHANGED <<process, store, asked, missed, faults>>

StopForArchive ==
    /\ At("stop") /\ Goto("prune")
    /\ stop_process \/ Unanswered
    /\ UNCHANGED <<store, asked>>

\* cosmprund is not enabled, or fails, on a database in use for one; its
\* status is not looked at.
NoPrune ==
    /\ At("prune") /\ Goto("archive")
    /\ UNCHANGED <<process, store, asked, missed, faults>>

\* cosmprund.main, which refuses an archive node only as a command of its own.
BeginPrune ==
    /\ At("prune") /\ Goto("pruning")
    /\ node = "stopped" /\ data.whole /\ data.height > 0
    /\ data' = [data EXCEPT !.whole = FALSE]
    /\ UNCHANGED <<process, stored, asked, missed, faults>>

FinishPrune ==
    /\ At("pruning") /\ Goto("archive")
    /\ data' = [data EXCEPT !.whole = TRUE]
    /\ UNCHANGED <<process, stored, asked, missed, faults>>

\* cosmprund stops halfway, out of disk or killed; main returns 0 all the same.
PruneFails ==
    /\ At("pruning") /\ Goto("archive")
    /\ Fault
    /\ UNCHANGED <<process, store, asked, missed>>

\* What is archived while the file is being written.
Begun ==
    [ height |-> data.height, pv |-> data.pv, intact |-> data.whole, file |-> "torn",
      live |-> node = "running" ]

\* A slip: an archive that is overwritten does not become the latest.
BeginArchiveBehind ==
    /\ At("archive") /\ Goto("archiving")
    /\ \E id \in Ids : archives' = [archives EXCEPT ![id] = Begun]
    /\ UNCHANGED <<process, data, latest, asked, missed, faults>>

\* The identifier is the height of the latest state sync snapshot in data/, the
\* same until the node takes another, or the time: an archive of that name is
\* overwritten in place and becomes the latest.
BeginArchive ==
    /\ At("archive") /\ Goto("archiving")
    /\ \E id \in Ids : archives' = [archives EXCEPT ![id] = Begun] /\ latest' = id
    /\ UNCHANGED <<process, data, asked, missed, faults>>

Ended == [archives[latest] EXCEPT !.file = "whole", !.live = @ \/ node = "running"]

FinishArchive ==
    /\ At("archiving") /\ Goto("start")
    /\ archives' = [archives EXCEPT ![latest] = Ended]
    /\ UNCHANGED <<process, data, latest, asked, missed, faults>>

\* A file that cannot be written to any more is torn.  After any other
\* exception, of a member that cannot be opened or of a Ctrl-C, the two with
\* blocks close the tar and the lz4 frame behind the members written so far.
ArchiveFails ==
    /\ At("archiving") /\ Ends("raised")
    /\ Fault
    /\ \E f \in {"torn", "short"} : archives' = [archives EXCEPT ![latest].file = f]
    /\ UNCHANGED <<process, data, latest, asked, missed>>

-----------------------------------------------------------------------------
(* restore_snapshot *)

StartRestore(from) ==
    /\ At("idle")
    /\ action' = "restore" /\ source' = from
    /\ pc' = "halt" /\ result' = "none"
    /\ UNCHANGED <<process, store, missed, faults>>

StopForRestore ==
    /\ At("halt") /\ Goto("reset")
    /\ stop_process \/ Unanswered
    /\ UNCHANGED <<store, asked>>

\* unsafe_reset_all: the directory, then a new signing state.
RemoveData ==
    /\ At("reset") /\ Goto("state")
    /\ data' = [height |-> 0, whole |-> TRUE, pv |-> Nil]
    /\ UNCHANGED <<process, stored, asked, missed, faults>>

WriteState ==
    /\ At("state") /\ Goto("find")
    /\ data' = [data EXCEPT !.pv = 0]
    /\ UNCHANGED <<process, stored, asked, missed, faults>>

Stored(name) == archives[name] # Nil

\* os.path.join(snapshots_dir, None), before the test for None.
NoSnapshot ==
    /\ At("find") /\ Ends("raised")
    /\ source = Nil /\ latest = Nil
    /\ UNCHANGED <<process, store, asked, missed, faults>>

FindSnapshot ==
    /\ At("find") /\ Goto("extract")
    /\ \/ source = Nil /\ latest # Nil
       \/ source = Url /\ Stored(Url)
    /\ UNCHANGED <<process, store, asked, missed, faults>>

\* Fetched into a temporary directory, then copied into place.
BeginDownload ==
    /\ At("find") /\ Goto("downloading")
    /\ source = Url /\ ~Stored(Url)
    /\ archives' = [archives EXCEPT ![Url] =
                      [ height |-> UrlHeight, pv |-> 0, intact |-> TRUE,
                        file |-> "torn", live |-> FALSE ]]
    /\ latest' = Url
    /\ UNCHANGED <<process, data, asked, missed, faults>>

FinishDownload ==
    /\ At("downloading") /\ Goto("extract")
    /\ archives' = [archives EXCEPT ![Url].file = "whole"]
    /\ UNCHANGED <<process, data, latest, asked, missed, faults>>

\* aria2c's status is not looked at; there is nothing to copy, or no room.
DownloadFails ==
    /\ \/ At("downloading")
       \/ At("find") /\ source = Url /\ ~Stored(Url)
    /\ Ends("raised")
    /\ Fault
    /\ UNCHANGED <<process, store, asked, missed>>

\* extract_file returns False and restore_snapshot 1, which main drops.
ExtractUnsupported ==
    /\ At("find") /\ Goto("start")
    /\ source = Unsupported
    /\ UNCHANGED <<process, store, asked, missed, faults>>

Chosen == archives[IF source = Nil THEN latest ELSE source]

BeginExtract ==
    /\ At("extract") /\ Goto("extracting")
    /\ data' = [data EXCEPT !.whole = FALSE]
    /\ UNCHANGED <<process, stored, asked, missed, faults>>

\* A signing state that is not in the archive stays the one of the reset.
Over(pv) == IF pv = Nil THEN data.pv ELSE pv

\* Of a short archive any of its members may be missing: all of the database,
\* a part of it, or only what lies beside it.
Unpacked ==
    IF Chosen.file = "whole"
    THEN {[height |-> Chosen.height, whole |-> Chosen.intact, pv |-> Over(Chosen.pv)]}
    ELSE { d \in [height : {0, Chosen.height}, whole : BOOLEAN, pv : {data.pv, Over(Chosen.pv)}] :
             d.whole /\ d.height > 0 => Chosen.intact }

\* extractall takes the end of a short archive for the end of the archive.
FinishExtract ==
    /\ At("extracting") /\ Goto("initversion")
    /\ Chosen.file # "torn"
    /\ data' \in Unpacked
    /\ UNCHANGED <<process, stored, asked, missed, faults>>

\* A slip: what cannot be extracted is passed over.
ExtractPassedOver ==
    /\ At("extracting") /\ Goto("initversion")
    /\ IF Chosen.file = "torn" THEN UNCHANGED faults ELSE Fault
    /\ UNCHANGED <<process, store, asked, missed>>

\* The end of a torn archive is missed after all before it has been extracted.
ExtractFails ==
    /\ At("extracting") /\ Ends("raised")
    /\ IF Chosen.file = "torn" THEN UNCHANGED faults ELSE Fault
    /\ UNCHANGED <<process, store, asked, missed>>

\* initversion.main: Versions and CvLayout model it.
InitVersion ==
    /\ At("initversion")
    /\ \/ Goto("start") /\ UNCHANGED faults
       \/ Ends("raised") /\ Fault
    /\ UNCHANGED <<process, store, asked, missed>>

-----------------------------------------------------------------------------

\* A slip: only a create starts the node again.
StartAfterCreate ==
    /\ At("start") /\ Ends("0")
    /\ IF action = "restore" THEN UNCHANGED <<process, missed, faults>>
       ELSE start_process \/ Unanswered
    /\ UNCHANGED <<store, asked>>

\* The end of main, of both actions.
StartNode ==
    /\ At("start") /\ Ends("0")
    /\ start_process \/ Unanswered
    /\ UNCHANGED <<store, asked>>

Kill ==
    /\ ~At("idle") /\ Ends("killed")
    /\ Fault
    /\ UNCHANGED <<process, store, asked, missed>>

Job ==
    \/ SyncRefused \/ SyncConfigured \/ SyncStop \/ BeginClean \/ FinishClean
    \/ CleanIncomplete \/ SyncStart \/ WaitOn \/ wait_for_sync
    \/ StopForArchive \/ NoPrune \/ BeginPrune \/ FinishPrune \/ PruneFails
    \/ BeginArchive \/ FinishArchive \/ ArchiveFails
    \/ StopForRestore \/ RemoveData \/ WriteState \/ NoSnapshot \/ FindSnapshot
    \/ BeginDownload \/ FinishDownload \/ DownloadFails \/ ExtractUnsupported
    \/ BeginExtract \/ FinishExtract \/ ExtractFails \/ InitVersion \/ StartNode

Next ==
    \/ \E sync \in BOOLEAN : StartCreate(sync)
    \/ \E from \in {Nil, Url, Unsupported} : StartRestore(from)
    \/ Job \/ Kill \/ Control
    \/ Sync \/ Commit \/ NodeRestart

\* The job's process runs, and a node with peers catches up.
Spec == Init /\ [][Next]_vars /\ WF_vars(Job) /\ WF_vars(Sync)

-----------------------------------------------------------------------------
(* Properties *)

StoreType ==
    /\ data \in Data
    /\ archives \in [Names -> Archive \union {Nil}]
    /\ IF latest = Nil THEN \A n \in Names : archives[n] = Nil
       ELSE latest \in Names /\ archives[latest] # Nil

ProcessType ==
    /\ node \in {"stopped", "running"}
    /\ catching_up \in BOOLEAN /\ missed \in BOOLEAN
    /\ faults \in 0..MaxFaults

JobType ==
    /\ pc \in Places
    /\ action \in {"create", "statesync", "restore"}
    /\ source \in {Nil, Url, Unsupported}
    /\ result \in {"none", "0", "raised", "killed"}

\* Every variable has its type, and the latest archive is there.
TypeOK == StoreType /\ ProcessType /\ JobType

\* While supervisord answers, no archive is written of a database a running
\* node writes to (snapshot.py:306): not after a killed job, and not because
\* supervisord restarts a daemon that died.
ArchiveOfStoppedNode ==
    ~missed => \A n \in Names : archives[n] # Nil => ~archives[n].live

\* While supervisord answers, create --statesync archives a directory that has
\* been synced, and until pruning touches it one that is whole, although it
\* ignores whether statesync.main succeeded (snapshot.py:303-306) and the
\* daemon may restart during and after the sync.
ArchiveNotHalfSynced ==
    ~missed /\ action = "statesync" =>
       /\ pc \in {"stop", "prune", "pruning", "archive", "archiving"} => data.height > 0
       /\ pc \in {"stop", "prune"} => data.whole

\* Creating a snapshot never costs the node its signing state: across
\* everything a create does, wipes for a state sync included
\* (statesync.py:119), the last signed height never goes back.
CreateKeepsSignState ==
    [][pc # "idle" /\ action # "restore" /\ data.pv # Nil =>
          data'.pv # Nil /\ data'.pv >= data.pv]_vars

\* A job that returned has the node running again, whichever action it was and
\* whatever state the jobs before it left it in, if supervisord answers and
\* the node can run (snapshot.py:315).
DoneLeavesRunning ==
    pc = "idle" /\ result = "0" /\ ~missed /\ Bootable => node = "running"

\* A restore that returned 0 has read its archive to the end: one torn by a
\* kill, a full disk or a broken download is used again by later restores
\* (snapshot.py:239, 210), but never taken for restored, and a complete one is
\* restored as it was.  Nothing is promised of one that an exception cut short
\* (snapshot.py:74-83), which restores without an error.
RestoredIsWhole ==
    pc = "idle" /\ action = "restore" /\ result = "0" /\ source # Unsupported =>
       /\ Chosen.file # "torn"
       /\ Chosen.file = "whole" => data.whole = Chosen.intact

\* The wait for a running node ends, and so does the job after it
\* (snapshot.py:279-290).
WaitEnds == (pc = "wait" /\ node = "running" /\ Bootable) ~> (pc = "idle")

\* snapshot.py:220, "0 if the snapshot was successfully restored, 1 otherwise":
\* restoring from an empty snapshots directory returns.  It raises, and the
\* node, stopped before, is never started.
RestoreReturns ==
    pc = "idle" /\ action = "restore" /\ source = Nil /\ latest = Nil => result # "raised"

\* snapshot.py:298, "0 if the snapshot was successfully created or restored, 1
\* otherwise": a restore that returns 0 has restored something.
ZeroMeansRestored ==
    pc = "idle" /\ action = "restore" /\ result = "0" => data.height > 0

-----------------------------------------------------------------------------
(* What an operator sees *)

\* Where the job counts on the node being stopped.
Working ==
    { "clean", "cleaning", "sync_start", "prune", "pruning", "archive", "archiving",
      "reset", "state", "find", "downloading", "extract", "extracting", "initversion", "start" }

holderBar ==
    IF pc \in Working THEN IF action = "restore" THEN "restore" ELSE "create"
    ELSE IF node = "running" THEN "node" ELSE "nobody"

\* cosmprund leaves the contents, and an extraction under way is not there yet.
dirBar == IF pc \in {"pruning", "extracting"} THEN [data EXCEPT !.whole = TRUE] ELSE data

copiesBar ==
    [ n \in Names |->
        IF archives[n] = Nil \/ archives[n].file = "torn" THEN Nil
        ELSE [ height |-> archives[n].height, whole |-> archives[n].intact,
               pv |-> archives[n].pv, part |-> archives[n].file = "short" ] ]

Abstract ==
    INSTANCE Backup WITH
        Heights <- 0..MaxHeight, holder <- holderBar, dir <- dirBar, copies <- copiesBar

\* Up to the first call that supervisord does not answer, jobs of any length,
\* killed anywhere, and the node between them do what Backup allows: only the
\* holder changes the directory, a copy is of the directory at one moment, or
\* a part of it if the create that made it broke off, a restore puts a copy in
\* its place, and a job that ends by itself hands a directory the node can run
\* on to the node (snapshot.py:293-318).
ImplementsBackup == Abstract!Init /\ [][missed' \/ Abstract!Next]_(Abstract!vars)

=============================================================================
