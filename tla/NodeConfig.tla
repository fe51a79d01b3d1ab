----------------------------- MODULE NodeConfig -----------------------------
(***************************************************************************)
(* app.toml and config.toml: what prepare of bin/entrypoint.sh makes of    *)
(* them on every start (bin/setpruning.py, modify_config_toml,             *)
(* bin/k8speers.py, modify_app_toml, in this order), and bin/statesync.py  *)
(* while the container is up.  The files outlive the container, the        *)
(* environment may be another one on the next start, and every edit        *)
(* changes keys that are there: none of them writes a file anew.           *)
(*                                                                         *)
(* A Python script loads a file, opens it for writing, which empties it,   *)
(* and dumps what it loaded: killed in between, it leaves an empty file.   *)
(* sed -i renames a finished copy into place, so an edit is a step.        *)
(*                                                                         *)
(* Of the many keys, those stand here that decide something, one for each  *)
(* way of editing: computed and overridden (pruning, min-retain-blocks,    *)
(* indexer), reset on every start (persistent_peers), and set only when    *)
(* the environment has it (halt-height, enable, rpc_servers, the trust     *)
(* values, whose own environment variables are left out).                  *)
(*                                                                         *)
(* External: curl, the RPC server (a block's hash is its height here), the *)
(* pods of the cluster and their DNS.                                      *)
(***************************************************************************)
EXTENDS Integers

CONSTANTS
    Nil,            \* no value: a variable not set, a key that is missing
    Text,           \* a number given in the environment, which is a string
    NoHash,         \* the trust_hash init writes
    Null,           \* what jq prints for an answer without a hash
    Envs,           \* the environments the container is started with
    Pods,           \* the peers a cluster may answer with
    RpcPeer,        \* the peer behind STATE_SYNC_RPC
    Unbondings,     \* the chain's possible unbonding times
    MeanBlockTime,  \* get_ctx's default, 6 seconds
    Day,            \* 86400 seconds
    Lookback,       \* TRUST_LOOKBACK, and get_ctx's snapshot_interval
    MaxTip,         \* bound on the chain
    MaxFaults       \* bound on kills

Peers == (UNION {e.peers : e \in Envs}) \union Pods

\* The two files with all their keys, and emptied.
App ==
    [ pruning : {"default", "nothing", "custom"} \union ({e.strategy : e \in Envs} \ {Nil}),
      min_retain_blocks : Nat, halt_height : Nat ]

NoApp == [pruning |-> Nil, min_retain_blocks |-> Nil, halt_height |-> Nil]

Config ==
    [ persistent_peers : SUBSET Peers,
      indexer : {"kv", "null"} \union ({e.indexer : e \in Envs} \ {Nil}),
      enable : {"true", "false"}, rpc_servers : {"none", "env", "job"},
      trust_height : Int, trust_hash : Nat \union {NoHash, Null} ]

NoConfig ==
    [ persistent_peers |-> Nil, indexer |-> Nil, enable |-> Nil, rpc_servers |-> Nil,
      trust_height |-> Nil, trust_hash |-> Nil ]

\* What the environment gives is a string; no other sentinel is a value.
ASSUME ConfigAssumption ==
    /\ Unbondings \subseteq Nat
    /\ MeanBlockTime \in Nat \ {0} /\ Day \in Nat /\ Lookback \in Nat \ {0}
    /\ 4 * MeanBlockTime <= Day
    /\ MaxTip \in Nat \ {0} /\ MaxFaults \in Nat
    /\ \A e \in Envs : /\ e.period \in {Nil, Text}
                       /\ e.retain \in Nat \union {Nil} /\ e.halt \in Nat \union {Nil}
    /\ Nil \notin Int /\ \A ps \in SUBSET Peers : ps # Nil
    /\ Nil \notin { "default", "nothing", "custom", "kv", "null", "true", "false",
                    "none", "env", "job", "write", "snap", NoHash, Null, Text }

VARIABLES
    app, config,  \* the two files, all keys Nil when emptied
    doc,          \* the document a script has loaded and edited
    env,          \* the environment of this start
    sync_height,  \* SYNC_BLOCK_HEIGHT and
    sync_hash,    \* SYNC_BLOCK_HASH of this start
    phase,        \* where prepare is; "up": supervisord, no job
    unbonding,    \* unbonding_time in genesis.json
    tip,          \* the height of the RPC server
    kills,
    pruned,       \* history: this start's setpruning.py has written app.toml
    found,        \* history: the pods that answered this start
    trusted       \* history: each of the trust values in config.toml was
                  \* the answer to a request of one start or job

files == <<app, config>>
sync == <<sync_height, sync_hash>>
world == <<env, unbonding, tip, kills>>
history == <<pruned, found, trusted>>
vars == <<files, doc, sync, phase, world, history>>

\* A slip: a missing key is added.
SetOrAdd(f, key, value) == [f EXCEPT ![key] = value]

\* An edit of a key that is not there does nothing.
Set(f, key, value) == IF f[key] = Nil THEN f ELSE [f EXCEPT ![key] = value]

SetIf(f, key, value) == IF value = Nil THEN f ELSE Set(f, key, value)

\* The files as cosmovisor's init writes them.
Init ==
    /\ app = [pruning |-> "default", min_retain_blocks |-> 0, halt_height |-> 0]
    /\ config = [ persistent_peers |-> {}, indexer |-> "kv", enable |-> "false",
                  rpc_servers |-> "none", trust_height |-> 0, trust_hash |-> NoHash ]
    /\ doc = Nil
    /\ env \in Envs
    /\ sync_height = Nil /\ sync_hash = Nil
    /\ phase = "height"
    /\ unbonding \in Unbondings
    /\ tip = 1
    /\ kills = 0
    /\ pruned = FALSE /\ found = {} /\ trusted = FALSE

Phases ==
    { "height", "hash", "setpruning", "dump_app", "set_indexer", "dump_indexer", "modify",
      "trust_height", "trust_hash", "k8speers", "dump_peers", "modify_app", "up", "dump_sync" }

At(here) == phase = here

Goto(there) == phase' = there /\ UNCHANGED world

-----------------------------------------------------------------------------
(* parse_chain_info *)

\* An unanswered request leaves an empty string, so the height is 0 - Lookback.
\* Of an answer without a block jq makes "null", which is an unbound variable
\* to the subtraction and ends the subshell: the height is empty.
get_sync_block_height ==
    /\ At("height") /\ Goto("hash")
    /\ sync_height' \in IF env.rpc THEN {tip - Lookback, 0 - Lookback, Nil} ELSE {Nil}
    /\ UNCHANGED <<files, doc, sync_hash, history>>

\* A slip: the latest block's hash.
get_latest_block_hash ==
    /\ At("hash") /\ Goto("setpruning")
    /\ sync_hash' \in IF env.rpc THEN {tip, Nil} ELSE {Nil}
    /\ UNCHANGED <<files, doc, sync_height, history>>

\* jq makes "null" of the answer for a block that does not exist.  With an
\* empty height the server gives its latest block.
get_sync_block_hash ==
    /\ At("hash") /\ Goto("setpruning")
    /\ sync_hash' \in IF ~env.rpc THEN {Nil}
                      ELSE IF sync_height = Nil THEN {tip, Null, Nil}
                      ELSE {IF sync_height \in 1..tip THEN sync_height ELSE Null, Nil}
    /\ UNCHANGED <<files, doc, sync_height, history>>

-----------------------------------------------------------------------------
(* bin/setpruning.py *)

\* What argparse did not get is taken from the environment, as a string.
get_ctx ==
    [ profile |-> IF env.profile = Nil THEN "default" ELSE env.profile,
      mean_block_time |-> IF env.period = Nil THEN MeanBlockTime ELSE env.period,
      snapshot_interval |-> IF env.interval = Nil THEN Lookback ELSE env.interval ]

Larger(a, b) == IF a > b THEN a ELSE b

\* A slip: no safety margin.
min_retain_without_margin(period, block_time, days) ==
    Larger(period \div block_time, (days * Day) \div block_time)

calculate_min_retain_blocks(period, block_time, days) ==
    LET blocks == Larger(period \div block_time, (days * Day) \div block_time)
    IN  blocks + blocks \div 4

Custom == {"sync", "read", "write", "snap"}

\* A string divides nothing, and no other profile is known.
Computable ==
    get_ctx.profile \in {"default", "archive"}
      \/ (get_ctx.profile \in Custom /\ get_ctx.mean_block_time # Text)

get_pruning_settings ==
    LET profile == get_ctx.profile
    IN  [ pruning |-> IF profile \in Custom THEN "custom" ELSE "nothing",
          min_retain_blocks |->
              IF profile \in {"write", "snap"}
              THEN calculate_min_retain_blocks(unbonding, get_ctx.mean_block_time, 1)
              ELSE 0,
          indexer |-> IF profile \in {"write", "snap"} THEN "null" ELSE "kv" ]

\* A custom profile also raises without a genesis.json it can read.
PruningRaises ==
    /\ At("setpruning") /\ Goto("modify")
    /\ ~Computable \/ get_ctx.profile \in Custom
    /\ UNCHANGED <<files, doc, sync, history>>

\* A slip: only what init wrote is replaced.
set_pruning_once ==
    /\ At("setpruning") /\ Goto("dump_app")
    /\ Computable
    /\ doc' = IF app.pruning = "default"
              THEN Set(Set(app, "pruning", get_pruning_settings.pruning),
                       "min_retain_blocks", get_pruning_settings.min_retain_blocks)
              ELSE app
    /\ app' = NoApp
    /\ UNCHANGED <<config, sync, history>>

set_pruning ==
    /\ At("setpruning") /\ Goto("dump_app")
    /\ Computable
    /\ doc' = Set(Set(app, "pruning", get_pruning_settings.pruning),
                  "min_retain_blocks", get_pruning_settings.min_retain_blocks)
    /\ app' = NoApp
    /\ UNCHANGED <<config, sync, history>>

DumpApp ==
    /\ At("dump_app") /\ Goto("set_indexer")
    /\ app' = doc
    /\ pruned' = TRUE
    /\ UNCHANGED <<config, doc, sync, found, trusted>>

\* An emptied config.toml has no tx_index: a KeyError.
SetIndexer ==
    /\ At("set_indexer")
    /\ IF config.indexer = Nil
       THEN Goto("modify") /\ UNCHANGED <<config, doc>>
       ELSE /\ Goto("dump_indexer")
            /\ doc' = Set(config, "indexer", get_pruning_settings.indexer)
            /\ config' = NoConfig
    /\ UNCHANGED <<app, sync, history>>

DumpConfig(here, there) ==
    /\ At(here) /\ Goto(there)
    /\ config' = doc
    /\ UNCHANGED <<app, doc, sync, pruned, found>>

DumpIndexer == DumpConfig("dump_indexer", "modify") /\ UNCHANGED trusted

-----------------------------------------------------------------------------
(* modify_config_toml *)

\* Slips: the peers of the file are kept; INDEXER comes before setpruning.py.
ModifyAddPeers ==
    /\ At("modify") /\ Goto("trust_height")
    /\ config' =
         SetIf(SetIf(SetIf(Set(config, "persistent_peers",
                               IF config.persistent_peers = Nil THEN Nil
                               ELSE config.persistent_peers \union env.peers),
                           "indexer", env.indexer),
                     "enable", IF env.rpc THEN "true" ELSE Nil),
               "rpc_servers", IF env.rpc THEN "env" ELSE Nil)
    /\ UNCHANGED <<app, doc, sync, history>>

\* STATE_SYNC_ENABLED is true with STATE_SYNC_RPC; nothing sets it to false.
modify_config_toml ==
    /\ At("modify") /\ Goto("trust_height")
    /\ config' =
         SetIf(SetIf(SetIf(Set(config, "persistent_peers", env.peers),
                           "indexer", env.indexer),
                     "enable", IF env.rpc THEN "true" ELSE Nil),
               "rpc_servers", IF env.rpc THEN "env" ELSE Nil)
    /\ UNCHANGED <<app, doc, sync, history>>

SetTrustHeight ==
    /\ At("trust_height") /\ Goto("trust_hash")
    /\ config' = SetIf(config, "trust_height", sync_height)
    /\ trusted' = (trusted /\ sync_height = Nil)
    /\ UNCHANGED <<app, doc, sync, pruned, found>>

SetTrustHash ==
    /\ At("trust_hash") /\ Goto("k8speers")
    /\ config' = SetIf(config, "trust_hash", sync_hash)
    /\ trusted' = IF sync_height = Nil THEN trusted /\ sync_hash = Nil
                  ELSE sync_hash \notin {Nil, Null}
    /\ UNCHANGED <<app, doc, sync, pruned, found>>

\* bin/k8speers.py: the file is loaded, then the pods are asked one after the
\* other; what does not resolve or answer is passed over.
add_persistent_peers ==
    /\ At("k8speers")
    /\ IF env.profile = Nil \/ ~env.in_cluster \/ config.persistent_peers = Nil
       THEN Goto("modify_app") /\ UNCHANGED <<config, doc, found>>
       ELSE /\ Goto("dump_peers")
            /\ found' \in SUBSET Pods
            /\ doc' = [config EXCEPT !.persistent_peers = @ \union found']
            /\ config' = NoConfig
    /\ UNCHANGED <<app, sync, pruned, trusted>>

DumpPeers == DumpConfig("dump_peers", "modify_app") /\ UNCHANGED trusted

-----------------------------------------------------------------------------
(* modify_app_toml *)

\* The overrides of the profile count only with a profile.
modify_app_toml ==
    /\ At("modify_app") /\ Goto("up")
    /\ app' = LET override(value) == IF env.profile = Nil THEN Nil ELSE value
              IN  SetIf(SetIf(SetIf(app, "pruning", override(env.strategy)),
                              "min_retain_blocks", override(env.retain)),
                        "halt_height", env.halt)
    /\ UNCHANGED <<config, doc, sync, history>>

-----------------------------------------------------------------------------
(* bin/statesync.py, up to the change of the data directory *)

\* get_statesync_params: the trusted block must exist, and a snapshot_interval
\* from the environment is no number.  Then apply_statesync_config, which
\* raises for an emptied file.
apply_statesync_config ==
    /\ At("up") /\ Goto("dump_sync")
    /\ get_ctx.profile # "archive"
    /\ get_ctx.snapshot_interval # Text
    /\ tip - Lookback >= 1
    /\ config.persistent_peers # Nil
    /\ doc' = [config EXCEPT !.enable = "true", !.rpc_servers = "job",
                             !.trust_height = tip - Lookback,
                             !.trust_hash = tip - Lookback]
    /\ config' = NoConfig
    /\ UNCHANGED <<app, sync, history>>

DumpSync == DumpConfig("dump_sync", "up") /\ trusted' = TRUE

-----------------------------------------------------------------------------

\* The RPC server's chain grows.
Grow ==
    /\ tip < MaxTip
    /\ tip' = tip + 1
    /\ UNCHANGED <<files, doc, sync, phase, env, unbonding, kills, history>>

\* The container ends, at any point, and is started with any environment.
Restart ==
    /\ \/ At("up") /\ kills' = kills
       \/ ~At("up") /\ kills < MaxFaults /\ kills' = kills + 1
    /\ env' \in Envs
    /\ phase' = "height"
    /\ doc' = Nil /\ sync_height' = Nil /\ sync_hash' = Nil
    /\ pruned' = FALSE /\ found' = {}
    /\ UNCHANGED <<files, unbonding, tip, trusted>>

Prepare ==
    \/ get_sync_block_height \/ get_sync_block_hash
    \/ PruningRaises \/ set_pruning \/ DumpApp \/ SetIndexer \/ DumpIndexer
    \/ modify_config_toml \/ SetTrustHeight \/ SetTrustHash
    \/ add_persistent_peers \/ DumpPeers \/ modify_app_toml

Next == Prepare \/ apply_statesync_config \/ DumpSync \/ Grow \/ Restart

Spec == Init /\ [][Next]_vars

-----------------------------------------------------------------------------
(* Properties *)

FilesType ==
    /\ app \in App \union {NoApp}
    /\ config \in Config \union {NoConfig}
    /\ At("dump_app") => doc \in App \union {NoApp}
    /\ phase \in {"dump_indexer", "dump_peers", "dump_sync"} => doc \in Config \union {NoConfig}

StartType ==
    /\ env \in Envs
    /\ sync_height \in Int \union {Nil}
    /\ sync_hash \in Nat \union {Nil, Null}
    /\ phase \in Phases
    /\ unbonding \in Unbondings
    /\ found \in SUBSET Pods
    /\ tip \in 1..MaxTip /\ kills \in 0..MaxFaults

\* Every variable has its type: a file is either emptied or has all its keys.
TypeOK == FilesType /\ StartType

\* What the node is to be run with, by this start's environment alone.
Wanted(key) ==
    LET set == [pruning |-> env.strategy, min_retain_blocks |-> env.retain]
    IN  IF env.profile # Nil /\ set[key] # Nil THEN set[key] ELSE get_pruning_settings[key]

\* A node is up with the pruning its own environment asks for: nothing of what
\* earlier starts, jobs and kills left in the files shows through, if
\* setpruning.py could compute the settings (entrypoint.sh:78-81).  INDEXER,
\* which is written later, wins over the profile in any case.
SettingsOfThisStart ==
    At("up") =>
       /\ pruned => \A key \in {"pruning", "min_retain_blocks"} : app[key] \in {Nil, Wanted(key)}
       /\ env.indexer # Nil => config.indexer \in {Nil, env.indexer}

\* A node is up with the peers of its environment and of the pods that
\* answered this start; a peer of an earlier start is gone, and no restart or
\* job has lost one (entrypoint.sh:221, k8sutils.py:58-63).
PeersOfThisStart ==
    At("up") => config.persistent_peers \in {Nil, env.peers \union found}

\* The trusted hash is the hash of the trusted height, whoever wrote the two
\* last, if the RPC server answered both requests with a block
\* (entrypoint.sh:286-292, statesync.py:29-35), however far the chain went in
\* between.  Without the one for the height, the hash of the latest block lands
\* beside a height of an earlier start (entrypoint.sh:381, 389).
TrustPaired ==
    trusted => config.trust_height = config.trust_hash

\* A validator prunes no block younger than the unbonding time: integer
\* division loses a part of a block, the margin makes up for it
\* (setpruning.py:41-60).
RetainsUnbonding ==
    /\ At("up") /\ pruned /\ env.profile \in {"write", "snap"} /\ env.retain = Nil
    /\ app.min_retain_blocks # Nil
    => app.min_retain_blocks * MeanBlockTime >= unbonding

\* statesync.py:93, "Convert the nodes to a set to remove duplicates and then
\* merge with existing": the job that configures a state sync adds the node
\* that serves it to the peers.  It merges the existing peers with themselves.
PeerAdded ==
    [][At("dump_sync") /\ At("up")' => RpcPeer \in config'.persistent_peers]_vars

=============================================================================
