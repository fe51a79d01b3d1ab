--------------------------- MODULE NodeConfigProofs ---------------------------
(***************************************************************************)
(* Theorems about NodeConfig, for any environments, pods, unbonding times  *)
(* and chain.                                                              *)
(***************************************************************************)
EXTENDS NodeConfig, TLAPS

-----------------------------------------------------------------------------
(* calculate_min_retain_blocks *)

\* Integer division loses less than one block.
LEMMA DivisionLoses ==
    ASSUME NEW a \in Nat, NEW b \in Nat \ {0}
    PROVE  /\ a \div b \in Nat
           /\ b * (a \div b) <= a
           /\ a < b * (a \div b) + b
  OBVIOUS

\* The blocks kept take at least the unbonding time, if four blocks fit into
\* the days.
LEMMA RetainsPeriod ==
    ASSUME NEW p \in Nat, NEW b \in Nat \ {0}, NEW d \in Nat, 4 * b <= d * Day
    PROVE  /\ calculate_min_retain_blocks(p, b, d) \in Nat
           /\ calculate_min_retain_blocks(p, b, d) * b >= p
<1>. DEFINE x == p \div b
            y == (d * Day) \div b
            n == Larger(x, y)
<1>0. d * Day \in Nat
  BY ConfigAssumption
<1>1. /\ x \in Nat /\ y \in Nat
      /\ p < b * x + b /\ d * Day < b * y + b
  BY <1>0, DivisionLoses
<1>2. y >= 4
  <2>1. SUFFICES ASSUME y <= 3 PROVE FALSE
    BY <1>1
  <2>2. b * y + b <= b * 3 + b
    BY <1>1, <2>1
  <2>. QED  BY <1>0, <1>1, <2>2
<1>3. n \in Nat /\ n >= x /\ n >= 4
  BY <1>1, <1>2 DEF Larger
<1>. HIDE DEF x, y, n
<1>4. n \div 4 \in Nat /\ n \div 4 >= 1
  BY <1>3, DivisionLoses
<1>. DEFINE m == n + n \div 4
<1>5. m \in Nat /\ m >= x + 1
  BY <1>1, <1>3, <1>4
<1>6. m * b >= (x + 1) * b
  <2>. HIDE DEF m
  <2>1. \A i, j \in Nat : i >= j => i * b >= j * b
    OBVIOUS
  <2>. QED  BY <1>1, <1>5, <2>1
<1>7. (x + 1) * b = b * x + b
  BY <1>1
<1>8. m * b >= p
  <2>. HIDE DEF m
  <2>. QED  BY <1>1, <1>5, <1>6, <1>7
<1>9. calculate_min_retain_blocks(p, b, d) = m
  BY DEF calculate_min_retain_blocks, n, x, y, Larger
<1>. QED  BY <1>5, <1>8, <1>9

-----------------------------------------------------------------------------
(* The edits *)

\* What setpruning.py computes has the type of its key.
LEMMA SettingsType ==
    ASSUME StartType, Computable
    PROVE  /\ get_pruning_settings.pruning \in {"custom", "nothing"}
           /\ get_pruning_settings.min_retain_blocks \in Nat
           /\ get_pruning_settings.indexer \in {"kv", "null"}
<1>1. CASE get_ctx.profile \in {"write", "snap"}
  <2>1. get_ctx.mean_block_time = MeanBlockTime
    BY <1>1, ConfigAssumption DEF Computable, get_ctx, StartType, Custom
  <2>2. calculate_min_retain_blocks(unbonding, MeanBlockTime, 1) \in Nat
    BY ConfigAssumption, RetainsPeriod DEF StartType
  <2>. QED  BY <1>1, <2>1, <2>2 DEF get_pruning_settings, Custom
<1>2. CASE get_ctx.profile \notin {"write", "snap"}
  BY <1>2 DEF get_pruning_settings, Custom
<1>. QED  BY <1>1, <1>2

\* An edit of app.toml keeps it a file with all or none of its keys, and
\* changes its key alone.
LEMMA SetApp ==
    ASSUME NEW f \in App \union {NoApp}
    PROVE  /\ \A v \in {"default", "nothing", "custom"} \union ({e.strategy : e \in Envs} \ {Nil}) :
                 /\ Set(f, "pruning", v) \in App \union {NoApp}
                 /\ Set(f, "pruning", v).pruning \in {Nil, v}
                 /\ Set(f, "pruning", v).min_retain_blocks = f.min_retain_blocks
           /\ \A v \in Nat :
                 /\ Set(f, "min_retain_blocks", v) \in App \union {NoApp}
                 /\ Set(f, "min_retain_blocks", v).min_retain_blocks \in {Nil, v}
                 /\ Set(f, "min_retain_blocks", v).pruning = f.pruning
           /\ \A v \in Nat :
                 /\ Set(f, "halt_height", v) \in App \union {NoApp}
                 /\ Set(f, "halt_height", v).pruning = f.pruning
                 /\ Set(f, "halt_height", v).min_retain_blocks = f.min_retain_blocks
<1>1. CASE f \in App
  BY <1>1, ConfigAssumption DEF Set, App
<1>2. CASE f = NoApp
  BY <1>2 DEF Set, NoApp
<1>. QED  BY <1>1, <1>2

Others(f, g, key) == \A k \in DOMAIN NoConfig \ {key} : g[k] = f[k]

\* The same of config.toml.
LEMMA SetConfig ==
    ASSUME NEW f \in Config \union {NoConfig}
    PROVE  /\ \A v \in SUBSET Peers : LET g == Set(f, "persistent_peers", v)
                 IN  g \in Config \union {NoConfig} /\ Others(f, g, "persistent_peers")
                     /\ g.persistent_peers = (IF f = NoConfig THEN Nil ELSE v)
           /\ \A v \in {"kv", "null"} \union ({e.indexer : e \in Envs} \ {Nil}) :
                 LET g == Set(f, "indexer", v)
                 IN  g \in Config \union {NoConfig} /\ Others(f, g, "indexer")
                     /\ g.indexer = (IF f = NoConfig THEN Nil ELSE v)
           /\ \A v \in {"true", "false"} : LET g == Set(f, "enable", v)
                 IN  g \in Config \union {NoConfig} /\ Others(f, g, "enable")
           /\ \A v \in {"none", "env", "job"} : LET g == Set(f, "rpc_servers", v)
                 IN  g \in Config \union {NoConfig} /\ Others(f, g, "rpc_servers")
           /\ \A v \in Int : LET g == Set(f, "trust_height", v)
                 IN  g \in Config \union {NoConfig} /\ Others(f, g, "trust_height")
                     /\ g.trust_height = (IF f = NoConfig THEN Nil ELSE v)
           /\ \A v \in Nat \union {Null} : LET g == Set(f, "trust_hash", v)
                 IN  g \in Config \union {NoConfig} /\ Others(f, g, "trust_hash")
                     /\ g.trust_hash = (IF f = NoConfig THEN Nil ELSE v)
<1>1. CASE f \in Config
  <2>1. f # NoConfig
    BY <1>1, ConfigAssumption DEF Config, NoConfig
  <2>. QED  BY <1>1, <2>1, ConfigAssumption DEF Set, Config, Others, NoConfig
<1>2. CASE f = NoConfig
  BY <1>2 DEF Set, NoConfig, Others
<1>. QED  BY <1>1, <1>2

\* modify_config_toml, key by key.
LEMMA Modified ==
    ASSUME config \in Config \union {NoConfig}, env \in Envs, modify_config_toml
    PROVE  /\ config' \in Config \union {NoConfig}
           /\ config'.persistent_peers \in {Nil, env.peers}
           /\ env.indexer # Nil => config'.indexer \in {Nil, env.indexer}
           /\ config'.trust_height = config.trust_height
           /\ config'.trust_hash = config.trust_hash
<1>. DEFINE c1 == Set(config, "persistent_peers", env.peers)
            c2 == SetIf(c1, "indexer", env.indexer)
            c3 == SetIf(c2, "enable", IF env.rpc THEN "true" ELSE Nil)
            c4 == SetIf(c3, "rpc_servers", IF env.rpc THEN "env" ELSE Nil)
<1>. USE DEF Others, NoConfig
<1>1. /\ c1 \in Config \union {NoConfig} /\ c1.persistent_peers \in {Nil, env.peers}
      /\ c1.trust_height = config.trust_height /\ c1.trust_hash = config.trust_hash
  <2>1. env.peers \in SUBSET Peers
    BY DEF Peers
  <2>. QED  BY <2>1, SetConfig
<1>2. /\ c2 \in Config \union {NoConfig} /\ c2.persistent_peers = c1.persistent_peers
      /\ env.indexer # Nil => c2.indexer \in {Nil, env.indexer}
      /\ c2.trust_height = c1.trust_height /\ c2.trust_hash = c1.trust_hash
  <2>. HIDE DEF c1
  <2>1. CASE env.indexer = Nil
    BY <1>1, <2>1 DEF SetIf
  <2>2. CASE env.indexer # Nil
    <3>1. env.indexer \in {e.indexer : e \in Envs} \ {Nil}
      BY <2>2
    <3>2. c2 = Set(c1, "indexer", env.indexer)
      BY <2>2 DEF SetIf
    <3>. HIDE DEF c2
    <3>3. /\ c2 \in Config \union {NoConfig} /\ Others(c1, c2, "indexer")
          /\ c2.indexer = (IF c1 = NoConfig THEN Nil ELSE env.indexer)
      <4>. HIDE DEF Others, NoConfig
      <4>. QED  BY <1>1, <3>1, <3>2, SetConfig
    <3>. QED  BY <3>3
  <2>. QED  BY <2>1, <2>2
<1>3. /\ c3 \in Config \union {NoConfig} /\ c3.persistent_peers = c2.persistent_peers
      /\ c3.indexer = c2.indexer
      /\ c3.trust_height = c2.trust_height /\ c3.trust_hash = c2.trust_hash
  <2>. HIDE DEF c2
  <2>. QED  BY <1>2, SetConfig DEF SetIf
<1>4. /\ c4 \in Config \union {NoConfig} /\ c4.persistent_peers = c3.persistent_peers
      /\ c4.indexer = c3.indexer
      /\ c4.trust_height = c3.trust_height /\ c4.trust_hash = c3.trust_hash
  <2>. HIDE DEF c3
  <2>. QED  BY <1>3, SetConfig DEF SetIf
<1>5. config' = c4
  BY DEF modify_config_toml
<1>. HIDE DEF c1, c2, c3, c4
<1>. QED  BY <1>1, <1>2, <1>3, <1>4, <1>5

\* modify_app_toml, key by key.
LEMMA ModifiedApp ==
    ASSUME app \in App \union {NoApp}, env \in Envs, modify_app_toml
    PROVE  /\ app' \in App \union {NoApp}
           /\ env.profile # Nil /\ env.strategy # Nil => app'.pruning \in {Nil, env.strategy}
           /\ env.profile = Nil \/ env.strategy = Nil => app'.pruning = app.pruning
           /\ env.profile # Nil /\ env.retain # Nil => app'.min_retain_blocks \in {Nil, env.retain}
           /\ env.profile = Nil \/ env.retain = Nil
                 => app'.min_retain_blocks = app.min_retain_blocks
<1>. DEFINE override(value) == IF env.profile = Nil THEN Nil ELSE value
            a1 == SetIf(app, "pruning", override(env.strategy))
            a2 == SetIf(a1, "min_retain_blocks", override(env.retain))
            a3 == SetIf(a2, "halt_height", env.halt)
<1>1. /\ a1 \in App \union {NoApp} /\ a1.min_retain_blocks = app.min_retain_blocks
      /\ env.profile # Nil /\ env.strategy # Nil => a1.pruning \in {Nil, env.strategy}
      /\ env.profile = Nil \/ env.strategy = Nil => a1.pruning = app.pruning
  BY SetApp DEF SetIf
<1>2. /\ a2 \in App \union {NoApp} /\ a2.pruning = a1.pruning
      /\ env.profile # Nil /\ env.retain # Nil => a2.min_retain_blocks \in {Nil, env.retain}
      /\ env.profile = Nil \/ env.retain = Nil => a2.min_retain_blocks = a1.min_retain_blocks
  <2>. HIDE DEF a1
  <2>. QED  BY <1>1, SetApp, ConfigAssumption DEF SetIf
<1>3. /\ a3 \in App \union {NoApp} /\ a3.pruning = a2.pruning
      /\ a3.min_retain_blocks = a2.min_retain_blocks
  <2>. HIDE DEF a2
  <2>. QED  BY <1>2, SetApp, ConfigAssumption DEF SetIf
<1>4. app' = a3
  BY DEF modify_app_toml
<1>. HIDE DEF a1, a2, a3
<1>. QED  BY <1>1, <1>2, <1>3, <1>4

\* set_pruning's edits of app.toml.
LEMMA Pruned ==
    ASSUME app \in App \union {NoApp}, StartType, set_pruning
    PROVE  /\ doc' \in App \union {NoApp}
           /\ doc'.pruning \in {Nil, get_pruning_settings.pruning}
           /\ doc'.min_retain_blocks \in {Nil, get_pruning_settings.min_retain_blocks}
<1>. DEFINE a1 == Set(app, "pruning", get_pruning_settings.pruning)
            a2 == Set(a1, "min_retain_blocks", get_pruning_settings.min_retain_blocks)
<1>0. Computable
  BY DEF set_pruning
<1>1. a1 \in App \union {NoApp} /\ a1.pruning \in {Nil, get_pruning_settings.pruning}
  BY <1>0, SettingsType, SetApp
<1>2. /\ a2 \in App \union {NoApp} /\ a2.pruning = a1.pruning
      /\ a2.min_retain_blocks \in {Nil, get_pruning_settings.min_retain_blocks}
  <2>. HIDE DEF a1
  <2>. QED  BY <1>0, <1>1, SettingsType, SetApp
<1>3. doc' = a2
  BY DEF set_pruning
<1>. HIDE DEF a1, a2
<1>. QED  BY <1>1, <1>2, <1>3

-----------------------------------------------------------------------------
(* The invariant *)

Settled(f) ==
    /\ f.pruning \in {Nil, get_pruning_settings.pruning}
    /\ f.min_retain_blocks \in {Nil, get_pruning_settings.min_retain_blocks}

\* What setpruning.py has computed is in app.toml until it is overridden.
PruningInv ==
    /\ pruned => Computable /\ phase \notin {"height", "hash", "setpruning", "dump_app"}
    /\ phase = "dump_app" => Computable /\ Settled(doc)
    /\ pruned /\ phase \notin {"up", "dump_sync"} => Settled(app)
    /\ pruned /\ phase \in {"up", "dump_sync"} =>
          /\ app.pruning \in {Nil, Wanted("pruning")}
          /\ app.min_retain_blocks \in {Nil, Wanted("min_retain_blocks")}

\* Once modify_config_toml has run, INDEXER holds, in the file or in the
\* document that replaces it.
IndexerInv ==
    env.indexer # Nil =>
       /\ phase \in {"trust_height", "trust_hash", "k8speers", "modify_app", "up"} =>
             config.indexer \in {Nil, env.indexer}
       /\ phase \in {"dump_peers", "dump_sync"} => doc.indexer \in {Nil, env.indexer}

\* The same of the peers, those of the cluster once they have been asked.
PeersInv ==
    /\ phase \notin {"dump_peers", "modify_app", "up", "dump_sync"} => found = {}
    /\ phase \in {"trust_height", "trust_hash", "k8speers"} =>
          config.persistent_peers \in {Nil, env.peers}
    /\ phase \in {"modify_app", "up"} => config.persistent_peers \in {Nil, env.peers \union found}
    /\ phase \in {"dump_peers", "dump_sync"} =>
          doc.persistent_peers \in {Nil, env.peers \union found}

\* The hash that was asked for is that of the height, and the values in the
\* file, or in the document that replaces it, are a pair.
TrustInv ==
    /\ phase \in {"height", "hash"} => sync_hash = Nil
    /\ sync_hash \notin {Nil, Null} /\ sync_height # Nil => sync_hash = sync_height
    /\ phase = "trust_hash" /\ sync_height # Nil => config.trust_height \in {Nil, sync_height}
    /\ trusted => config.trust_height = config.trust_hash
    /\ \/ trusted /\ phase \in {"dump_indexer", "dump_peers"}
       \/ phase = "dump_sync"
       => doc.trust_height = doc.trust_hash

ConfigInv == TypeOK /\ PruningInv /\ IndexerInv /\ PeersInv /\ TrustInv

LEMMA InitInv == Init => ConfigInv
<1>. SUFFICES ASSUME Init PROVE ConfigInv
  OBVIOUS
<1>. USE ConfigAssumption DEF Init
<1>1. app \in App
  BY DEF App
<1>2. config \in Config
  BY DEF Config
<1>3. FilesType
  BY <1>1, <1>2 DEF FilesType, At
<1>4. StartType
  BY DEF StartType, Phases
<1>5. PruningInv /\ IndexerInv /\ PeersInv /\ TrustInv
  BY DEF PruningInv, IndexerInv, PeersInv, TrustInv
<1>. QED  BY <1>3, <1>4, <1>5 DEF ConfigInv, TypeOK

-----------------------------------------------------------------------------
(* The steps *)

\* The environment, the world and what this start has asked keep their types.
LEMMA StartTypeStep == StartType /\ [Next]_vars => StartType'
<1>. SUFFICES ASSUME StartType, [Next]_vars PROVE StartType'
  OBVIOUS
<1>. USE ConfigAssumption DEF StartType, Phases, At, Goto, world, history, files, sync
<1>1. CASE get_sync_block_height \/ get_sync_block_hash
  BY <1>1 DEF get_sync_block_height, get_sync_block_hash
<1>2. CASE PruningRaises \/ set_pruning \/ DumpApp \/ SetIndexer \/ DumpIndexer
  BY <1>2 DEF PruningRaises, set_pruning, DumpApp, SetIndexer, DumpIndexer, DumpConfig
<1>3. CASE modify_config_toml \/ SetTrustHeight \/ SetTrustHash
  BY <1>3 DEF modify_config_toml, SetTrustHeight, SetTrustHash
<1>4. CASE add_persistent_peers \/ DumpPeers \/ modify_app_toml
  BY <1>4 DEF add_persistent_peers, DumpPeers, DumpConfig, modify_app_toml
<1>5. CASE apply_statesync_config \/ DumpSync
  BY <1>5 DEF apply_statesync_config, DumpSync, DumpConfig
<1>6. CASE Grow
  BY <1>6 DEF Grow
<1>7. CASE Restart
  BY <1>7 DEF Restart
<1>8. CASE UNCHANGED vars
  BY <1>8 DEF vars
<1>. QED  BY <1>1, <1>2, <1>3, <1>4, <1>5, <1>6, <1>7, <1>8 DEF Next, Prepare

\* A file that is not emptied has its keys.
LEMMA HasKeys ==
    ASSUME config \in Config \union {NoConfig}
    PROVE  /\ config = NoConfig <=> config.persistent_peers = Nil
           /\ config = NoConfig <=> config.indexer = Nil
           /\ config = NoConfig <=> config.trust_height = Nil
           /\ config = NoConfig <=> config.trust_hash = Nil
BY ConfigAssumption DEF Config, NoConfig

\* A file is always emptied or whole.
LEMMA FilesTypeStep ==
    ASSUME TypeOK, [Next]_vars
    PROVE  FilesType'
<1>. USE DEF TypeOK, FilesType, At, Goto, files
<1>1. CASE get_sync_block_height \/ get_sync_block_hash \/ PruningRaises
  BY <1>1 DEF get_sync_block_height, get_sync_block_hash, PruningRaises
<1>2. CASE set_pruning
  <2>1. doc' \in App \union {NoApp}
    BY <1>2, Pruned
  <2>. QED  BY <1>2, <2>1 DEF set_pruning
<1>3. CASE DumpApp
  BY <1>3 DEF DumpApp
<1>4. CASE SetIndexer
  <2>1. Set(config, "indexer", get_pruning_settings.indexer) \in Config \union {NoConfig}
    <3>1. get_pruning_settings.indexer \in {"kv", "null"}
      BY DEF get_pruning_settings
    <3>. QED  BY <3>1, SetConfig
  <2>. QED  BY <1>4, <2>1 DEF SetIndexer
<1>5. CASE DumpIndexer \/ DumpPeers \/ DumpSync
  BY <1>5 DEF DumpIndexer, DumpPeers, DumpSync, DumpConfig
<1>6. CASE modify_config_toml
  BY <1>6, Modified DEF modify_config_toml, StartType
<1>7. CASE SetTrustHeight
  BY <1>7, SetConfig DEF SetTrustHeight, SetIf, StartType
<1>8. CASE SetTrustHash
  BY <1>8, SetConfig DEF SetTrustHash, SetIf, StartType
<1>9. CASE add_persistent_peers
  <2>1. ASSUME config.persistent_peers # Nil, NEW ps \in SUBSET Pods
        PROVE  [config EXCEPT !.persistent_peers = @ \union ps] \in Config
    <3>1. config \in Config
      BY <2>1, HasKeys
    <3>2. config.persistent_peers \in SUBSET Peers
      BY <3>1 DEF Config
    <3>3. Pods \subseteq Peers
      BY DEF Peers
    <3>4. config.persistent_peers \union ps \in SUBSET Peers
      BY <3>2, <3>3, ps \in SUBSET Pods
    <3>. QED  BY <3>1, <3>4 DEF Config
  <2>. QED  BY <1>9, <2>1 DEF add_persistent_peers
<1>10. CASE modify_app_toml
  BY <1>10, ModifiedApp DEF modify_app_toml, StartType
<1>11. CASE apply_statesync_config
  <2>1. config \in Config /\ tip - Lookback \in Nat
    BY <1>11, HasKeys, ConfigAssumption DEF apply_statesync_config, StartType
  <2>2. \A h \in Nat :
           [config EXCEPT !.enable = "true", !.rpc_servers = "job",
                          !.trust_height = h, !.trust_hash = h] \in Config
    <3>. TAKE h \in Nat
    <3>. DEFINE c1 == [config EXCEPT !.enable = "true", !.rpc_servers = "job"]
                c2 == [c1 EXCEPT !.trust_height = h]
    <3>1. c1 \in Config
      BY <2>1 DEF Config
    <3>2. c2 \in Config
      <4>. HIDE DEF c1
      <4>. QED  BY <3>1 DEF Config
    <3>3. [c2 EXCEPT !.trust_hash = h] \in Config
      <4>. HIDE DEF c2
      <4>. QED  BY <3>2 DEF Config
    <3>. QED  BY <3>3
  <2>. QED  BY <1>11, <2>1, <2>2 DEF apply_statesync_config
<1>12. CASE Grow \/ UNCHANGED vars
  BY <1>12 DEF Grow, vars
<1>13. CASE Restart
  BY <1>13 DEF Restart
<1>. QED
  BY <1>1, <1>2, <1>3, <1>4, <1>5, <1>6, <1>7, <1>8, <1>9, <1>10, <1>11, <1>12, <1>13
     DEF Next, Prepare

\* What is computed depends on the environment and the genesis file alone.
LEMMA SameSettings ==
    ASSUME UNCHANGED <<env, unbonding>>
    PROVE  /\ get_pruning_settings' = get_pruning_settings
           /\ Computable' <=> Computable
           /\ Wanted("pruning")' = Wanted("pruning")
           /\ Wanted("min_retain_blocks")' = Wanted("min_retain_blocks")
BY DEF get_pruning_settings, Computable, Wanted, get_ctx

LEMMA PruningStep ==
    ASSUME TypeOK, PruningInv, [Next]_vars
    PROVE  PruningInv'
<1>. USE DEF PruningInv, At, Goto, world, history, files, sync
<1>1. CASE Restart
  BY <1>1 DEF Restart
<1>2. CASE set_pruning
  <2>1. Settled(doc)' /\ Computable'
    BY <1>2, Pruned, SameSettings DEF TypeOK, FilesType, Settled, set_pruning
  <2>. QED  BY <1>2, <2>1 DEF set_pruning
<1>3. CASE DumpApp
  <2>1. Settled(app)' /\ Computable'
    BY <1>3, SameSettings DEF Settled, DumpApp
  <2>. QED  BY <1>3, <2>1 DEF DumpApp
<1>4. CASE modify_app_toml
  <2>1. UNCHANGED <<env, unbonding, pruned>> /\ At("modify_app") /\ At("up")'
    BY <1>4 DEF modify_app_toml
  <2>2. pruned => /\ app'.pruning \in {Nil, Wanted("pruning")}
                  /\ app'.min_retain_blocks \in {Nil, Wanted("min_retain_blocks")}
    BY <1>4, <2>1, ModifiedApp DEF TypeOK, FilesType, StartType, Settled, Wanted
  <2>. QED  BY <2>1, <2>2, SameSettings
<1>5. CASE UNCHANGED vars
  BY <1>5, SameSettings DEF vars, Settled
<1>6. CASE \/ get_sync_block_height \/ get_sync_block_hash \/ PruningRaises
           \/ SetIndexer \/ DumpIndexer \/ modify_config_toml \/ SetTrustHeight \/ SetTrustHash
           \/ add_persistent_peers \/ DumpPeers \/ apply_statesync_config \/ DumpSync \/ Grow
  <2>1. UNCHANGED <<env, unbonding, pruned, app>>
    BY <1>6 DEF get_sync_block_height, get_sync_block_hash, PruningRaises, SetIndexer, DumpIndexer,
           DumpConfig, modify_config_toml, SetTrustHeight, SetTrustHash, add_persistent_peers,
           DumpPeers, apply_statesync_config, DumpSync, Grow
  <2>2. Settled(app)' <=> Settled(app)
    BY <2>1, SameSettings DEF Settled
  <2>3. doc' = doc => (Settled(doc)' <=> Settled(doc))
    BY <2>1, SameSettings DEF Settled
  <2>4. /\ pruned /\ phase # "up" /\ phase # "dump_sync" => phase' \notin {"up", "dump_sync"}
        /\ phase \in {"up", "dump_sync"} => phase' \in {"up", "dump_sync"}
        /\ pruned => phase' \notin {"height", "hash", "setpruning", "dump_app"}
        /\ phase' = "dump_app" => phase = "dump_app" /\ doc' = doc
    BY <1>6 DEF get_sync_block_height, get_sync_block_hash, PruningRaises, SetIndexer, DumpIndexer,
           DumpConfig, modify_config_toml, SetTrustHeight, SetTrustHash, add_persistent_peers,
           DumpPeers, apply_statesync_config, DumpSync, Grow
  <2>. QED  BY <2>1, <2>2, <2>3, <2>4, SameSettings
<1>. QED  BY <1>1, <1>2, <1>3, <1>4, <1>5, <1>6 DEF Next, Prepare

\* With INDEXER set, nothing after modify_config_toml changes the key.
LEMMA IndexerStep ==
    ASSUME TypeOK, IndexerInv, [Next]_vars
    PROVE  IndexerInv'
<1>. USE DEF TypeOK, FilesType, IndexerInv, At, Goto, world, history, files, sync
<1>1. CASE modify_config_toml
  BY <1>1, Modified DEF modify_config_toml, StartType
<1>2. CASE SetTrustHeight
  <2>1. config'.indexer = config.indexer
    BY <1>2, SetConfig DEF SetTrustHeight, SetIf, StartType, Others, NoConfig
  <2>. QED  BY <1>2, <2>1 DEF SetTrustHeight
<1>3. CASE SetTrustHash
  <2>1. config'.indexer = config.indexer
    BY <1>3, SetConfig DEF SetTrustHash, SetIf, StartType, Others, NoConfig
  <2>. QED  BY <1>3, <2>1 DEF SetTrustHash
<1>4. CASE add_persistent_peers
  <2>1. \A ps : config # NoConfig =>
            [config EXCEPT !.persistent_peers = ps].indexer = config.indexer
    BY DEF Config, NoConfig
  <2>. QED  BY <1>4, <2>1, HasKeys DEF add_persistent_peers
<1>5. CASE apply_statesync_config
  <2>1. config \in Config
    BY <1>5, HasKeys DEF apply_statesync_config
  <2>2. doc'.indexer = config.indexer
    BY <1>5, <2>1 DEF apply_statesync_config, Config
  <2>. QED  BY <1>5, <2>2 DEF apply_statesync_config
<1>6. CASE DumpPeers \/ DumpSync
  BY <1>6 DEF DumpPeers, DumpSync, DumpConfig
<1>7. CASE Restart
  BY <1>7 DEF Restart
<1>8. CASE UNCHANGED vars
  BY <1>8 DEF vars
<1>9. CASE \/ get_sync_block_height \/ get_sync_block_hash \/ PruningRaises \/ set_pruning
           \/ DumpApp \/ SetIndexer \/ DumpIndexer \/ modify_app_toml \/ Grow
  <2>1. UNCHANGED env
    BY <1>9 DEF get_sync_block_height, get_sync_block_hash, PruningRaises, set_pruning, DumpApp,
           SetIndexer, DumpIndexer, DumpConfig, modify_app_toml, Grow
  <2>2. \/ phase' \notin {"trust_height", "trust_hash", "k8speers", "modify_app", "up",
                          "dump_peers", "dump_sync"}
        \/ config' = config /\ phase' = "up" /\ phase = "modify_app"
        \/ UNCHANGED <<phase, config, doc>>
    BY <1>9 DEF get_sync_block_height, get_sync_block_hash, PruningRaises, set_pruning, DumpApp,
           SetIndexer, DumpIndexer, DumpConfig, modify_app_toml, Grow
  <2>. QED  BY <2>1, <2>2
<1>. QED  BY <1>1, <1>2, <1>3, <1>4, <1>5, <1>6, <1>7, <1>8, <1>9 DEF Next, Prepare

\* The peers follow the environment and the pods of this start.
LEMMA PeersStep ==
    ASSUME TypeOK, PeersInv, [Next]_vars
    PROVE  PeersInv'
<1>. USE DEF TypeOK, FilesType, PeersInv, At, Goto, world, history, files, sync
<1>1. CASE modify_config_toml
  BY <1>1, Modified DEF modify_config_toml, StartType
<1>2. CASE SetTrustHeight
  <2>1. config'.persistent_peers = config.persistent_peers
    BY <1>2, SetConfig DEF SetTrustHeight, SetIf, StartType, Others, NoConfig
  <2>. QED  BY <1>2, <2>1 DEF SetTrustHeight
<1>3. CASE SetTrustHash
  <2>1. config'.persistent_peers = config.persistent_peers
    BY <1>3, SetConfig DEF SetTrustHash, SetIf, StartType, Others, NoConfig
  <2>. QED  BY <1>3, <2>1 DEF SetTrustHash
<1>4. CASE add_persistent_peers
  <2>1. \A ps : config # NoConfig =>
            [config EXCEPT !.persistent_peers = @ \union ps].persistent_peers
               = config.persistent_peers \union ps
    BY DEF Config, NoConfig
  <2>2. found = {}
    BY <1>4 DEF add_persistent_peers
  <2>. QED  BY <1>4, <2>1, <2>2, HasKeys DEF add_persistent_peers
<1>5. CASE apply_statesync_config
  <2>1. config \in Config
    BY <1>5, HasKeys DEF apply_statesync_config
  <2>2. doc'.persistent_peers = config.persistent_peers
    BY <1>5, <2>1 DEF apply_statesync_config, Config
  <2>. QED  BY <1>5, <2>2 DEF apply_statesync_config
<1>6. CASE DumpPeers \/ DumpSync
  BY <1>6 DEF DumpPeers, DumpSync, DumpConfig
<1>7. CASE Restart
  BY <1>7 DEF Restart
<1>8. CASE UNCHANGED vars
  BY <1>8 DEF vars
<1>9. CASE \/ get_sync_block_height \/ get_sync_block_hash \/ PruningRaises \/ set_pruning
           \/ DumpApp \/ SetIndexer \/ DumpIndexer \/ modify_app_toml \/ Grow
  <2>1. UNCHANGED <<env, found>>
    BY <1>9 DEF get_sync_block_height, get_sync_block_hash, PruningRaises, set_pruning, DumpApp,
           SetIndexer, DumpIndexer, DumpConfig, modify_app_toml, Grow
  <2>2. \/ /\ phase' \notin {"trust_height", "trust_hash", "k8speers", "modify_app", "up",
                             "dump_peers", "dump_sync"}
           /\ phase \notin {"dump_peers", "modify_app", "up", "dump_sync"}
        \/ config' = config /\ phase' = "up" /\ phase = "modify_app"
        \/ UNCHANGED <<phase, config, doc>>
    BY <1>9 DEF get_sync_block_height, get_sync_block_hash, PruningRaises, set_pruning, DumpApp,
           SetIndexer, DumpIndexer, DumpConfig, modify_app_toml, Grow
  <2>. QED  BY <2>1, <2>2
<1>. QED  BY <1>1, <1>2, <1>3, <1>4, <1>5, <1>6, <1>7, <1>8, <1>9 DEF Next, Prepare

\* The trust values: a start's own requests, which are a pair if there is a
\* height, and a job's pair.
LEMMA TrustStep ==
    ASSUME TypeOK, TrustInv, [Next]_vars
    PROVE  TrustInv'
<1>. USE DEF TypeOK, FilesType, TrustInv, At, Goto, world, history, files, sync
<1>1. CASE get_sync_block_height
  BY <1>1 DEF get_sync_block_height
<1>2. CASE get_sync_block_hash
  BY <1>2 DEF get_sync_block_hash
<1>3. CASE SetIndexer
  <2>1. /\ At("set_indexer") /\ UNCHANGED <<sync, history>>
        /\ \/ phase' = "modify" /\ config' = config
           \/ /\ phase' = "dump_indexer" /\ config' = NoConfig /\ config # NoConfig
              /\ doc' = Set(config, "indexer", get_pruning_settings.indexer)
    BY <1>3, HasKeys DEF SetIndexer
  <2>2. /\ Set(config, "indexer", get_pruning_settings.indexer).trust_height = config.trust_height
        /\ Set(config, "indexer", get_pruning_settings.indexer).trust_hash = config.trust_hash
    <3>1. get_pruning_settings.indexer \in {"kv", "null"}
      BY DEF get_pruning_settings
    <3>2. Others(config, Set(config, "indexer", get_pruning_settings.indexer), "indexer")
      BY <3>1, SetConfig
    <3>. QED  BY <3>2 DEF Others, NoConfig
  <2>3. NoConfig.trust_height = NoConfig.trust_hash
    BY DEF NoConfig
  <2>. QED  BY <2>1, <2>2, <2>3
<1>4. CASE modify_config_toml
  BY <1>4, Modified DEF modify_config_toml, StartType
<1>5. CASE SetTrustHeight
  <2>1. /\ At("trust_height") /\ At("trust_hash")' /\ UNCHANGED sync
        /\ config' = SetIf(config, "trust_height", sync_height)
        /\ trusted' => trusted /\ sync_height = Nil
    <3>1. trusted' = (trusted /\ sync_height = Nil)
      BY <1>5 DEF SetTrustHeight
    <3>. QED  BY <1>5, <3>1 DEF SetTrustHeight
  <2>2. sync_height = Nil => config' = config
    BY <2>1 DEF SetIf
  <2>3. sync_height # Nil => config'.trust_height \in {Nil, sync_height}
    BY <2>1, SetConfig DEF SetIf, StartType
  <2>. QED  BY <2>1, <2>2, <2>3
<1>6. CASE SetTrustHash
  <2>1. /\ At("trust_hash") /\ At("k8speers")' /\ UNCHANGED sync
        /\ config' = SetIf(config, "trust_hash", sync_hash)
        /\ sync_height = Nil /\ trusted' => trusted /\ sync_hash = Nil
        /\ sync_height # Nil /\ trusted' => sync_hash \notin {Nil, Null}
    <3>1. trusted' = IF sync_height = Nil THEN trusted /\ sync_hash = Nil
                     ELSE sync_hash \notin {Nil, Null}
      BY <1>6 DEF SetTrustHash
    <3>. QED  BY <1>6, <3>1 DEF SetTrustHash
  <2>2. sync_hash = Nil => config' = config
    BY <2>1 DEF SetIf
  <2>3. ASSUME sync_height # Nil, sync_hash \notin {Nil, Null}
        PROVE  config'.trust_height = config'.trust_hash
    <3>1. config' = Set(config, "trust_hash", sync_hash)
      BY <2>1, <2>3 DEF SetIf
    <3>2. CASE config = NoConfig
      BY <3>1, <3>2 DEF Set, NoConfig
    <3>3. CASE config # NoConfig
      <4>1. config.trust_height = sync_height
        BY <2>1, <2>3, <3>3, HasKeys
      <4>2. sync_hash = sync_height /\ sync_hash \in Nat \union {Null}
        BY <2>3 DEF StartType
      <4>3. config' = [config EXCEPT !.trust_hash = sync_hash] /\ config \in Config
        BY <3>1, <3>3, HasKeys DEF Set
      <4>. QED  BY <4>1, <4>2, <4>3 DEF Config
    <3>. QED  BY <3>2, <3>3
  <2>. QED  BY <2>1, <2>2, <2>3
<1>7. CASE add_persistent_peers
  <2>1. /\ At("k8speers") /\ UNCHANGED <<sync, trusted>>
        /\ \/ phase' = "modify_app" /\ config' = config
           \/ /\ phase' = "dump_peers" /\ config' = NoConfig /\ config # NoConfig
              /\ doc' = [config EXCEPT !.persistent_peers = @ \union found']
    BY <1>7, HasKeys DEF add_persistent_peers
  <2>2. \A ps : config # NoConfig =>
            /\ [config EXCEPT !.persistent_peers = ps].trust_height = config.trust_height
            /\ [config EXCEPT !.persistent_peers = ps].trust_hash = config.trust_hash
    BY DEF Config, NoConfig
  <2>3. NoConfig.trust_height = NoConfig.trust_hash
    BY DEF NoConfig
  <2>. QED  BY <2>1, <2>2, <2>3
<1>8. CASE apply_statesync_config
  <2>1. config \in Config
    BY <1>8, HasKeys DEF apply_statesync_config
  <2>2. doc'.trust_height = doc'.trust_hash
    BY <1>8, <2>1 DEF apply_statesync_config, Config
  <2>3. NoConfig.trust_height = NoConfig.trust_hash
    BY DEF NoConfig
  <2>. QED  BY <1>8, <2>2, <2>3 DEF apply_statesync_config
<1>9. CASE DumpIndexer \/ DumpPeers
  BY <1>9 DEF DumpIndexer, DumpPeers, DumpConfig
<1>10. CASE DumpSync
  BY <1>10 DEF DumpSync, DumpConfig
<1>11. CASE Restart
  BY <1>11 DEF Restart
<1>12. CASE UNCHANGED vars
  BY <1>12 DEF vars
<1>13. CASE PruningRaises \/ set_pruning \/ DumpApp \/ modify_app_toml \/ Grow
  <2>1. UNCHANGED <<config, sync, trusted>> /\ (env' = env)
    BY <1>13 DEF PruningRaises, set_pruning, DumpApp, modify_app_toml, Grow
  <2>2. \/ /\ phase' \in {"dump_app", "modify", "set_indexer", "up"}
           /\ phase \notin {"height", "hash", "trust_hash", "dump_sync"}
        \/ UNCHANGED <<phase, doc>>
    BY <1>13 DEF PruningRaises, set_pruning, DumpApp, modify_app_toml, Grow
  <2>. QED  BY <2>1, <2>2
<1>. QED
  BY <1>1, <1>2, <1>3, <1>4, <1>5, <1>6, <1>7, <1>8, <1>9, <1>10, <1>11, <1>12, <1>13
     DEF Next, Prepare

-----------------------------------------------------------------------------
(* Theorems *)

\* The inductive invariant, for every chain of starts, kills and jobs.
THEOREM ConfigInvariant == Spec => []ConfigInv
<1>1. ConfigInv /\ [Next]_vars => ConfigInv'
  BY StartTypeStep, FilesTypeStep, PruningStep, IndexerStep, PeersStep, TrustStep
     DEF ConfigInv, TypeOK
<1>. QED  BY InitInv, <1>1, PTL DEF Spec

\* Every edit, dump and kill leaves the two files emptied or with all their
\* keys, and each key with a value of its type.
THEOREM TypeCorrect == Spec => []TypeOK
<1>1. ConfigInv => TypeOK
  BY DEF ConfigInv
<1>. QED  BY <1>1, ConfigInvariant, PTL

\* A node is up with the settings of its own environment (entrypoint.sh:69-83).
THEOREM SettingsHold == Spec => []SettingsOfThisStart
<1>1. ConfigInv => SettingsOfThisStart
  BY DEF ConfigInv, PruningInv, IndexerInv, SettingsOfThisStart, At
<1>. QED  BY <1>1, ConfigInvariant, PTL

\* A node is up with the peers of its environment and cluster
\* (entrypoint.sh:221, k8sutils.py:58-63).
THEOREM PeersHold == Spec => []PeersOfThisStart
<1>1. ConfigInv => PeersOfThisStart
  BY DEF ConfigInv, PeersInv, PeersOfThisStart, At
<1>. QED  BY <1>1, ConfigInvariant, PTL

\* The trusted hash is that of the trusted height, unless a request was not
\* answered with a block (entrypoint.sh:286-292, 372-395, statesync.py:29-35).
THEOREM TrustIsPaired == Spec => []TrustPaired
<1>1. ConfigInv => TrustPaired
  BY DEF ConfigInv, TrustInv, TrustPaired
<1>. QED  BY <1>1, ConfigInvariant, PTL

\* A validator keeps the blocks of the unbonding time, for any unbonding time
\* and block time of which four fit into a day (setpruning.py:45-60).
THEOREM RetentionCovers == Spec => []RetainsUnbonding
<1>1. ASSUME ConfigInv, At("up"), pruned, env.profile \in {"write", "snap"}, env.retain = Nil,
             app.min_retain_blocks # Nil
      PROVE  app.min_retain_blocks * MeanBlockTime >= unbonding
  <2>1. app.min_retain_blocks = get_pruning_settings.min_retain_blocks
    BY <1>1 DEF ConfigInv, PruningInv, Wanted, At
  <2>2. Computable /\ StartType
    BY <1>1 DEF ConfigInv, PruningInv, TypeOK
  <2>3. get_ctx.profile = env.profile /\ get_ctx.mean_block_time = MeanBlockTime
    BY <1>1, <2>2, ConfigAssumption DEF Computable, get_ctx, StartType, Custom
  <2>4. app.min_retain_blocks = calculate_min_retain_blocks(unbonding, MeanBlockTime, 1)
    BY <1>1, <2>1, <2>3 DEF get_pruning_settings
  <2>. QED  BY <2>2, <2>4, RetainsPeriod, ConfigAssumption DEF StartType
<1>2. ConfigInv => RetainsUnbonding
  BY <1>1 DEF RetainsUnbonding
<1>. QED  BY <1>2, ConfigInvariant, PTL

=============================================================================
