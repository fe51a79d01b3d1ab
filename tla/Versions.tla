------------------------------ MODULE Versions ------------------------------
(***************************************************************************)
(* Which version of the daemon gets installed: the catalog lookups of      *)
(* bin/getchaininfo.py, the height lookup and the selection of             *)
(* bin/initversion.py.  Pure operators; no state.                          *)
(*                                                                         *)
(* An entry of codebase['versions'] is a record                            *)
(*   name                        the name of the upgrade                   *)
(*   tag, recommended_version    Nil when the key is missing               *)
(*   height                      0 when the key is missing or empty        *)
(*   binary, docker_binary       the URLs under <arch> and docker/<arch>,  *)
(*                               Nil when missing                          *)
(*   libraries                   the sequence of [file, url] of <arch>     *)
(*                                                                         *)
(* A version, what the lookups return and create_cv_upgrade consumes, is   *)
(*   name, binary_url, libraries                                           *)
(*   height                      Nil when the dict has no "height" key     *)
(* The tag, git_repo and recommended_version a lookup also returns are     *)
(* read by nobody and are left out.                                        *)
(***************************************************************************)
EXTENDS Naturals, Sequences

CONSTANTS
    Nil,      \* Python's None, and an absent file, key or variable
    Raised,   \* the lookup ended in an exception
    Custom    \* the name given to a BINARY_URL without a BINARY_VERSION

ASSUME SentinelAssumption == Nil # Raised

-----------------------------------------------------------------------------
(* bin/cvutils.py, bin/getchaininfo.py *)

get_arch_version(entry) ==
    [ name       |-> entry.name,
      binary_url |-> IF entry.binary # Nil THEN entry.binary ELSE entry.docker_binary,
      libraries  |-> entry.libraries,
      height     |-> entry.height ]

\* The keys a version can be asked for by.
Labels(entry) == {entry.tag, entry.name, entry.recommended_version} \ {Nil}

\* The first entry that carries the label.
get_chain_json_version(versions, label) ==
    LET matches == {i \in DOMAIN versions : label \in Labels(versions[i])}
    IN  IF matches = {}
        THEN Nil
        ELSE get_arch_version(versions[CHOOSE i \in matches : \A j \in matches : i <= j])

\* A slip the checks must notice: the first entry for the last.
latest_is_first(versions) ==
    IF versions = <<>> THEN Nil ELSE get_arch_version(versions[1])

get_chain_json_latest_version(versions) ==
    IF versions = <<>> THEN Nil ELSE get_arch_version(versions[Len(versions)])

get_chain_json_first_version(versions) ==
    IF versions = <<>> THEN Nil ELSE get_arch_version(versions[1])

\* chain.json's codebase.genesis.version: when it is there the lookup is
\* called without its ctx argument, a TypeError.
get_chain_json_genesis_version(versions, genesis_version) ==
    IF genesis_version # Nil THEN Raised ELSE get_chain_json_first_version(versions)

-----------------------------------------------------------------------------
(* bin/initversion.py *)

\* A slip: strictly below the height.
strictly_below_height(versions, height) ==
    LET eligible == {i \in DOMAIN versions :
                        versions[i].height > 0 /\ versions[i].height < height}
    IN  IF eligible = {}
        THEN Nil
        ELSE get_arch_version(versions[CHOOSE i \in eligible :
                \A j \in eligible : versions[i].height >= versions[j].height])

\* The entries sorted by height, highest first, then the first one at or
\* below the height.  The sort is stable, so of equal heights the entry
\* listed first wins.
get_version_at_height(versions, height) ==
    LET eligible == {i \in DOMAIN versions :
                        versions[i].height > 0 /\ versions[i].height <= height}
        precedes(i, j) == \/ versions[i].height > versions[j].height
                          \/ versions[i].height = versions[j].height /\ i <= j
    IN  IF eligible = {}
        THEN Nil
        ELSE get_arch_version(versions[CHOOSE i \in eligible :
                                          \A j \in eligible : precedes(i, j)])

(***************************************************************************)
(* data/upgrade-info.json is [name, form, url].  The form says how the     *)
(* text under "info" is taken:                                             *)
(*   "link"      it ends in .json: what is fetched from there is the JSON  *)
(*   "binaries"  it contains 'binaries': it is the JSON itself             *)
(*   "text"      anything else: the URL                                    *)
(*   "bad"       the file, or the JSON in it, cannot be parsed             *)
(* url is the text, or what the JSON has under <arch>; Nil: nothing.       *)
(***************************************************************************)
Forms == {"link", "binaries", "text", "bad"}

\* answered: the link, if it is one, gave JSON.
Readable(info, answered) == info.form # "bad" /\ (info.form = "link" => answered)

\* No libraries and no height.
UpgradeVersion(info) ==
    [ name |-> info.name, binary_url |-> info.url, libraries |-> <<>>, height |-> Nil ]

get_upgrade_info_version(info, answered) ==
    IF Readable(info, answered) THEN UpgradeVersion(info) ELSE Raised

binary_url_version(env) ==
    [ name       |-> IF env.binary_version # Nil THEN env.binary_version ELSE Custom,
      binary_url |-> env.binary_url,
      libraries  |-> <<>>,
      height     |-> Nil ]

\* A slip: status.json is asked before upgrade-info.json.
status_first(versions, genesis_version, env, disk, answered) ==
    IF env.binary_url # Nil THEN binary_url_version(env)
    ELSE IF env.binary_version # Nil THEN get_chain_json_version(versions, env.binary_version)
    ELSE IF disk.status # Nil THEN get_version_at_height(versions, disk.status)
    ELSE IF disk.upgrade_info # Nil THEN get_upgrade_info_version(disk.upgrade_info, answered)
    ELSE get_chain_json_latest_version(versions)

\* A slip: upgrade-info.json is not looked at.
no_upgrade_info(versions, genesis_version, env, disk, answered) ==
    IF disk.dir \/ env.statesync \/ env.restore_snapshot
    THEN get_chain_json_latest_version(versions)
    ELSE get_chain_json_genesis_version(versions, genesis_version)

(***************************************************************************)
(* The if/elif chain of main.  env holds the container's variables         *)
(* [binary_url, binary_version, statesync, restore_snapshot]; disk what    *)
(* the volume holds [dir, upgrade_info, status]: whether data/ exists, the *)
(* content of data/upgrade-info.json and the height in data/status.json.   *)
(***************************************************************************)
main_version(versions, genesis_version, env, disk, answered) ==
    IF env.binary_url # Nil THEN binary_url_version(env)
    ELSE IF env.binary_version # Nil THEN get_chain_json_version(versions, env.binary_version)
    ELSE IF disk.upgrade_info # Nil THEN get_upgrade_info_version(disk.upgrade_info, answered)
    ELSE IF disk.status # Nil THEN get_version_at_height(versions, disk.status)
    ELSE IF disk.dir \/ env.statesync \/ env.restore_snapshot
         THEN get_chain_json_latest_version(versions)
    ELSE get_chain_json_genesis_version(versions, genesis_version)

=============================================================================
