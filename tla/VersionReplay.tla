---------------------------- MODULE VersionReplay ----------------------------
(***************************************************************************)
(* A reference for the lookups of Versions: a chain that executes its      *)
(* blocks from the first one on and changes binary where its catalog says  *)
(* so.  The daemon and cosmovisor are external; what the code relies on is *)
(* that a binary halts before the first block it cannot execute, having    *)
(* written data/upgrade-info.json, and that cosmovisor then starts the     *)
(* binary named there.                                                     *)
(***************************************************************************)
EXTENDS Versions

CONSTANTS
    Catalogs,   \* the catalogs, sequences of entries
    MaxHeight   \* bound on the length of the chain

\* What an upgrade's plan on the chain may say of it: the URL of its binary, or
\* none for this architecture, in one of the forms.
Plans(entry) == [name : {entry.name}, form : Forms, url : {entry.binary, Nil}]

\* What the lookups rely on: versions have names and heights of their own, 0
\* standing for none, and the first one is the genesis version.
ASSUME CatalogAssumption ==
    /\ MaxHeight \in Nat
    /\ \A c \in Catalogs :
          /\ c \in Seq({c[i] : i \in DOMAIN c}) /\ c # <<>>
          /\ \A i \in DOMAIN c :
                /\ c[i].height \in Nat
                /\ get_arch_version(c[i]) # Nil
                /\ \A plan \in Plans(c[i]) : plan # Nil /\ UpgradeVersion(plan) \notin {Nil, Raised}
                /\ \A j \in DOMAIN c :
                      i # j => /\ c[i].name # c[j].name
                               /\ c[i].height > 0 => c[i].height # c[j].height
          /\ c[1].height <= 1

VARIABLES
    versions,      \* codebase['versions']
    history,       \* history[h]: the index of the binary that executed block h
    running,       \* the index of the binary that is started
    upgrade_info   \* data/upgrade-info.json

vars == <<versions, history, running, upgrade_info>>

Height == Len(history)

\* The upgrade to apply before block Height + 1: several entries may name one
\* height, they are applied in the order of the catalog.
Pending ==
    {i \in DOMAIN versions :
        /\ versions[i].height = Height + 1
        /\ versions[running].height < Height + 1 \/ running < i}

Init ==
    /\ versions \in Catalogs
    /\ history = <<>>
    /\ running = 1
    /\ upgrade_info = Nil

Commit ==
    /\ Pending = {}
    /\ Height < MaxHeight
    /\ upgrade_info # Nil => upgrade_info.name = versions[running].name
    /\ history' = Append(history, running)
    /\ UNCHANGED <<versions, running, upgrade_info>>

\* A slip: the upgrade is announced with the URL of the binary that halts.
HaltOldUrl ==
    /\ Height < MaxHeight
    /\ \E i \in Pending :
          upgrade_info' \in [ name : {versions[i].name}, form : Forms,
                              url : {versions[running].binary} ]
    /\ UNCHANGED <<versions, history, running>>

Halt ==
    /\ Height < MaxHeight
    /\ \E i \in Pending :
          /\ \A j \in Pending : i <= j
          /\ upgrade_info # Nil => upgrade_info.name # versions[i].name
          /\ upgrade_info' \in Plans(versions[i])
    /\ UNCHANGED <<versions, history, running>>

Swap ==
    /\ upgrade_info # Nil
    /\ upgrade_info.name # versions[running].name
    /\ running' = CHOOSE i \in DOMAIN versions : versions[i].name = upgrade_info.name
    /\ UNCHANGED <<versions, history, upgrade_info>>

Next == Commit \/ Halt \/ Swap

Spec == Init /\ [][Next]_vars

-----------------------------------------------------------------------------
(* Properties *)

\* Every variable has its type.
TypeOK ==
    /\ versions \in Catalogs
    /\ history \in Seq(DOMAIN versions)
    /\ running \in DOMAIN versions
    /\ upgrade_info # Nil =>
          \E i \in DOMAIN versions : upgrade_info \in Plans(versions[i])

\* The binary that executed a block is the one get_version_at_height finds for
\* it (initversion.py:39-57), whatever order the catalog lists its heights in;
\* it finds none exactly for the blocks before the first height of the catalog.
StatusVersionRight ==
    \A h \in DOMAIN history :
       LET found == get_version_at_height(versions, h)
       IN  IF found = Nil
           THEN history[h] = 1 /\ \A i \in DOMAIN versions : versions[i].height \notin 1..h
           ELSE found.name = versions[history[h]].name

\* With no override and data/ as the daemon left it, whether or not a
\* status.json lies in it, the selection of initversion.py:98-107 finds no
\* other binary than the one for the next block as soon as one upgrade has been
\* announced, also between the halt and the swap: it raises if the plan cannot
\* be parsed or its link does not answer (initversion.py:60-81), and otherwise
\* has that binary's name, and its URL unless the plan has none for this
\* architecture.
NextBlockVersionRight ==
    LET env     == [binary_url |-> Nil, binary_version |-> Nil,
                    statesync |-> FALSE, restore_snapshot |-> FALSE]
        due     == IF Pending = {} THEN running
                   ELSE CHOOSE i \in Pending : \A j \in Pending : i <= j
    IN  upgrade_info # Nil /\ (Pending # {} => upgrade_info.name = versions[due].name) =>
          \A status \in {Nil, Height}, answered \in BOOLEAN :
             LET found == main_version(versions, Nil, env,
                             [dir |-> TRUE, upgrade_info |-> upgrade_info, status |-> status],
                             answered)
             IN  IF Readable(upgrade_info, answered)
                 THEN /\ found \notin {Nil, Raised}
                      /\ found.name = versions[due].name
                      /\ found.binary_url \in {versions[due].binary, Nil}
                 ELSE found = Raised

\* Past the last height of a catalog that lists its heights in order, the
\* version taken for an existing data directory (initversion.py:104-107) is
\* the one that runs.
LatestVersionRight ==
    LET inorder == \A i, j \in DOMAIN versions :
                      i < j => versions[i].height < versions[j].height
    IN  inorder /\ (\A i \in DOMAIN versions : versions[i].height <= Height) =>
          get_chain_json_latest_version(versions).name = versions[running].name

=============================================================================
