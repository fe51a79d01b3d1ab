------------------------- MODULE VersionReplayProofs -------------------------
(***************************************************************************)
(* Theorems about VersionReplay: the lookups find the binary that executes *)
(* the block, for catalogs and chains of any length.                       *)
(***************************************************************************)
EXTENDS VersionReplay, VersionsProofs

-----------------------------------------------------------------------------
(* The invariant *)

\* i is the entry of the catalog that executes block h.
EntryAt(i, h) ==
    \/ i = 1 /\ \A j \in DOMAIN versions : versions[j].height \notin 1..h
    \/ /\ versions[i].height \in 1..h
       /\ \A j \in DOMAIN versions :
             versions[j].height \in 1..h => versions[j].height <= versions[i].height

\* Every block was executed by its entry; the binary that runs executed the
\* last block or was swapped in for the next; what is announced but not
\* swapped in is the upgrade for the next block.
ReplayInv ==
    /\ TypeOK
    /\ \A h \in DOMAIN history : EntryAt(history[h], h)
    /\ EntryAt(running, Height) \/ versions[running].height = Height + 1
    /\ upgrade_info # Nil /\ upgrade_info.name # versions[running].name =>
          \E i \in DOMAIN versions : /\ versions[i].name = upgrade_info.name
                                     /\ versions[i].height = Height + 1

\* What the catalog assumption says of the catalog of this behavior.
LEMMA Catalog ==
    ASSUME TypeOK
    PROVE  /\ Len(versions) \in Nat \ {0} /\ DOMAIN versions = 1 .. Len(versions)
           /\ Numbered(versions) /\ versions[1].height <= 1
           /\ \A i, j \in DOMAIN versions :
                 i # j => /\ versions[i].name # versions[j].name
                          /\ versions[i].height > 0 => versions[i].height # versions[j].height
<1>1. versions \in Catalogs
  BY DEF TypeOK
<1>2. /\ versions \in Seq({versions[i] : i \in DOMAIN versions}) /\ versions # <<>>
      /\ versions[1].height <= 1
      /\ \A i \in DOMAIN versions :
            /\ versions[i].height \in Nat
            /\ \A j \in DOMAIN versions :
                 i # j => /\ versions[i].name # versions[j].name
                          /\ versions[i].height > 0 => versions[i].height # versions[j].height
  BY <1>1, CatalogAssumption
<1>. DEFINE Entries == {versions[i] : i \in DOMAIN versions}
<1>3. Len(versions) \in Nat \ {0} /\ DOMAIN versions = 1 .. Len(versions)
  <2>. HIDE DEF Entries
  <2>1. versions \in Seq(Entries)
    BY <1>2 DEF Entries
  <2>. QED  BY <1>2, <2>1
<1>. QED  BY <1>2, <1>3 DEF Numbered

\* The height of the chain, and the entries compared with it.
LEMMA Heights ==
    ASSUME TypeOK
    PROVE  /\ Height \in Nat /\ DOMAIN history = 1 .. Height
           /\ \A h \in DOMAIN history : history[h] \in DOMAIN versions
           /\ running \in DOMAIN versions /\ running \in Nat /\ versions[running].height \in Nat
<1>1. history \in Seq(DOMAIN versions) /\ running \in DOMAIN versions
  BY DEF TypeOK
<1>2. Height \in Nat /\ DOMAIN history = 1 .. Height
      /\ \A h \in DOMAIN history : history[h] \in DOMAIN versions
  BY <1>1 DEF Height
<1>. QED  BY <1>1, <1>2, Catalog DEF Numbered

\* With no upgrade pending the binary that runs is the one for the next block.
LEMMA RunsNext ==
    ASSUME ReplayInv, Pending = {}
    PROVE  EntryAt(running, Height + 1)
<1>. USE DEF ReplayInv
<1>1. \A i \in DOMAIN versions : i \in Nat /\ versions[i].height \in Nat
  BY Catalog DEF Numbered
<1>2. CASE versions[running].height = Height + 1
  BY <1>1, <1>2, Heights DEF EntryAt
<1>3. CASE versions[running].height # Height + 1
  <2>1. EntryAt(running, Height)
    BY <1>3
  <2>2. versions[running].height < Height + 1
    BY <1>3, <2>1, Catalog, Heights DEF EntryAt
  <2>3. \A i \in DOMAIN versions : versions[i].height # Height + 1
    BY <2>2 DEF Pending
  <2>. QED  BY <1>1, <2>1, <2>3, Heights DEF EntryAt
<1>. QED  BY <1>2, <1>3

\* An announced upgrade that is not swapped in is pending.
LEMMA AnnouncedIsPending ==
    ASSUME ReplayInv, NEW i \in DOMAIN versions, i # running, versions[i].height = Height + 1
    PROVE  i \in Pending
<1>1. versions[running].height # Height + 1
  BY Catalog, Heights DEF ReplayInv
<1>2. versions[running].height < Height + 1
  BY <1>1, Catalog, Heights DEF ReplayInv, EntryAt
<1>. QED  BY <1>2 DEF Pending

-----------------------------------------------------------------------------
(* The steps *)

LEMMA InitReplay == Init => ReplayInv
<1>. SUFFICES ASSUME Init PROVE ReplayInv
  OBVIOUS
<1>1. TypeOK
  <2>1. versions \in Seq({versions[i] : i \in DOMAIN versions}) /\ versions # <<>>
    BY CatalogAssumption DEF Init
  <2>2. 1 \in DOMAIN versions
    BY <2>1
  <2>. QED  BY <2>2 DEF Init, TypeOK
<1>2. EntryAt(1, 0)
  BY DEF EntryAt
<1>. QED  BY <1>1, <1>2 DEF Init, ReplayInv, Height

LEMMA CommitStep ==
    ASSUME ReplayInv, Commit
    PROVE  ReplayInv'
<1>. USE DEF ReplayInv
<1>1. /\ history' = Append(history, running) /\ UNCHANGED <<versions, running, upgrade_info>>
      /\ history \in Seq(DOMAIN versions) /\ running \in DOMAIN versions
  BY DEF Commit, TypeOK
<1>2. /\ history' \in Seq(DOMAIN versions) /\ Len(history') = Height + 1
      /\ DOMAIN history' = 1 .. Height + 1
      /\ \A h \in 1 .. Height : history'[h] = history[h]
      /\ history'[Height + 1] = running
  BY <1>1 DEF Height
<1>3. TypeOK'
  BY <1>1, <1>2 DEF TypeOK
<1>4. EntryAt(running, Height + 1)
  BY RunsNext DEF Commit
<1>5. \A h \in DOMAIN history' : EntryAt(history'[h], h)
  <2>1. \A h \in 1 .. Height + 1 : h \in 1 .. Height \/ h = Height + 1
    BY Heights
  <2>. QED  BY <1>2, <1>4, <2>1, Heights
<1>6. \A i, h : EntryAt(i, h)' <=> EntryAt(i, h)
  BY <1>1 DEF EntryAt
<1>7. Height' = Height + 1
  BY <1>2 DEF Height
<1>8. upgrade_info' # Nil => upgrade_info'.name = versions'[running'].name
  BY <1>1 DEF Commit
<1>9. (\A h \in DOMAIN history : EntryAt(history[h], h))'
  BY <1>1, <1>5 DEF EntryAt
<1>10. EntryAt(running, Height)'
  BY <1>1, <1>4, <1>7 DEF EntryAt
<1>. QED  BY <1>3, <1>8, <1>9, <1>10

LEMMA HaltStep ==
    ASSUME ReplayInv, Halt
    PROVE  ReplayInv'
<1>. USE DEF ReplayInv
<1>1. PICK i \in Pending : upgrade_info' \in Plans(versions[i])
  BY DEF Halt
<1>2. UNCHANGED <<versions, history, running>>
  BY DEF Halt
<1>3. i \in DOMAIN versions /\ versions[i].height = Height + 1
  BY <1>1 DEF Pending
<1>4. TypeOK'
  BY <1>1, <1>2, <1>3 DEF TypeOK
<1>5. upgrade_info'.name = versions[i].name
  BY <1>1 DEF Plans
<1>. QED  BY <1>2, <1>3, <1>4, <1>5 DEF EntryAt, Height

LEMMA SwapStep ==
    ASSUME ReplayInv, Swap
    PROVE  ReplayInv'
<1>. USE DEF ReplayInv
<1>1. PICK i \in DOMAIN versions :
          versions[i].name = upgrade_info.name /\ versions[i].height = Height + 1
  BY DEF Swap
<1>2. running' = i
  <2>1. \A j \in DOMAIN versions : versions[j].name = upgrade_info.name => j = i
    BY <1>1, Catalog
  <2>. QED  BY <1>1, <2>1 DEF Swap
<1>3. UNCHANGED <<versions, history, upgrade_info>>
  BY DEF Swap
<1>4. TypeOK'
  BY <1>2, <1>3 DEF TypeOK
<1>5. versions'[running'].height = Height' + 1 /\ versions'[running'].name = upgrade_info'.name
  BY <1>1, <1>2, <1>3 DEF Height
<1>. QED  BY <1>3, <1>4, <1>5 DEF EntryAt, Height

\* Every behavior keeps to the invariant.
THEOREM ReplayInvariant == Spec => []ReplayInv
<1>1. ReplayInv /\ [Next]_vars => ReplayInv'
  <2>. SUFFICES ASSUME ReplayInv, [Next]_vars PROVE ReplayInv'
    OBVIOUS
  <2>1. CASE UNCHANGED vars
    BY <2>1 DEF vars, ReplayInv, TypeOK, EntryAt, Height
  <2>. QED  BY <2>1, CommitStep, HaltStep, SwapStep DEF Next
<1>. QED  BY InitReplay, <1>1, PTL DEF Spec

-----------------------------------------------------------------------------
(* The lookups *)

\* Every variable has its type, for any catalogs.
THEOREM ReplayTypeCorrect == Spec => []TypeOK
<1>1. ReplayInv => TypeOK
  BY DEF ReplayInv
<1>. QED  BY <1>1, ReplayInvariant, PTL

\* get_version_at_height finds the binary that executed a block, in whatever
\* order the catalog lists its heights (initversion.py:39-57).
THEOREM StatusIsRight == Spec => []StatusVersionRight
<1>1. ASSUME ReplayInv, NEW h \in DOMAIN history
      PROVE  LET found == get_version_at_height(versions, h)
             IN  IF found = Nil
                 THEN history[h] = 1 /\ \A i \in DOMAIN versions : versions[i].height \notin 1..h
                 ELSE found.name = versions[history[h]].name
  <2>. DEFINE found == get_version_at_height(versions, h)
  <2>0. /\ TypeOK /\ h \in Nat /\ history[h] \in DOMAIN versions
        /\ EntryAt(history[h], h) /\ Numbered(versions)
    BY <1>1, Heights, Catalog DEF ReplayInv
  <2>1. \A i \in DOMAIN versions :
           i \in Eligible(versions, h) <=> versions[i].height \in 1..h
    BY <2>0 DEF Eligible, Numbered
  <2>2. CASE Eligible(versions, h) = {}
    <3>1. found = Nil
      BY <2>0, <2>2, AtHeight
    <3>. HIDE DEF found
    <3>. QED  BY <2>0, <2>1, <2>2, <3>1 DEF EntryAt, found
  <2>3. CASE Eligible(versions, h) # {}
    <3>1. PICK i \in Eligible(versions, h) :
              /\ found = get_arch_version(versions[i])
              /\ \A j \in Eligible(versions, h) :
                    \/ versions[j].height < versions[i].height
                    \/ versions[j].height = versions[i].height /\ i <= j
      BY <2>0, <2>3, AtHeight
    <3>. HIDE DEF found
    <3>2. i \in DOMAIN versions /\ versions[i].height \in 1..h
      BY <2>1 DEF Eligible
    <3>3. history[h] = i
      <4>1. versions[history[h]].height \in 1..h
            /\ versions[i].height <= versions[history[h]].height
        BY <2>0, <3>2 DEF EntryAt
      <4>2. versions[history[h]].height <= versions[i].height
        BY <2>0, <2>1, <3>1, <3>2, <4>1 DEF Numbered
      <4>3. versions[history[h]].height = versions[i].height /\ versions[i].height > 0
        BY <2>0, <3>2, <4>1, <4>2 DEF Numbered
      <4>. QED  BY <2>0, <3>2, <4>3, Catalog
    <3>4. found # Nil /\ found.name = versions[i].name
      <4>1. get_arch_version(versions[i]) # Nil
        BY <2>0, <3>2, CatalogAssumption DEF TypeOK
      <4>2. get_arch_version(versions[i]).name = versions[i].name
        BY DEF get_arch_version
      <4>. QED  BY <3>1, <4>1, <4>2
    <3>. QED  BY <3>3, <3>4 DEF found
  <2>. QED  BY <2>2, <2>3
<1>2. ReplayInv => StatusVersionRight
  BY <1>1 DEF StatusVersionRight
<1>. QED  BY <1>2, ReplayInvariant, PTL

\* As soon as an upgrade is announced, the selection finds the binary that can
\* execute the next block, with or without a status.json, or raises on a plan
\* it cannot read, and finds no other (initversion.py:60-81, 98-107).
THEOREM NextBlockIsRight == Spec => []NextBlockVersionRight
<1>1. ASSUME ReplayInv, upgrade_info # Nil, NEW due \in DOMAIN versions,
             upgrade_info.name = versions[due].name, NEW answered \in BOOLEAN
      PROVE  LET found == get_upgrade_info_version(upgrade_info, answered)
             IN  IF Readable(upgrade_info, answered)
                 THEN /\ found \notin {Nil, Raised}
                      /\ found.name = versions[due].name
                      /\ found.binary_url \in {versions[due].binary, Nil}
                 ELSE found = Raised
  <2>1. PICK i \in DOMAIN versions : upgrade_info \in Plans(versions[i])
    BY <1>1 DEF ReplayInv, TypeOK
  <2>2. upgrade_info.name = versions[i].name /\ upgrade_info.url \in {versions[i].binary, Nil}
    BY <2>1 DEF Plans
  <2>3. i = due
    BY <1>1, <2>2, Catalog DEF ReplayInv
  <2>4. UpgradeVersion(upgrade_info) \notin {Nil, Raised}
    BY <1>1, <2>1, CatalogAssumption DEF ReplayInv, TypeOK
  <2>. QED  BY <2>2, <2>3, <2>4 DEF get_upgrade_info_version, UpgradeVersion
<1>2. ASSUME ReplayInv, upgrade_info # Nil, Pending = {}
      PROVE  upgrade_info.name = versions[running].name
  <2>1. SUFFICES ASSUME upgrade_info.name # versions[running].name PROVE FALSE
    OBVIOUS
  <2>2. PICK i \in DOMAIN versions : /\ versions[i].name = upgrade_info.name
                                     /\ versions[i].height = Height + 1
    BY <1>2, <2>1 DEF ReplayInv
  <2>3. i # running
    BY <2>1, <2>2
  <2>4. i \in Pending
    BY <1>2, <2>2, <2>3, AnnouncedIsPending
  <2>. QED  BY <1>2, <2>4
<1>3. ASSUME ReplayInv, Pending # {}
      PROVE  (CHOOSE i \in Pending : \A j \in Pending : i <= j) \in DOMAIN versions
  <2>1. Pending \subseteq Nat /\ Pending \subseteq DOMAIN versions
    BY <1>3, Catalog DEF Pending, Numbered, ReplayInv
  <2>. QED  BY <1>3, <2>1, Least
<1>4. ReplayInv => NextBlockVersionRight
  <2>. SUFFICES ASSUME ReplayInv PROVE NextBlockVersionRight
    OBVIOUS
  <2>. DEFINE env == [binary_url |-> Nil, binary_version |-> Nil,
                      statesync |-> FALSE, restore_snapshot |-> FALSE]
              due == IF Pending = {} THEN running
                     ELSE CHOOSE i \in Pending : \A j \in Pending : i <= j
  <2>1. \A status, answered : upgrade_info # Nil =>
            main_version(versions, Nil, env,
                         [dir |-> TRUE, upgrade_info |-> upgrade_info, status |-> status],
                         answered)
               = get_upgrade_info_version(upgrade_info, answered)
    BY DEF main_version
  <2>2. due \in DOMAIN versions
    BY <1>3, Heights DEF ReplayInv
  <2>3. upgrade_info # Nil /\ (Pending # {} => upgrade_info.name = versions[due].name)
           => upgrade_info.name = versions[due].name
    BY <1>2
  <2>. HIDE DEF due
  <2>4. upgrade_info # Nil /\ (Pending # {} => upgrade_info.name = versions[due].name)
           => \A answered \in BOOLEAN :
                 LET found == get_upgrade_info_version(upgrade_info, answered)
                 IN  IF Readable(upgrade_info, answered)
                     THEN /\ found \notin {Nil, Raised}
                          /\ found.name = versions[due].name
                          /\ found.binary_url \in {versions[due].binary, Nil}
                     ELSE found = Raised
    BY <1>1, <2>2, <2>3
  <2>. QED  BY <2>1, <2>4 DEF NextBlockVersionRight, due
<1>. QED  BY <1>4, ReplayInvariant, PTL

\* Past the last height of a catalog in order, its last entry is the one that
\* runs (initversion.py:104-107).
THEOREM LatestIsRight == Spec => []LatestVersionRight
<1>1. ASSUME ReplayInv,
             \A i, j \in DOMAIN versions : i < j => versions[i].height < versions[j].height,
             \A i \in DOMAIN versions : versions[i].height <= Height
      PROVE  get_chain_json_latest_version(versions).name = versions[running].name
  <2>. DEFINE n == Len(versions)
  <2>0. /\ n \in Nat \ {0} /\ DOMAIN versions = 1 .. n /\ Numbered(versions)
        /\ running \in 1 .. n /\ Height \in Nat
    BY <1>1, Catalog, Heights DEF ReplayInv
  <2>1. EntryAt(running, Height)
    BY <1>1, <2>0 DEF ReplayInv, Numbered
  <2>2. running = n
    <3>. HIDE DEF n
    <3>0. SUFFICES ASSUME running < n PROVE FALSE
      BY <2>0
    <3>1. versions[running].height < versions[n].height
      BY <1>1, <2>0, <3>0
    <3>2. versions[n].height \in 1 .. Height
      BY <1>1, <2>0, <3>1 DEF Numbered
    <3>. QED  BY <2>0, <2>1, <3>1, <3>2 DEF EntryAt, Numbered
  <2>3. versions # <<>>
    BY <2>0
  <2>. QED  BY <2>2, <2>3 DEF get_chain_json_latest_version, get_arch_version
<1>2. ReplayInv => LatestVersionRight
  BY <1>1 DEF LatestVersionRight
<1>. QED  BY <1>2, ReplayInvariant, PTL

===============================================================================
