---------------------------- MODULE VersionsProofs ----------------------------
(***************************************************************************)
(* What the lookups of Versions return, for a catalog of any length.       *)
(***************************************************************************)
EXTENDS Versions, WellFoundedInduction, TLAPS

\* A set of numbers has a least one, and a greatest one if it is bounded.
LEMMA Least ==
    ASSUME NEW T, T \subseteq Nat, T # {}
    PROVE  \E m \in T : \A k \in T : m <= k
<1>1. PICK R : IsWellFoundedOn(R, Nat) /\ \A a, b \in Nat : a < b => <<a, b>> \in R
  <2>1. \A a, b \in Nat : a < b => <<a, b>> \in OpToRel(<, Nat)
    BY DEF OpToRel
  <2>. QED  BY <2>1, NatLessThanWellFounded
<1>2. IsWellFoundedOn(R, Nat)
  BY <1>1
<1>3. \E m \in T : \A k \in T : ~(<<k, m>> \in R)
  BY <1>2, WFMin, Zenon
<1>4. PICK m \in T : \A k \in T : ~(<<k, m>> \in R)
  BY <1>3
<1>5. \A k \in T : ~(k < m)
  BY <1>1, <1>4
<1>. QED  BY <1>5

LEMMA Greatest ==
    ASSUME NEW T, T \subseteq Nat, T # {}, NEW b \in Nat, \A k \in T : k <= b
    PROVE  \E m \in T : \A k \in T : k <= m
<1>. DEFINE D == {n \in Nat : b - n \in T}
<1>1. D \subseteq Nat /\ D # {}
  <2>1. PICK k \in T : k <= b
    OBVIOUS
  <2>2. b - k \in Nat /\ b - (b - k) = k
    BY <2>1
  <2>. QED  BY <2>1, <2>2
<1>2. PICK n \in D : \A k \in D : n <= k
  BY <1>1, Least
<1>3. \A k \in T : b - k \in D
  <2>. TAKE k \in T
  <2>1. b - k \in Nat /\ b - (b - k) = k
    OBVIOUS
  <2>. QED  BY <2>1
<1>4. b - n \in T
  BY <1>2
<1>5. \A k \in T : k <= b - n
  <2>. TAKE k \in T
  <2>1. n <= b - k
    BY <1>2, <1>3
  <2>. QED  BY <2>1, <1>2
<1>. QED  BY <1>4, <1>5

\* A catalog, as far as the lookups compare its entries.
Numbered(versions) == \A i \in DOMAIN versions : i \in Nat /\ versions[i].height \in Nat

Eligible(versions, height) ==
    {i \in DOMAIN versions : versions[i].height > 0 /\ versions[i].height <= height}

\* get_version_at_height finds an entry of the greatest height at or below the
\* one asked for, of several the one listed first, and nothing only if no
\* entry has such a height (initversion.py:39-57).
THEOREM AtHeight ==
    ASSUME NEW versions, Numbered(versions), NEW height \in Nat
    PROVE  /\ Eligible(versions, height) = {} => get_version_at_height(versions, height) = Nil
           /\ Eligible(versions, height) # {} =>
                 \E i \in Eligible(versions, height) :
                    /\ get_version_at_height(versions, height) = get_arch_version(versions[i])
                    /\ \A j \in Eligible(versions, height) :
                          \/ versions[j].height < versions[i].height
                          \/ versions[j].height = versions[i].height /\ i <= j
<1>. DEFINE E == Eligible(versions, height)
            First(i) == \A j \in E : \/ versions[i].height > versions[j].height
                                     \/ versions[i].height = versions[j].height /\ i <= j
<1>1. CASE E = {}
  BY <1>1 DEF get_version_at_height, Eligible
<1>2. CASE E # {}
  <2>1. \A i \in E : i \in Nat /\ versions[i].height \in Nat /\ versions[i].height <= height
    BY DEF Numbered, Eligible
  <2>. DEFINE H == {versions[i].height : i \in E}
  <2>2. PICK h \in H : \A k \in H : k <= h
    <3>1. H \subseteq Nat /\ H # {} /\ \A k \in H : k <= height
      BY <1>2, <2>1
    <3>. HIDE DEF H
    <3>. QED  BY <3>1, Greatest
  <2>. DEFINE T == {i \in E : versions[i].height = h}
  <2>3. PICK i \in T : \A k \in T : i <= k
    <3>1. T \subseteq Nat /\ T # {}
      BY <2>1, <2>2
    <3>. HIDE DEF T
    <3>. QED  BY <3>1, Least
  <2>4. i \in E /\ First(i)
    <3>. SUFFICES ASSUME NEW j \in E
                  PROVE  \/ versions[i].height > versions[j].height
                         \/ versions[i].height = versions[j].height /\ i <= j
      BY <2>3
    <3>1. versions[j].height \in H /\ versions[i].height = h
      BY <2>3
    <3>2. versions[j].height <= h /\ h \in Nat
      BY <2>1, <2>2, <3>1
    <3>3. versions[j].height = h => i <= j
      BY <2>3
    <3>. QED  BY <2>1, <3>1, <3>2, <3>3
  <2>. DEFINE c == CHOOSE k \in E : First(k)
  <2>5. c \in E /\ First(c)
    <3>. HIDE DEF E, First
    <3>. QED  BY <2>4
  <2>6. get_version_at_height(versions, height) = get_arch_version(versions[c])
    BY <1>2 DEF get_version_at_height, Eligible
  <2>. HIDE DEF c
  <2>7. \A j \in E : \/ versions[j].height < versions[c].height
                     \/ versions[j].height = versions[c].height /\ c <= j
    BY <2>1, <2>5
  <2>. QED  BY <1>2, <2>5, <2>6, <2>7
<1>. QED  BY <1>1, <1>2

\* get_chain_json_version finds the first entry that carries the label, if one
\* does (getchaininfo.py:82-93).
THEOREM ByLabel ==
    ASSUME NEW versions, Numbered(versions), NEW label
    PROVE  /\ (\A i \in DOMAIN versions : label \notin Labels(versions[i]))
                 => get_chain_json_version(versions, label) = Nil
           /\ (\E i \in DOMAIN versions : label \in Labels(versions[i]))
                 => \E i \in DOMAIN versions :
                       /\ label \in Labels(versions[i])
                       /\ \A j \in DOMAIN versions : label \in Labels(versions[j]) => i <= j
                       /\ get_chain_json_version(versions, label) = get_arch_version(versions[i])
<1>. DEFINE T == {i \in DOMAIN versions : label \in Labels(versions[i])}
<1>1. CASE T = {}
  BY <1>1 DEF get_chain_json_version
<1>2. CASE T # {}
  <2>1. T \subseteq Nat
    BY DEF Numbered
  <2>. DEFINE c == CHOOSE i \in T : \A j \in T : i <= j
  <2>2. c \in T /\ \A j \in T : c <= j
    <3>. HIDE DEF T
    <3>. QED  BY <1>2, <2>1, Least
  <2>3. get_chain_json_version(versions, label) = get_arch_version(versions[c])
    BY <1>2 DEF get_chain_json_version
  <2>. HIDE DEF c
  <2>. QED  BY <1>2, <2>2, <2>3
<1>. QED  BY <1>1, <1>2

\* A BINARY_URL or a BINARY_VERSION overrides what the volume says.
Overridden(env) == env.binary_url # Nil \/ env.binary_version # Nil

\* No entry carries the label.
Unlabelled(versions, label) == \A i \in DOMAIN versions : label \notin Labels(versions[i])

\* All that main may come to, for any environment and disk: the BINARY_URL;
\* the plan of upgrade-info.json, or an exception if it cannot be read; an
\* entry of the catalog; an exception for a genesis version in chain.json; and
\* no version at all for a BINARY_VERSION no entry carries and for a
\* status below every height of the catalog, which main passes over as if
\* nothing were to be installed (initversion.py:84-123).
THEOREM Chosen ==
    ASSUME NEW versions, Numbered(versions), versions # <<>>, DOMAIN versions = 1 .. Len(versions),
           Len(versions) \in Nat, NEW genesis_version, NEW env, NEW disk, NEW answered,
           disk.status = Nil \/ disk.status \in Nat,
           NEW v, v = main_version(versions, genesis_version, env, disk, answered)
    PROVE  \/ env.binary_url # Nil /\ v = binary_url_version(env)
           \/ /\ ~Overridden(env) /\ disk.upgrade_info # Nil
              /\ v = IF Readable(disk.upgrade_info, answered)
                     THEN UpgradeVersion(disk.upgrade_info) ELSE Raised
           \/ \E i \in DOMAIN versions : v = get_arch_version(versions[i])
           \/ /\ env.binary_url = Nil /\ env.binary_version # Nil
              /\ Unlabelled(versions, env.binary_version) /\ v = Nil
           \/ /\ ~Overridden(env) /\ disk.upgrade_info = Nil /\ disk.status # Nil
              /\ Eligible(versions, disk.status) = {} /\ v = Nil
           \/ /\ ~Overridden(env) /\ disk.upgrade_info = Nil /\ disk.status = Nil
              /\ genesis_version # Nil /\ v = Raised
<1>. DEFINE InCatalog(w) == \E i \in DOMAIN versions : w = get_arch_version(versions[i])
<1>1. 1 \in DOMAIN versions /\ Len(versions) \in DOMAIN versions
  OBVIOUS
<1>2. \/ InCatalog(get_chain_json_version(versions, env.binary_version))
      \/ /\ Unlabelled(versions, env.binary_version)
         /\ get_chain_json_version(versions, env.binary_version) = Nil
  <2>. DEFINE label == env.binary_version
  <2>1. CASE \A i \in DOMAIN versions : label \notin Labels(versions[i])
    <3>1. get_chain_json_version(versions, label) = Nil
      <4>. HIDE DEF label
      <4>. QED  BY <2>1, ByLabel
    <3>. QED  BY <2>1, <3>1 DEF Unlabelled
  <2>2. CASE \E i \in DOMAIN versions : label \in Labels(versions[i])
    <3>1. \E i \in DOMAIN versions :
             get_chain_json_version(versions, label) = get_arch_version(versions[i])
      <4>. HIDE DEF label
      <4>. QED  BY <2>2, ByLabel
    <3>. QED  BY <3>1
  <2>. QED  BY <2>1, <2>2
<1>3. disk.status # Nil =>
         \/ InCatalog(get_version_at_height(versions, disk.status))
         \/ /\ Eligible(versions, disk.status) = {}
            /\ get_version_at_height(versions, disk.status) = Nil
  <2>. SUFFICES ASSUME disk.status \in Nat
                PROVE  \/ InCatalog(get_version_at_height(versions, disk.status))
                       \/ /\ Eligible(versions, disk.status) = {}
                          /\ get_version_at_height(versions, disk.status) = Nil
    OBVIOUS
  <2>. DEFINE height == disk.status
  <2>1. \/ \E i \in Eligible(versions, height) :
              get_version_at_height(versions, height) = get_arch_version(versions[i])
        \/ Eligible(versions, height) = {} /\ get_version_at_height(versions, height) = Nil
    <3>. HIDE DEF height
    <3>. QED  BY AtHeight, height \in Nat DEF height
  <2>2. Eligible(versions, height) \subseteq DOMAIN versions
    BY DEF Eligible
  <2>. QED  BY <2>1, <2>2
<1>4. InCatalog(get_chain_json_latest_version(versions))
  BY <1>1 DEF get_chain_json_latest_version
<1>5. genesis_version = Nil
         => InCatalog(get_chain_json_genesis_version(versions, genesis_version))
  BY <1>1 DEF get_chain_json_genesis_version, get_chain_json_first_version
<1>6. genesis_version # Nil
         => get_chain_json_genesis_version(versions, genesis_version) = Raised
  BY DEF get_chain_json_genesis_version
<1>7. get_upgrade_info_version(disk.upgrade_info, answered)
         = IF Readable(disk.upgrade_info, answered)
           THEN UpgradeVersion(disk.upgrade_info) ELSE Raised
  BY DEF get_upgrade_info_version
<1>. HIDE DEF InCatalog
<1>8. \/ env.binary_url # Nil /\ v = binary_url_version(env)
      \/ ~Overridden(env) /\ disk.upgrade_info # Nil
         /\ v = get_upgrade_info_version(disk.upgrade_info, answered)
      \/ InCatalog(v)
      \/ env.binary_url = Nil /\ env.binary_version # Nil
         /\ Unlabelled(versions, env.binary_version) /\ v = Nil
      \/ ~Overridden(env) /\ disk.upgrade_info = Nil /\ disk.status # Nil
         /\ Eligible(versions, disk.status) = {} /\ v = Nil
      \/ ~Overridden(env) /\ disk.upgrade_info = Nil /\ disk.status = Nil
         /\ genesis_version # Nil /\ v = Raised
  BY <1>2, <1>3, <1>4, <1>5, <1>6 DEF main_version, Overridden
<1>. QED  BY <1>7, <1>8 DEF InCatalog
===============================================================================
