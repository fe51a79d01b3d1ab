--------------------------- MODULE MCVersionReplay ---------------------------
(***************************************************************************)
(* Catalogs of up to three versions with every assignment of heights       *)
(* 0..MaxHeight to them, the first one missing, equal and unordered heights*)
(* included.                                                               *)
(***************************************************************************)
EXTENDS VersionReplay, FiniteSets

MCEntry(name, height) ==
    [ name |-> name, tag |-> Nil, recommended_version |-> Nil, height |-> height,
      binary |-> <<"url", name>>, docker_binary |-> Nil, libraries |-> <<>> ]

MCNames == <<"v1", "v2", "v3">>

MCAllCatalogs ==
    UNION { { [i \in 1..n |-> MCEntry(MCNames[i], h[i])] : h \in [1..n -> 0..MaxHeight] }
            : n \in 1..3 }

\* The first version is the genesis one and no two versions share a height.
MCDistinctCatalogs ==
    { c \in MCAllCatalogs :
        /\ c[1].height <= 1
        /\ \A i, j \in DOMAIN c :
              i # j /\ c[i].height > 0 => c[i].height # c[j].height }

=============================================================================
