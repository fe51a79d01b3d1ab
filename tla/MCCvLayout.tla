----------------------------- MODULE MCCvLayout -----------------------------
(***************************************************************************)
(* Two upgrades, the second one with a library, requested the way each     *)
(* branch of initversion.main does: from the catalog (libraries, a height  *)
(* or none), and from upgrade-info.json or BINARY_URL (neither; the        *)
(* announced upgrade perhaps without a URL).                               *)
(***************************************************************************)
EXTENDS CvLayout, TLC

CONSTANTS v1, v2, so, u1, u2, us

MCVersion(name, url, libraries, height) ==
    [name |-> name, binary_url |-> url, libraries |-> libraries, height |-> height]

MCSo == <<[file |-> so, url |-> us]>>

MCNames   == {v1, v2}
MCLibs    == {so}
MCUrls    == {u1, u2, us}
MCHeights == {0, 1, 5}

MCGenesisVersion  == MCVersion(v1, u1, <<>>, 1)
MCCatalogVersion  == MCVersion(v2, u2, MCSo, 5)
MCUpgradeInfo     == MCVersion(v2, u2, <<>>, Nil)
MCNoUrl           == MCVersion(v2, Nil, <<>>, Nil)
MCNoHeight        == MCVersion(v2, u2, MCSo, 0)

MCRequests    == {MCGenesisVersion, MCCatalogVersion, MCNoHeight, MCUpgradeInfo, MCNoUrl}

\* create_cv_upgrade is asked to link current at run time only; both ways of
\* calling it are checked together.
MCModes == {TRUE, FALSE}

\* A chain's own image holds the genesis version; v2 is an upgrade the chain
\* announced after the image was built.
MCImage ==
    (v1 :> (Bin :> [url |-> u1, whole |-> TRUE] @@ so :> Nil)
     @@ v2 :> (Bin :> Nil @@ so :> Nil))

MCImageInfo == (v1 :> [height |-> 1, whole |-> TRUE] @@ v2 :> Nil)

=============================================================================
