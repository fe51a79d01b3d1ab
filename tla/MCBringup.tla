------------------------------ MODULE MCBringup ------------------------------
(***************************************************************************)
(* A chain with two upgrades, in containers of its own image, which holds  *)
(* every version of the catalog, and of the generic image, which holds     *)
(* none.                                                                   *)
(***************************************************************************)
EXTENDS Bringup, TLC

CONSTANTS v1, v2, v3, u1, u2, u3, unknown

MCEntry(name, height, url) ==
    [ name |-> name, tag |-> Nil, recommended_version |-> Nil, height |-> height,
      binary |-> url, docker_binary |-> Nil, libraries |-> <<>> ]

MCCatalog == <<MCEntry(v1, 1, u1), MCEntry(v2, 2, u2), MCEntry(v3, 3, u3)>>

MCNames == {v1, v2, v3}
MCLibs  == {}
MCUrls  == {u1, u2, u3}
MCHeights == 0..4
MCModes == {TRUE}

MCVersion(name, url, height) ==
    [name |-> name, binary_url |-> url, libraries |-> <<>>, height |-> height]

MCPlan(name, form, url) == [name |-> name, form |-> form, url |-> url]

\* What a chain may have recorded: a link, a text, JSON with nothing for this
\* architecture, JSON that cannot be parsed.
MCPlans ==
    { MCPlan(v2, "link", u2), MCPlan(v3, "text", u3), MCPlan(v3, "binaries", Nil),
      MCPlan(v3, "bad", Nil) }

MCGoodPlans == { MCPlan(v2, "link", u2), MCPlan(v3, "text", u3) }

MCRequests ==
    { get_arch_version(MCCatalog[i]) : i \in DOMAIN MCCatalog } \union
    { UpgradeVersion(plan) : plan \in MCPlans }

MCImage ==
    [ n \in MCNames |->
        [ f \in {Bin} |-> [ url |-> (v1 :> u1 @@ v2 :> u2 @@ v3 :> u3)[n],
                            whole |-> TRUE ] ] ]

MCImageInfo ==
    [ n \in MCNames |-> [height |-> (v1 :> 1 @@ v2 :> 2 @@ v3 :> 3)[n], whole |-> TRUE] ]

\* A snapshot taken after the first upgrade.
MCArchive ==
    [ dir |-> TRUE, height |-> 1, upgrade_info |-> MCPlan(v2, "link", u2),
      status |-> Nil, pv |-> 0, whole |-> TRUE ]

MCEnv(reset, restore) ==
    [ binary_url |-> Nil, binary_version |-> Nil, statesync |-> FALSE,
      restore_snapshot |-> restore, restore_url |-> FALSE, reset_on_start |-> reset,
      genesis_url |-> "given" ]

MCPlainEnvs == {MCEnv(FALSE, FALSE)}
MCAllEnvs   ==
    { MCEnv(FALSE, FALSE), MCEnv(TRUE, FALSE), MCEnv(FALSE, TRUE),
      [MCEnv(FALSE, FALSE) EXCEPT !.binary_version = v1],
      [MCEnv(FALSE, FALSE) EXCEPT !.binary_version = unknown, !.genesis_url = "empty"],
      [MCEnv(FALSE, TRUE) EXCEPT !.genesis_url = Nil] }

=============================================================================
