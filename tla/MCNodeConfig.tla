---------------------------- MODULE MCNodeConfig ----------------------------
(***************************************************************************)
(* The environments differ in each setting that decides something: a       *)
(* validator, a read node in a cluster, an archive node with overrides, a  *)
(* node without a profile, and one whose settings are strings.             *)
(***************************************************************************)
EXTENDS NodeConfig

CONSTANTS p1, p2

MCEnv ==
    [ profile |-> Nil, period |-> Nil, interval |-> Nil, strategy |-> Nil, retain |-> Nil,
      halt |-> Nil, indexer |-> Nil, peers |-> {p1}, rpc |-> FALSE, in_cluster |-> FALSE ]

MCEnvs ==
    { [MCEnv EXCEPT !.profile = "write", !.rpc = TRUE, !.peers = {p2}],
      [MCEnv EXCEPT !.profile = "read", !.in_cluster = TRUE, !.indexer = "null", !.rpc = TRUE],
      [MCEnv EXCEPT !.profile = "archive", !.strategy = "everything", !.retain = 3],
      [MCEnv EXCEPT !.halt = 7, !.peers = {}],
      [MCEnv EXCEPT !.profile = "snap", !.period = Text, !.interval = Text] }

MCPods == {p2, "pod"}

MCUnbondings == {14, 40}

=============================================================================
