SPECIFICATION Spec
CONSTANTS
    p1 = p1
    p2 = p2
    Nil = Nil
    Text = Text
    NoHash = NoHash
    Null = Null
    Envs <- MCEnvs
    Pods <- MCPods
    RpcPeer = RpcPeer
    Unbondings <- MCUnbondings
    MeanBlockTime = 3
    Day = 12
    Lookback = 1
    MaxTip = 3
    MaxFaults = 2
PROPERTY PeerAdded
