SPECIFICATION Spec
CONSTANTS
    a = a
    Nil = Nil
    Pods <- MCPods
    Margin = 1
    MaxHeight = 2
    MaxFaults = 2
INVARIANT TypeOK
INVARIANT BehindIsReal
INVARIANT FeeForJailedOnly
PROPERTY GetsOut
