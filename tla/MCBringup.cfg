SPECIFICATION BringupSpec
CONSTANTS
    v1 = v1
    v2 = v2
    v3 = v3
    u1 = u1
    u2 = u2
    u3 = u3
    unknown = unknown
    Nil = Nil
    Raised = Raised
    Custom = Custom
    Bin = Bin
    InImage = InImage
    Names <- MCNames
    Libs <- MCLibs
    Urls <- MCUrls
    Heights <- MCHeights
    Requests <- MCRequests
    LinkModes <- MCModes
    Image <- MCImage
    ImageInfo <- MCImageInfo
    ImageGenesis = v1
    Catalog <- MCCatalog
    GenesisVersion = Nil
    Envs <- MCAllEnvs
    Plans <- MCPlans
    Archive <- MCArchive
    MaxHeight = 3
    MaxFaults = 3
INVARIANT BringupTypeOK
INVARIANT RightBinaryAfterUpgrade
INVARIANT UpHasCurrent
INVARIANT SignStateKept
PROPERTY ImplementsHostedInstallation
PROPERTY ComesUp
CHECK_DEADLOCK FALSE
