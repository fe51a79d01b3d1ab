SPECIFICATION Spec
CONSTANTS
    v1 = v1
    v2 = v2
    so = so
    u1 = u1
    u2 = u2
    us = us
    Nil = Nil
    Raised = Raised
    Custom = Custom
    Bin = Bin
    InImage = InImage
    Names <- MCNames
    Libs <- MCLibs
    Urls <- MCUrls
    Heights <- MCHeights
    Requests <- MCRequests
    LinkModes <- MCModes
    Image <- MCImage
    ImageInfo <- MCImageInfo
    ImageGenesis = v1
INVARIANT TypeOK
INVARIANT JobProgress
INVARIANT LinksResolve
INVARIANT InstallDone
INVARIANT FailureKeepsCurrent
INVARIANT FilesAsRequested
PROPERTY InfoKept
PROPERTY GenesisKept
PROPERTY ImplementsInstallation
