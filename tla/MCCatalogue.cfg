CONSTANTS
    ecrPublic = ecrPublic
    ecrPrivate = ecrPrivate
    loop = loop
    post = post
    r1 = r1
    Tags <- MCTags
    Latest = "latest"
    AutoUpdateTags <- MCAutoUpdateTags
    Lower <- MCLower
    Dashed <- MCDashed
    Parts <- MCParts
    Registries <- MCRegistries
    Public <- MCPublic
    NoRegistry = NoRegistry
    NoRevision = NoRevision
    NoVersion = NoVersion
    NoLimit = NoLimit
    InstanceLimit <- MCInstanceLimit
    Universe <- MCUniverse
    Listings <- MCListings
    Configured <- MCConfigured
    Configurations <- MCConfigurations
    Loop = loop
    Refreshes = {post}
    Routers = {r1}
    Requests <- MCRequests
    Changes <- MCChanges
    Disturbances <- MCDisturbances
SPECIFICATION FairSpec
INVARIANTS
    TypeOK
    RevisionsRunTheirHash
    StartRunsWhatWasAskedFor
    AcceptedTaskFitsAnyInstance
    WrittenDefinitionsStay
    UnchangedImagesAreNotRegistered
PROPERTIES
    PublishedImageIsServed
    RemovedImageIsForgotten
