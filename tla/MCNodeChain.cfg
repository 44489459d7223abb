SPECIFICATION ChainSpec
CONSTANTS
    Runs <- MCRuns
    Errors <- MCErrors
    PluginPrograms <- MCPluginPrograms
    Frames = {0, 1, 2, 3, 4, 5, 6, 7, 8, 9, 10, 11, 12, 13, 14, 15, 16, 17, 18}
    Keys <- MCKeys
    Reserved = {"exif_raw"}
    Values <- MCValues
    Nothing = "none"
    BadScheme = "bad"
INVARIANTS
    ResultIsComposition
    MetadataFollowsPixels
    FirstFailureReturned
    InstancesReleased
    ReturnedBuffersSettled
    LoadChecksHoldAtRun
    EncodedImagesAreDisplayReferred
PROPERTIES
    PublishedMetadataIsImmutable
    ImplementsValues
