SPECIFICATION FairSpec
CONSTANTS
    ConfigFiles <- CheckedFiles
    MaxStarts = 2
    MaxTags = 1
    MaxReads = 1
    MaxSamples = 1
    Disciplined = FALSE
    StopWaits = FALSE
    MayDie = {"client", "server"}
INVARIANTS ConfigurationRead HandshakeAfterHeader
PROPERTIES SessionCompletes StartReturns ImplementsRecord
