SPECIFICATION FairSpec
CONSTANTS
    ConfigFiles <- OneFile
    MaxStarts = 1
    MaxTags = 1
    MaxReads = 1
    MaxSamples = 1
    Disciplined = TRUE
    StopWaits = TRUE
    MayDie = {"client"}
PROPERTIES ServerLeavesLoop
