SPECIFICATION FairHandlerSpec
CONSTANTS
    MaxStarts = 1
    MaxTags = 2
    MaxReads = 4
    MaxSamples = 2
    Disciplined = TRUE
    StopWaits = TRUE
INVARIANTS FinalReport MeterShutDown TotalMatchesReadings
PROPERTIES EndCompletes
