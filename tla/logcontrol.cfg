SPECIFICATION FairSpec
CONSTANTS
    Servers = {"mserver", "multiserver"}
    MaxMsgs = 3
    MaxFiles = 2
    MaxRuns = 1
    MaxSessions = 2
    MaxReadings = 1
    Monitors = {m1}
INVARIANTS ControlNoFault OneOpenLog BeginFirst SessionsInOrder
PROPERTIES AllHandled
