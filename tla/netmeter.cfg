SPECIFICATION FairSpec
CONSTANTS
    Servers = {"mserver", "sensor_server", "mlogger", "multiserver", "niserver"}
    Powers = {20, 57}
    Garbage = {0, 3}
    Counts = {0, 2}
    MaxReq = 3
INVARIANTS AnswersRequest
PROPERTIES RequestReturns
