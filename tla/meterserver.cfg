SPECIFICATION FairSpec
CONSTANTS
    Watts = {15}
    AsyncCap = 1
    AsyncLow = 1
    MaxRecords = 3
    Servers = {"mserver", "sensor_server", "mlogger"}
    Counts = {0, 2}
    Clock = 2
    Resets = 1
    MaxReads = 3
    SimVolts = 3
    MsrMod = 4
    MsrStep = {0, 3}
INVARIANTS StoredIsMarked EnergyCounted RaplCounted
PROPERTIES TakenOnce MonitorEndExits
