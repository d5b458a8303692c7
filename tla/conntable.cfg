SPECIFICATION FairSpec
CONSTANTS
    Servers = {"mserver", "sensor_server", "mlogger", "multiserver", "multiserver_fAPI", "niserver"}
    MAXCONNS = 1
    Clients = {c1, c2}
    MaxReq = 2
    Persistent = {c1}
    NoSock = NoSock
    Junk = Junk
INVARIANTS SlotOwnership RepliesAsked SlotsAccounted
PROPERTIES ShutdownCompletes AcceptedEventually
