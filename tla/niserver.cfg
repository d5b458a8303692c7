SPECIFICATION NiFairSpec
CONSTANTS
    Chans = 2
    MaxAcq = 3
    MaxSends = 3
INVARIANTS WholeReading NoTaskLeft
PROPERTIES StopEnds
CHECK_DEADLOCK FALSE
