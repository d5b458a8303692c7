SPECIFICATION FairSpec
CONSTANTS
    Powers = {3}
    SysPowers = {0}
    MaxClosed = 1
    PwrMod = 4
    MaxNi = 2
    MaxWu = 2
    MaxSends = 1
INVARIANTS ExclusionUntilStray MutexReturned AverageRight NoDivisionByZero
PROPERTIES AllStop
