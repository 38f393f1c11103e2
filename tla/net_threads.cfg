SPECIFICATION FairSpec
CONSTANTS
    NetThreadCount = 2
    Socks <- MCSocks
    MaxReports = 3
INVARIANT SafeOnceUp
PROPERTY ShutdownEnds
CHECK_DEADLOCK FALSE
