SPECIFICATION FairSpec
CONSTANTS
    old = old
    new1 = new1
    new2 = new2
    Process = {old, new1, new2}
    Latest <- Binaries
    Versions = 3
    Concurrent = {2, 3}
    None = None
    MaxStarts = 2
    MaxFaults = 3
INVARIANTS
    MigrationsSound
    ReadyMeansMigrated
PROPERTIES
    RunsEnd
    MigratedInTheEnd
CHECK_DEADLOCK FALSE
