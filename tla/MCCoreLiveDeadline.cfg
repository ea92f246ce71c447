SPECIFICATION FairSpec
CONSTANTS
    Runs = {r1}
    Managed = {}
    Ends <- OnlyDrift
    Cancellers = {"api"}
    MaxCrashes = 1
PROPERTIES
    UnmanagedEnds
