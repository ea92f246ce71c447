SPECIFICATION FairSpec
CONSTANTS
    Runs = {r1}
    Managed = {r1}
    Ends <- DriftOrError
    Cancellers = {"stop"}
    MaxCrashes = 1
INVARIANTS
    RunningIsObserved
PROPERTIES
    ManagedSettles
    ConfirmedStopSettles
