SPECIFICATION FairSpec
CONSTANTS
    t1 = t1
    t2 = t2
    a1 = a1
    a2 = a2
    Reviewer = qa
    NoKey = NoKey
    Tasks <- OneTask
    Agents <- OneAgent
    Team <- EverybodyOnEverything
    Fast <- OneTask
    Profiled <- Nobody
    Revocable <- Nobody
    Ops = {"execute", "retry"}
    MaxRev = 1
    MaxCycle = 1
    MaxTries = 1
    MaxFaults = 1
PROPERTIES
    DeliveriesMove
CHECK_DEADLOCK FALSE
