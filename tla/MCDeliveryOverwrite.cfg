SPECIFICATION Spec
CONSTANTS
    t1 = t1
    t2 = t2
    a1 = a1
    a2 = a2
    Reviewer = qa
    NoKey = NoKey
    Tasks <- OneTask
    Agents <- OneAgent
    Team <- EverybodyOnEverything
    Fast <- OneTask
    Profiled <- Nobody
    Revocable <- Nobody
    Ops = {"execute", "stop_project"}
    MaxRev = 1
    MaxCycle = 1
    MaxTries = 1
    MaxFaults = 0
PROPERTIES
    SettledStays
CHECK_DEADLOCK FALSE
