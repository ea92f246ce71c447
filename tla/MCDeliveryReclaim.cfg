SPECIFICATION Spec
CONSTANTS
    t1 = t1
    t2 = t2
    a1 = a1
    a2 = a2
    Reviewer = qa
    NoKey = NoKey
    Tasks <- TwoTasks
    Agents <- OneAgent
    Team <- EverybodyOnEverything
    Fast <- TwoTasks
    Profiled <- Nobody
    Revocable <- Nobody
    Ops = {"execute"}
    MaxRev = 1
    MaxCycle = 1
    MaxTries = 1
    MaxFaults = 0
INVARIANTS
    RunningIsDriven
CHECK_DEADLOCK FALSE
