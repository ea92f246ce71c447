SPECIFICATION Spec
CONSTANTS
    t1 = t1
    t2 = t2
    a1 = a1
    a2 = a2
    Reviewer = qa
    NoKey = NoKey
    Tasks <- OneTask
    Agents <- TwoAgents
    Team <- EverybodyOnEverything
    Fast <- OneTask
    Profiled <- OneTask
    Revocable <- OneAgent
    Ops = {"execute", "transition", "complete", "revalidate", "halt"}
    MaxRev = 1
    MaxCycle = 1
    MaxTries = 1
    MaxFaults = 1
INVARIANTS
    TypeOK
    QaMeansAnswered
    RunningIsDriven
CHECK_DEADLOCK FALSE
