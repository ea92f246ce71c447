SPECIFICATION Spec
CONSTANTS
    t1 = t1
    t2 = t2
    a1 = a1
    a2 = a2
    Reviewer = qa
    NoKey = NoKey
    Tasks <- OneTask
    Agents <- OneAgent
    Team <- EverybodyOnEverything
    Fast <- Nobody
    Profiled <- Nobody
    Revocable <- Nobody
    Ops = {"execute", "transition", "complete"}
    MaxRev = 1
    MaxCycle = 1
    MaxTries = 1
    MaxFaults = 1
INVARIANTS
    QAReadOnly
CHECK_DEADLOCK FALSE
