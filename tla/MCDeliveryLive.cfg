SPECIFICATION FairSpec
CONSTANTS
    t1 = t1
    t2 = t2
    a1 = a1
    a2 = a2
    Reviewer = qa
    NoKey = NoKey
    Tasks <- OneTask
    Agents <- OneAgent
    Team <- EverybodyOnEverything
    Fast <- OneTask
    Profiled <- OneTask
    Revocable <- Nobody
    Ops = {"approve", "execute", "transition", "stop_task", "stop_project", "resume", "revoke", "verdict"}
    MaxRev = 1
    MaxCycle = 1
    MaxTries = 2
    MaxFaults = 1
INVARIANTS
    StoppedIsQuiet
PROPERTIES
    DeliveriesMove
    TasksMoveOn
CHECK_DEADLOCK FALSE
