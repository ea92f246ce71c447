SPECIFICATION Spec
CONSTANTS
    t1 = t1
    t2 = t2
    a1 = a1
    a2 = a2
    Reviewer = qa
    NoKey = NoKey
    Tasks <- OneTask
    Agents <- OneAgent
    Team <- EverybodyOnEverything
    Fast <- OneTask
    Profiled <- Nobody
    Revocable <- Nobody
    Ops = {"execute", "transition", "complete", "resume_qa", "revalidate", "recover_qa", "stop_task", "stop_project"}
    MaxRev = 2
    MaxCycle = 2
    MaxTries = 1
    MaxFaults = 0
INVARIANTS
    CompletedIsSigned
PROPERTIES
    ExecutedOnce
    RuntimeMovesCurrent
    TasksKeepContract
CHECK_DEADLOCK FALSE
