SPECIFICATION Spec
CONSTANTS
    Sources = {s1}
    Children = {c1, c2}
    Ends = {"FAIL"}
    Drifters = {}
    DispatchEnds = {"RUNNING"}
    Window = 5
    MaxDispatches = 2
    MaxCrashes = 0
INVARIANTS
    WatchdogRestartsOwn
CHECK_DEADLOCK FALSE
