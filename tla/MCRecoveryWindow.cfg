SPECIFICATION Spec
CONSTANTS
    Sources = {s1, s2}
    Children = {c1, c2}
    Ends = {"FAIL"}
    Drifters = {}
    DispatchEnds = {"FAIL"}
    Window = 1
    MaxDispatches = 2
    MaxCrashes = 0
INVARIANTS
    RecoveryOnce
CHECK_DEADLOCK FALSE
