SPECIFICATION Spec
CONSTANTS
    Sources = {s1}
    Children = {c1, c2}
    Ends = {"FAIL"}
    Drifters = {}
    DispatchEnds = {"FAIL"}
    Window = 5
    MaxDispatches = 2
    MaxCrashes = 0
INVARIANTS
    OneLink
CHECK_DEADLOCK FALSE
