SPECIFICATION Spec
CONSTANTS
    Sources = {s1}
    Children = {c1, c2}
    Ends = {"FAIL"}
    Drifters = {c1}
    DispatchEnds = {"RUNNING", "FAIL", "DENIED"}
    Window = 5
    MaxDispatches = 2
    MaxCrashes = 1
INVARIANTS
    RecoveryBounded
    ChildHasGround
    ManagedNoCircle
PROPERTIES
    RestartObserves
CHECK_DEADLOCK FALSE
