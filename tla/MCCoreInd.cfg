SPECIFICATION Spec
CONSTANTS
    Runs = {r1}
    Managed = {}
    Ends <- AllEnds
    Cancellers = {"stop"}
    MaxCrashes = 1
INVARIANTS
    IndInv
