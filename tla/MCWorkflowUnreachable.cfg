SPECIFICATION Spec
CONSTANTS
    a = a
    b = b
    c = c
    Units = {a, b, c}
    Deps <- Chain
    Required = {a, b, c}
    Contracts = {p}
    PlannedInput = p
    NoInput = NoInput
    NoUnit = NoUnit
    Planned = {a, b, c}
    RunVerdicts <- PassOrBlocked
    Refusals = {}
    DispatchFails = {}
    Released = {}
    MaxCrashes = 0
INVARIANTS
    ExhaustedIsBlocked
