SPECIFICATION Spec
CONSTANTS
    a = a
    b = b
    c = c
    Units = {a, b, c}
    Deps <- Fork
    Required = {a, b, c}
    Contracts = {p}
    PlannedInput = p
    NoInput = NoInput
    NoUnit = NoUnit
    Planned = {a, b, c}
    RunVerdicts <- PassOrFail
    Refusals = {}
    DispatchFails = {}
    Released = {}
    MaxCrashes = 0
INVARIANTS
    RetryClearsRun
