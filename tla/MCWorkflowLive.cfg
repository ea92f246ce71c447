SPECIFICATION FairSpec
CONSTANTS
    a = a
    b = b
    c = c
    Units = {a, b, c}
    Deps <- Join
    Required = {a, b, c}
    Contracts = {p}
    PlannedInput = p
    NoInput = NoInput
    NoUnit = NoUnit
    Planned = {a, b, c}
    RunVerdicts <- MostVerdicts
    Refusals = {}
    DispatchFails = {"observer"}
    Released = {}
    MaxCrashes = 0
PROPERTIES
    ParentSettles
    FlowCompletes
