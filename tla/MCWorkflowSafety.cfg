SPECIFICATION Spec
CONSTANTS
    a = a
    b = b
    c = c
    Units = {a, b, c}
    Deps <- Fork
    Required = {a, b}
    Contracts = {p, q}
    PlannedInput = p
    NoInput = NoInput
    NoUnit = NoUnit
    Planned = {b}
    RunVerdicts <- MostVerdicts
    Refusals = {"api", "observer"}
    DispatchFails = {"api", "observer"}
    Released = {a, b}
    MaxCrashes = 1
INVARIANTS
    TypeOK
    OneWorker
    AckTrue
    ParentAgrees
PROPERTIES
    ContractSpec
