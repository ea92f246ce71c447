SPECIFICATION Spec
CONSTANTS
    Runs = {r1}
    Managed = {}
    Ends <- PassOrError
    Cancellers = {"api"}
    MaxCrashes = 0
PROPERTIES
    GuardConsulted
