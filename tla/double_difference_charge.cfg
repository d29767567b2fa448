\* The charge of a price increase failed; two retries at once.
CONSTANTS
    Requests = {q1, q2}
    Keys = {}
    NoKey = NoKey
    Increases = {d1}
    Task = Task
    ReconcileLimit = 1
    MaxQuotes = 1
    MaxRows = 4
    MaxCrashes = 0
SPECIFICATION Spec
INVARIANTS IncreaseChargedOnce
CHECK_DEADLOCK FALSE
