\* Two actions, two requests under way, three faults of any kind.
CONSTANTS
    MaxActions = 2
    MaxFaults = 3
    None = None
    Requests = {s1, s2}
SPECIFICATION Spec
SYMMETRY RequestSymmetry
INVARIANTS QueueKeepsActions ReplaysTakeEffectOnce
CHECK_DEADLOCK FALSE
