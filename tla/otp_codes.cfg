\* Two calls at once; a window of one code that closes while codes still live.
CONSTANTS
    Calls = {c1, c2}
    Ttl = 3
    Cooldown = 1
    Window = 2
    Limit = 1
    MaxAttempts = 2
    MaxTime = 3
    MaxCodes = 3
SPECIFICATION Spec
SYMMETRY CallSymmetry
INVARIANTS CodeIsSpentOnce ReplacedCodeRefused WindowBounded
CHECK_DEADLOCK FALSE
