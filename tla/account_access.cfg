\* Two changes, one device, one request filling the cache, one Redis outage, two
\* seconds: the one of a suspension and the one its cut-off refuses up to.
CONSTANTS
    Callers = {c1}
    Readers = {r1}
    None = None
    MaxTime = 1
    MaxChanges = 2
    MaxTokens = 2
    MaxOutages = 1
SPECIFICATION Spec
INVARIANTS CacheFollowsStatus SuspensionEndsTokens
CHECK_DEADLOCK FALSE
