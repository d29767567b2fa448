\* Two lines, two calls at once on one key, two amounts, two requests, a lapse.
CONSTANTS
    Lines = {l1, l2}
    l1 = l1
    MostOf <- LineAmounts
    Calls = {c1, c2}
    Keys = {k1}
    NoKey = NoKey
    Asked = {1, 2}
    MinimumAmount = 1
    MaxRequests = 2
    MaxLapses = 1
SPECIFICATION Spec
SYMMETRY Symmetric
INVARIANTS PaidWithinRequest KeyMakesOneRequest
CHECK_DEADLOCK FALSE
