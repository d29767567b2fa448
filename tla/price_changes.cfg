\* Two calls at once, three prices, two price-change requests.
CONSTANTS
    Calls = {c1, c2}
    Prices = {1, 2, 3}
    FirstPrice = 2
    MaxRequests = 2
SPECIFICATION Spec
SYMMETRY CallSymmetry
INVARIANTS AgreedPriceIsCharged OneDecisionOneOutcome
CHECK_DEADLOCK FALSE
