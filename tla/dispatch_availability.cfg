\* One runner, two errands: every writer of the availability column, a restart,
\* and the refinement of JobAllocation.
CONSTANTS
    Errands = {e1, e2}
    Runners = {r1}
    NoRunner = NoRunner
    Deadlines = {2}
    OfferWindow = 1
    DefaultWindow = 2
    MaxTime = 2
    EditableErrands = {}
    ReviewedRunners = {r1}
    WebRunners = {r1}
    MaxCrashes = 1
SPECIFICATION Spec
SYMMETRY ErrandSymmetry
INVARIANTS BusyIffOnJob OnlineRunnersVerified
PROPERTIES ImplementsAllocation
