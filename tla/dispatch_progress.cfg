\* One errand whose customer edits the deadline, two runners, reviews and a
\* restart: one offer at a time, and lapsed offers and overdue tasks end.
CONSTANTS
    Errands = {e1}
    Runners = {r1, r2}
    NoRunner = NoRunner
    Deadlines = {2, 3}
    OfferWindow = 1
    DefaultWindow = 2
    MaxTime = 2
    EditableErrands = {e1}
    ReviewedRunners = {r1}
    WebRunners = {}
    MaxCrashes = 1
SPECIFICATION FairSpec
INVARIANTS OneOpenOffer OfferMatchesStatus
PROPERTIES LapsedOffersClose DeadlinePassedTasksEnd
