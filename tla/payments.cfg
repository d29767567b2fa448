\* Two requests at once, a re-quote, one price increase, a restart; the other
\* errands leave one place in the reconcile job's list.
CONSTANTS
    Requests = {q1, q2}
    Keys = {}
    NoKey = NoKey
    Increases = {d1}
    Task = Task
    ReconcileLimit = 1
    MaxQuotes = 2
    MaxRows = 3
    MaxCrashes = 1
SPECIFICATION FairSpec
INVARIANTS TaskChargedOnce ResultsAreTheProviders PaymentOfNewestQuote EndedPaidTaskInReview
PROPERTIES PaidPushesRecorded PaidTaskMovesOn
CHECK_DEADLOCK FALSE
