\* Two tasks, one paid and on the dispute endpoints, one also patched by hand
\* and perhaps without a payment; the jobs, a settlement batch of one, a restart.
CONSTANTS
    Errands = {e1, e2}
    UnpaidErrands = {e2}
    PatchedErrands = {e2}
    DisputeWindow = 1
    Retention = 1
    BatchLimit = 1
    MaxTime = 3
    MaxCrashes = 1
SPECIFICATION FairSpec
INVARIANTS DisputeRowFollowsTask PaidTasksEndOneWay ConfirmedAfterWindow
PROPERTIES HeldSamplesKept CompletedTasksMoveOn EndedTasksLoseSamples PaidTasksSettle
