\* Two runners, four images past retention, one upload and one re-review more,
\* a restart or a failing store; pages of one document, two pages a night.
CONSTANTS
    r1 = r1
    r2 = r2
    Runners = {r1, r2}
    Earlier <- EarlierRows
    Retention = 1
    Batch = 1
    MaxPages = 2
    Uploaders = {r1}
    MaxRows = 5
    MaxReReviews = 1
    MaxFaults = 1
    MaxTime = 2
SPECIFICATION FairSpec
INVARIANTS LevelFollowsRecords RecordsTellImages
PROPERTIES PurgedImagesWereDue DueImagesPurged
