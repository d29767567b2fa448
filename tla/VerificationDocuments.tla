------------------------- MODULE VerificationDocuments -------------------------
(***************************************************************************)
(* The ID and selfie images runners are verified by (runners.service.ts,   *)
(* verification-summary.ts): uploaded, decided and reviewed again by       *)
(* admins, and deleted by the nightly purge once nothing has happened to   *)
(* the runner's evidence for the retention period                          *)
(* (id-document-retention.service.ts).  A row of runner_verifications is   *)
(* in Postgres, its image in an object store that no transaction covers.   *)
(***************************************************************************)
EXTENDS Naturals, Sequences, FiniteSets

CONSTANTS
    Runners,
    Earlier,        \* the rows there are at first: [runner, check, status]
    Retention,      \* runnerVerification.retentionDays
    Batch,          \* documents on one page of the purge
    MaxPages,       \* pages of one run
    Uploaders,      \* bound: runners who upload again
    MaxRows,        \* bound on rows
    MaxReReviews,   \* bound on re-reviews
    MaxFaults,      \* bound on restarts and on failing calls of the store
    MaxTime         \* bound on the clock

Sides  == {"front", "back"}
Checks == Sides \union {"selfie"}
Statuses == {"pending", "approved", "rejected"}

ASSUME DocumentsAssumption ==
    /\ Earlier \in Seq([runner : Runners, check : Checks \union {"unlabelled"}, status : Statuses])
    /\ Uploaders \subseteq Runners
    /\ Retention \in Nat /\ Batch \in Nat \ {0} /\ MaxPages \in Nat
    /\ MaxRows \in Nat /\ MaxReReviews \in Nat /\ MaxFaults \in Nat /\ MaxTime \in Nat

VARIABLES
    now,
    rows,       \* runner_verifications of ID images and selfies, oldest first
    images,     \* the rows whose image is in the store
    level,      \* runner_profiles.verificationLevel, 1 or 2
    disputed,   \* runners with an open dispute
    run,        \* the purge: its phase, list, and what it has learned
    opened,     \* runners whose dispute opened while the purge held a row
    torn,       \* rows whose purge ended between the store and the commit
    reReviews,
    faults

counters == <<reReviews, faults>>
evidence == <<rows, images, level>>
vars == <<now, evidence, disputed, run, opened, torn, counters>>

IdleRun == [phase |-> "idle", at |-> 0, page |-> 0, held |-> {}, skipped |-> {},
            due |-> {}, doc |-> 0]

RowsOf(r) == {i \in DOMAIN rows : rows[i].runner = r}
-----------------------------------------------------------------------------
(* Level 2: the newest record of each check is approved.                   *)

RecordsOf(table, r, c) == {i \in DOMAIN table : table[i].runner = r /\ table[i].check = c}

NewestOf(table, r, c) ==
    {i \in RecordsOf(table, r, c) : \A j \in RecordsOf(table, r, c) : j <= i}

\* idSideStatuses, latestStatuses: a side with no labelled record is filled by
\* an approved record from before sides were labelled, each fills one.
meetsIdVerifiedRule(table, r) ==
    LET spare    == {i \in RecordsOf(table, r, "unlabelled") : table[i].status = "approved"}
        unfilled == {s \in Sides : RecordsOf(table, r, s) = {}}
    IN  /\ RecordsOf(table, r, "selfie") # {}
        /\ \A c \in Checks : \A i \in NewestOf(table, r, c) : table[i].status = "approved"
        /\ Cardinality(unfilled) <= Cardinality(spare)

\* syncIdVerifiedLevel, under the profile's lock.
Synced(table, r) == [level EXCEPT ![r] = IF meetsIdVerifiedRule(table, r) THEN 2 ELSE 1]

NewRow(r, c, status) ==
    [runner |-> r, check |-> c, status |-> status, active |-> now, purged |-> FALSE]

Init ==
    /\ now = 0
    /\ rows = [i \in DOMAIN Earlier |-> NewRow(Earlier[i].runner, Earlier[i].check, Earlier[i].status)]
    /\ images = DOMAIN rows
    /\ level = [r \in Runners |-> IF meetsIdVerifiedRule(rows, r) THEN 2 ELSE 1]
    /\ disputed = {}
    /\ run = IdleRun
    /\ opened = {}
    /\ torn = {}
    /\ reReviews = 0
    /\ faults = 0
-----------------------------------------------------------------------------
(* Requests.  The profile's lock orders uploads and decisions of a runner. *)

\* Mutant of Upload: the level waits for the decision.
UploadOnly(r, c) ==
    /\ Len(rows) < MaxRows
    /\ rows' = Append(rows, NewRow(r, c, "pending"))
    /\ images' = images \union {Len(rows) + 1}
    /\ UNCHANGED <<now, level, disputed, run, opened, torn, counters>>

\* The image is stored first; if its row cannot be written it is deleted again.
Upload(r, c) ==
    /\ Len(rows) < MaxRows
    /\ rows' = Append(rows, NewRow(r, c, "pending"))
    /\ images' = images \union {Len(rows) + 1}
    /\ level' = Synced(rows', r)
    /\ UNCHANGED <<now, disputed, run, opened, torn, counters>>

\* A conditional UPDATE, then the profile's lock, then the level from what is
\* read under it, in one transaction: as one step at that lock, which is where
\* another decision or an upload of the runner waits.
Review(v, decision) ==
    /\ rows[v].status = "pending"
    /\ rows' = [rows EXCEPT ![v].status = decision, ![v].active = now]
    /\ level' = Synced(rows', rows[v].runner)
    /\ UNCHANGED <<now, images, disputed, run, opened, torn, counters>>

Locked(v) == run.phase \in {"destroy", "commit"} /\ run.doc = v

\* Waits for the purge when it holds the row; writes a log row, that counts for
\* the clock.
ReReview(v) ==
    /\ reReviews < MaxReReviews
    /\ ~Locked(v)
    /\ rows[v].status # "pending" /\ ~rows[v].purged
    /\ rows' = [rows EXCEPT ![v].active = now]
    /\ reReviews' = reReviews + 1
    /\ UNCHANGED <<now, images, level, disputed, run, opened, torn, faults>>

OpenDispute(r) ==
    /\ r \notin disputed
    /\ disputed' = disputed \union {r}
    /\ opened' = IF run.doc # 0 THEN opened \union {r} ELSE opened
    /\ UNCHANGED <<now, evidence, run, torn, counters>>

ResolveDispute(r) ==
    /\ r \in disputed
    /\ disputed' = disputed \ {r}
    /\ opened' = opened \ {r}
    /\ UNCHANGED <<now, evidence, run, torn, counters>>
-----------------------------------------------------------------------------
(* The purge.                                                              *)

requests == <<now, evidence, disputed>>

\* The runner's clock, the latest upload, decision or re-review of any of
\* their images, is past retention.
PastRetention(r, at) == \A i \in RowsOf(r) : rows[i].active + Retention < at

BeginRun ==
    /\ run = IdleRun
    /\ run' = [IdleRun EXCEPT !.phase = "page", !.at = now]
    /\ UNCHANGED <<requests, opened, torn, counters>>

\* Mutant of Due: the runners found held are dropped from the page only.
DueAnyRunner == {i \in DOMAIN rows :
           /\ ~rows[i].purged /\ rows[i].status # "pending"
           /\ PastRetention(rows[i].runner, run.at)
           /\ i \notin run.skipped}

\* documentsDueForPurge, but for the page's LIMIT.
Due == {i \in DOMAIN rows :
           /\ ~rows[i].purged /\ rows[i].status # "pending"
           /\ PastRetention(rows[i].runner, run.at)
           /\ rows[i].runner \notin run.held
           /\ i \notin run.skipped}

Oldest(S) == {i \in S : Cardinality({j \in S : j < i}) < Batch}

ReadPage ==
    /\ run.phase = "page"
    /\ run' = IF Due = {} \/ run.page = MaxPages THEN IdleRun
              ELSE [run EXCEPT !.phase = "hold", !.page = @ + 1, !.due = Oldest(Due)]
    /\ UNCHANGED <<requests, opened, torn, counters>>

ReadHolds ==
    /\ run.phase = "hold"
    /\ LET held == run.held \union {r \in disputed : \E i \in run.due : rows[i].runner = r} IN
       run' = [run EXCEPT !.phase = "purge", !.held = held,
                          !.due = {i \in @ : rows[i].runner \notin held}]
    /\ UNCHANGED <<requests, opened, torn, counters>>

EndPage ==
    /\ run.phase = "purge" /\ run.due = {}
    /\ run' = [run EXCEPT !.phase = "page"]
    /\ UNCHANGED <<requests, opened, torn, counters>>

Skip(v) == [run EXCEPT !.phase = "purge", !.due = @ \ {v}, !.skipped = @ \union {v}, !.doc = 0]

IsNext(v) == v \in run.due /\ \A i \in run.due : v <= i

\* Mutant of LockRow: what the page said of the row is not looked at again.
LockRowAsListed(v) ==
    /\ run.phase = "purge" /\ IsNext(v)
    /\ run' = [run EXCEPT !.phase = "destroy", !.doc = v]
    /\ UNCHANGED <<requests, opened, torn, counters>>

\* The row locked, the clock and the hold looked at again.
LockRow(v) ==
    /\ run.phase = "purge" /\ IsNext(v)
    /\ run' = IF /\ ~rows[v].purged /\ rows[v].status # "pending"
                 /\ PastRetention(rows[v].runner, run.at)
                 /\ rows[v].runner \notin disputed
              THEN [run EXCEPT !.phase = "destroy", !.doc = v]
              ELSE Skip(v)
    /\ UNCHANGED <<requests, opened, torn, counters>>

\* The store deletes the image, one that is gone already too...
Destroy ==
    /\ run.phase = "destroy"
    /\ images' = images \ {run.doc}
    /\ run' = [run EXCEPT !.phase = "commit"]
    /\ UNCHANGED <<now, rows, level, disputed, opened, torn, counters>>

\* Mutant of DestroyFails: a failed delete is logged, and the row written.
DestroyFailsQuietly ==
    /\ run.phase = "destroy"
    /\ faults < MaxFaults /\ faults' = faults + 1
    /\ run' = [run EXCEPT !.phase = "commit"]
    /\ UNCHANGED <<requests, opened, torn, reReviews>>

\* ...or fails: the row is left for another day.
DestroyFails ==
    /\ run.phase = "destroy"
    /\ faults < MaxFaults /\ faults' = faults + 1
    /\ run' = Skip(run.doc)
    /\ opened' = {}
    /\ UNCHANGED <<requests, torn, reReviews>>

Commit ==
    LET v == run.doc IN
    /\ run.phase = "commit"
    /\ rows' = [rows EXCEPT ![v].purged = TRUE]
    /\ run' = [run EXCEPT !.phase = "purge", !.due = @ \ {v}, !.doc = 0]
    /\ torn' = torn \ {v}
    /\ opened' = {}
    /\ UNCHANGED <<now, images, level, disputed, counters>>

\* The row cannot be written: the transaction rolls back.
CommitFails ==
    /\ run.phase = "commit"
    /\ faults < MaxFaults /\ faults' = faults + 1
    /\ run' = Skip(run.doc)
    /\ torn' = torn \union {run.doc}
    /\ opened' = {}
    /\ UNCHANGED <<requests, reReviews>>

Crash ==
    /\ run # IdleRun
    /\ faults < MaxFaults /\ faults' = faults + 1
    /\ run' = IdleRun
    /\ torn' = IF run.phase = "commit" THEN torn \union {run.doc} ELSE torn
    /\ opened' = {}
    /\ UNCHANGED <<requests, reReviews>>

Tick ==
    /\ now < MaxTime
    /\ now' = now + 1
    /\ UNCHANGED <<evidence, disputed, run, opened, torn, counters>>
-----------------------------------------------------------------------------
Step == ReadPage \/ ReadHolds \/ EndPage \/ (\E v \in run.due : LockRow(v))
        \/ Destroy \/ DestroyFails \/ Commit \/ CommitFails

Next ==
    \/ Tick \/ BeginRun \/ Step \/ Crash
    \/ \E r \in Runners : OpenDispute(r) \/ ResolveDispute(r)
    \/ \E r \in Uploaders, c \in Checks : Upload(r, c)
    \/ \E v \in DOMAIN rows :
           ReReview(v) \/ \E decision \in {"approved", "rejected"} : Review(v, decision)

Spec == Init /\ [][Next]_vars

\* The job is scheduled every night and goes through its pages; days pass.
FairSpec == Spec /\ WF_vars(BeginRun) /\ WF_vars(Step) /\ WF_vars(Tick)
-----------------------------------------------------------------------------
\* A runner is at level 2 exactly while the newest record of each check is
\* approved, whichever of several uploads is decided first and whatever was
\* purged (syncIdVerifiedLevel, meetsIdVerifiedRule).
LevelFollowsRecords == \A r \in Runners : level[r] = 2 <=> meetsIdVerifiedRule(rows, r)

\* An image is deleted only when it is decided, was itself uploaded, decided
\* or reviewed again before the retention period, and its runner has no open
\* dispute but one opened after the purge had locked the row, whatever was
\* reviewed or disputed since the page was read (purgeDocuments).
PurgedImagesWereDue ==
    [][\A v \in images \ images' :
           /\ rows[v].status # "pending"
           /\ rows[v].active + Retention < now
           /\ rows[v].runner \in disputed => rows[v].runner \in opened]_vars

\* The record and the store tell the same: what is recorded as purged is gone,
\* and only a purge that stopped before its commit leaves a record of an image
\* that is gone, until the next run (purgeDocuments, destroy).
RecordsTellImages ==
    \A v \in DOMAIN rows :
        /\ rows[v].purged => v \notin images
        /\ ~rows[v].purged /\ v \notin images => v \in torn \/ Locked(v)

\* No decided image stays past retention for ever while its runner has no open
\* dispute, although a page before it is filled by one that a dispute holds or
\* that fails to be deleted: "held rows never crowd out purgeable ones".  Held
\* or failing images that fill all MaxPages pages, every night, would do so; the
\* instance has too few.
DueImagesPurged ==
    \A v \in 1..MaxRows :
        []<>~(/\ v \in DOMAIN rows
              /\ ~rows[v].purged /\ rows[v].status # "pending"
              /\ PastRetention(rows[v].runner, now)
              /\ rows[v].runner \notin disputed)
================================================================================
