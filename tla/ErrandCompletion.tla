-------------------------- MODULE ErrandCompletion --------------------------
(***************************************************************************)
(* The end of a job: the customer confirms or disputes it, an admin        *)
(* resolves disputes, the dispute-window job confirms and settles it, the  *)
(* runner's earnings or the customer's refund are recorded, and the job's  *)
(* location samples are deleted later (errands.service.ts,                 *)
(* disputes.service.ts, payments.service.ts, location-retention).          *)
(*                                                                         *)
(* Requests lock the errand's row, so each is one action.  The two jobs    *)
(* read lists first and act on them later.                                 *)
(***************************************************************************)
EXTENDS Integers, FiniteSets, Sequences, ErrandStateMachine

CONSTANTS
    Errands,
    UnpaidErrands,      \* errands an admin may have moved to PAYMENT_CONFIRMED without a payment
    PatchedErrands,     \* errands disputed or resolved through PATCH /errands/:id/status too
    DisputeWindow,      \* errands.disputeWindowHours
    Retention,          \* location.retentionDays
    BatchLimit,         \* settleConfirmed's limit
    MaxTime,            \* bound on the clock
    MaxCrashes          \* bound on API restarts

ASSUME CompletionAssumption ==
    /\ UnpaidErrands \subseteq Errands
    /\ PatchedErrands \subseteq Errands
    /\ DisputeWindow \in Nat
    /\ Retention \in Nat
    /\ BatchLimit \in Nat
    /\ MaxTime \in Nat
    /\ MaxCrashes \in Nat

VARIABLES
    now,
    status,         \* status[e]: errands.status
    completions,    \* completions[e]: times of e's COMPLETED rows in errand_status_history
    endedAt,        \* endedAt[e]: time of e's newest history row, once terminal
    dispute,        \* dispute[e]: disputes.status of e's row
    confirmed,      \* the CONFIRMED errands, least recently updated first
    paid,           \* errands with a completed payment
    owed,           \* errands whose runner_fee line is recorded
    refundDue,      \* errands with a refund review of the cancellation
    samples,        \* errands that have rows in runner_locations
    windowJob,      \* the dispute-window job: its phase and the errands still to do
    purgeJob,       \* the location purge: its phase and the errands to delete
    crashes

clockVars == <<now, crashes>>
taskVars  == <<status, completions, endedAt, confirmed>>
moneyVars == <<paid, owed, refundDue>>
jobVars   == <<windowJob, purgeJob>>

vars == <<clockVars, taskVars, dispute, moneyVars, samples, jobVars>>

\* Where an errand goes from the job on.
CompletionStatuses ==
    {"IN_PROGRESS", "AWAITING_CUSTOMER", "COMPLETED", "DISPUTED",
     "CONFIRMED", "SETTLED", "CANCELLED"}

IdleJob == [phase |-> "idle", due |-> {}]

-----------------------------------------------------------------------------
\* The status write of performTransition with what it records: the history
\* row's time, the hooks of CONFIRMED (recordConfirmed) and CANCELLED
\* (openWithin).
Move(e, to, actor, guard) ==
    /\ Legal(status[e], to, actor, guard)
    /\ status' = [status EXCEPT ![e] = to]
    /\ completions' = IF to = "COMPLETED"
                      THEN [completions EXCEPT ![e] = @ \cup {now}] ELSE completions
    /\ endedAt' = IF IsTerminal(to) THEN [endedAt EXCEPT ![e] = now] ELSE endedAt
    /\ confirmed' = IF to = "CONFIRMED" THEN Append(confirmed, e)
                    ELSE SelectSeq(confirmed, LAMBDA f : f # e)
    /\ owed' = IF to = "CONFIRMED" THEN owed \cup ({e} \cap paid) ELSE owed
    /\ refundDue' = IF to = "CANCELLED" THEN refundDue \cup ({e} \cap paid) ELSE refundDue
    /\ UNCHANGED paid

Init ==
    /\ now = 1
    /\ status = [e \in Errands |-> "IN_PROGRESS"]
    /\ completions = [e \in Errands |-> {}]
    /\ endedAt = [e \in Errands |-> 0]
    /\ dispute = [e \in Errands |-> "none"]
    /\ confirmed = <<>>
    /\ \E unpaid \in SUBSET UnpaidErrands : paid = Errands \ unpaid
    /\ owed = {}
    /\ refundDue = {}
    /\ samples = Errands
    /\ windowJob = IdleJob
    /\ purgeJob = IdleJob
    /\ crashes = 0

Tick ==
    /\ now < MaxTime
    /\ now' = now + 1
    /\ UNCHANGED <<crashes, taskVars, dispute, moneyVars, samples, jobVars>>

\* The runner finishes; the customer confirms, or rejects a price change and
\* so cancels.
Request(e) ==
    /\ \/ Move(e, "AWAITING_CUSTOMER", "runner", NoGuard)
       \/ Move(e, "COMPLETED", "customer", NoGuard)
       \/ Move(e, "CANCELLED", "customer", "price_change_rejection")
    /\ UNCHANGED <<clockVars, dispute, samples, jobVars>>

\* Mutant of OpenDispute: the row is written in a transaction of its own, which
\* a failure can lose.
OpenDisputeRowLost(e) ==
    /\ dispute[e] = "none"
    /\ Move(e, "DISPUTED", "customer", NoGuard)
    /\ \E row \in {"none", "open"} : dispute' = [dispute EXCEPT ![e] = row]
    /\ UNCHANGED <<clockVars, samples, jobVars>>

\* POST /disputes: one row per errand, written with the status.
OpenDispute(e) ==
    /\ dispute[e] = "none"
    /\ Move(e, "DISPUTED", "customer", NoGuard)
    /\ dispute' = [dispute EXCEPT ![e] = "open"]
    /\ UNCHANGED <<clockVars, samples, jobVars>>

\* resolveDispute, with the hook that closes the row.
ResolveDispute(e, to) ==
    /\ status[e] = "DISPUTED"
    /\ Move(e, to, "admin", NoGuard)
    /\ dispute' = [dispute EXCEPT ![e] = IF @ = "open" THEN "resolved" ELSE @]
    /\ UNCHANGED <<clockVars, samples, jobVars>>

\* PATCH /errands/:id/status: the table allows a customer's DISPUTED and an
\* admin's way out of it; no dispute row is written.
PatchDisputed(e) ==
    /\ e \in PatchedErrands
    /\ Move(e, "DISPUTED", "customer", NoGuard)
    /\ UNCHANGED <<clockVars, dispute, samples, jobVars>>

PatchResolved(e, to) ==
    /\ e \in PatchedErrands
    /\ status[e] = "DISPUTED"
    /\ Move(e, to, "admin", NoGuard)
    /\ UNCHANGED <<clockVars, dispute, samples, jobVars>>

(***************************************************************************)
(* The dispute-window job: COMPLETED past the window -> CONFIRMED, then    *)
(* CONFIRMED -> SETTLED, a batch of the oldest.                            *)
(***************************************************************************)
\* The newest COMPLETED history row is a window old.
WindowPassed(e, t) ==
    /\ completions[e] # {}
    /\ \A c \in completions[e] : c + DisputeWindow <= t

\* Mutant of ReadPastWindow: the window is forgotten.
ReadCompleted ==
    /\ windowJob.phase = "idle"
    /\ windowJob' = [phase |-> "confirm",
                     due |-> {e \in Errands : status[e] = "COMPLETED"}]
    /\ UNCHANGED <<clockVars, taskVars, dispute, moneyVars, samples, purgeJob>>

ReadPastWindow ==
    /\ windowJob.phase = "idle"
    /\ windowJob' = [phase |-> "confirm",
                     due |-> {e \in Errands : status[e] = "COMPLETED" /\ WindowPassed(e, now)}]
    /\ UNCHANGED <<clockVars, taskVars, dispute, moneyVars, samples, purgeJob>>

\* Mutant of ConfirmPastWindow: the status the list saw is not looked at again.
ConfirmAsListed(e) ==
    /\ windowJob.phase = "confirm"
    /\ e \in windowJob.due
    /\ status' = [status EXCEPT ![e] = "CONFIRMED"]
    /\ confirmed' = Append(confirmed, e)
    /\ owed' = owed \cup ({e} \cap paid)
    /\ windowJob' = [windowJob EXCEPT !.due = @ \ {e}]
    /\ UNCHANGED <<clockVars, completions, endedAt, dispute, paid, refundDue, samples, purgeJob>>

\* The transition re-checks the status under the row lock, and nothing else.
ConfirmPastWindow(e) ==
    /\ windowJob.phase = "confirm"
    /\ e \in windowJob.due
    /\ IF status[e] = "COMPLETED"
       THEN Move(e, "CONFIRMED", "system", NoGuard)
       ELSE UNCHANGED <<taskVars, moneyVars>>
    /\ windowJob' = [windowJob EXCEPT !.due = @ \ {e}]
    /\ UNCHANGED <<clockVars, dispute, samples, purgeJob>>

\* Mutant of ReadConfirmed: the newest of them.
ReadNewestConfirmed ==
    /\ windowJob.phase = "confirm"
    /\ windowJob.due = {}
    /\ windowJob' = [phase |-> "settle",
                     due |-> {confirmed[i] :
                                 i \in {j \in DOMAIN confirmed : j > Len(confirmed) - BatchLimit}}]
    /\ UNCHANGED <<clockVars, taskVars, dispute, moneyVars, samples, purgeJob>>

\* idsInStatus(CONFIRMED, limit): the oldest of them.
ReadConfirmed ==
    /\ windowJob.phase = "confirm"
    /\ windowJob.due = {}
    /\ windowJob' = [phase |-> "settle",
                     due |-> {confirmed[i] : i \in {j \in DOMAIN confirmed : j <= BatchLimit}}]
    /\ UNCHANGED <<clockVars, taskVars, dispute, moneyVars, samples, purgeJob>>

\* settleErrand: refused, and left for the next run, without a payment.
Settle(e) ==
    /\ windowJob.phase = "settle"
    /\ e \in windowJob.due
    /\ IF e \in paid
       THEN Move(e, "SETTLED", "system", NoGuard)
       ELSE UNCHANGED <<taskVars, moneyVars>>
    /\ windowJob' = [windowJob EXCEPT !.due = @ \ {e}]
    /\ UNCHANGED <<clockVars, dispute, samples, purgeJob>>

\* Mutant of FinishWindowJob: the job is not scheduled again.
FinishWindowJobForGood ==
    /\ windowJob.phase = "settle"
    /\ windowJob.due = {}
    /\ UNCHANGED vars

FinishWindowJob ==
    /\ windowJob.phase = "settle"
    /\ windowJob.due = {}
    /\ windowJob' = IdleJob
    /\ UNCHANGED <<clockVars, taskVars, dispute, moneyVars, samples, purgeJob>>

(***************************************************************************)
(* The daily purge of location samples: the tasks that ended long enough   *)
(* ago, minus those with an open dispute, then one DELETE.                 *)
(***************************************************************************)

\* endedBefore.
EndedBefore(e, cutoff) == IsTerminal(status[e]) /\ endedAt[e] < cutoff

ReadEnded ==
    /\ purgeJob.phase = "idle"
    /\ purgeJob' = [phase |-> "hold",
                    due |-> {e \in samples : EndedBefore(e, now - Retention)}]
    /\ UNCHANGED <<clockVars, taskVars, dispute, moneyVars, samples, windowJob>>

\* Mutant of HoldDisputed: no task is held back.
HoldNone ==
    /\ purgeJob.phase = "hold"
    /\ purgeJob' = [purgeJob EXCEPT !.phase = "delete"]
    /\ UNCHANGED <<clockVars, taskVars, dispute, moneyVars, samples, windowJob>>

HoldDisputed ==
    /\ purgeJob.phase = "hold"
    /\ purgeJob' = [purgeJob EXCEPT !.phase = "delete",
                                    !.due = {e \in @ : dispute[e] # "open"}]
    /\ UNCHANGED <<clockVars, taskVars, dispute, moneyVars, samples, windowJob>>

\* Mutant of DeleteSamples: an empty batch ends the job's schedule.
DeleteSamplesForGood ==
    /\ purgeJob.phase = "delete"
    /\ purgeJob.due # {}
    /\ samples' = samples \ purgeJob.due
    /\ purgeJob' = IdleJob
    /\ UNCHANGED <<clockVars, taskVars, dispute, moneyVars, windowJob>>

DeleteSamples ==
    /\ purgeJob.phase = "delete"
    /\ samples' = samples \ purgeJob.due
    /\ purgeJob' = IdleJob
    /\ UNCHANGED <<clockVars, taskVars, dispute, moneyVars, windowJob>>

\* The API restarts: the rows stay, the jobs' progress is lost.
Crash ==
    /\ crashes < MaxCrashes
    /\ crashes' = crashes + 1
    /\ windowJob' = IdleJob
    /\ purgeJob' = IdleJob
    /\ UNCHANGED <<now, taskVars, dispute, moneyVars, samples>>
-----------------------------------------------------------------------------
ErrandNext(e) ==
    \/ Request(e) \/ OpenDispute(e) \/ PatchDisputed(e)
    \/ \E to \in {"COMPLETED", "CANCELLED"} : ResolveDispute(e, to) \/ PatchResolved(e, to)
    \/ ConfirmPastWindow(e) \/ Settle(e)

Next ==
    \/ Tick
    \/ \E e \in Errands : ErrandNext(e)
    \/ ReadPastWindow \/ ReadConfirmed \/ FinishWindowJob
    \/ ReadEnded \/ HoldDisputed \/ DeleteSamples
    \/ Crash

Spec == Init /\ [][Next]_vars

\* Both jobs repeat (BullMQ schedulers) and, unless the API stops, each run
\* goes through its list to the end.
Fairness ==
    /\ WF_vars(ReadPastWindow) /\ WF_vars(ReadConfirmed) /\ WF_vars(FinishWindowJob)
    /\ \A e \in Errands : WF_vars(ConfirmPastWindow(e)) /\ WF_vars(Settle(e))
    /\ WF_vars(ReadEnded) /\ WF_vars(HoldDisputed) /\ WF_vars(DeleteSamples)

FairSpec == Spec /\ Fairness
-----------------------------------------------------------------------------
(***************************************************************************)
(* Properties.                                                             *)
(***************************************************************************)
JobOk(job, phases) ==
    job.phase \in phases /\ job.due \subseteq Errands

\* Every row has a value the code can write; a completed job has the history
\* row that says when, and the CONFIRMED list holds each such errand once.
TypeOK ==
    /\ now \in Nat
    /\ crashes \in Nat
    /\ status \in [Errands -> CompletionStatuses]
    /\ completions \in [Errands -> SUBSET Nat]
    /\ endedAt \in [Errands -> Nat]
    /\ \A e \in Errands :
           status[e] \in {"COMPLETED", "CONFIRMED", "SETTLED"} => completions[e] # {}
    /\ dispute \in [Errands -> {"none", "open", "resolved"}]
    /\ confirmed \in Seq(Errands)
    /\ {confirmed[i] : i \in DOMAIN confirmed} = {e \in Errands : status[e] = "CONFIRMED"}
    /\ \A i, j \in DOMAIN confirmed : confirmed[i] = confirmed[j] => i = j
    /\ paid \subseteq Errands
    /\ owed \subseteq Errands /\ refundDue \subseteq Errands /\ samples \subseteq Errands
    /\ JobOk(windowJob, {"idle", "confirm", "settle"})
    /\ JobOk(purgeJob, {"idle", "hold", "delete"})

\* The dispute row and the task agree: through the dispute endpoints alone, a
\* row is open exactly while its task is DISPUTED, so the retention holds
\* (rows 175, 247) and the admin's queue see what the task says.
DisputeRowFollowsTask ==
    \A e \in Errands \ PatchedErrands : dispute[e] = "open" <=> status[e] = "DISPUTED"

\* Rows 95, 104, 140: however disputes, resolutions and the job interleave, a
\* paid task ends one way: the runner's earnings are recorded exactly on the
\* CONFIRMED and SETTLED ones, the refund review exactly on the CANCELLED
\* ones, never both.
PaidTasksEndOneWay ==
    \A e \in paid :
        /\ e \in owed <=> status[e] \in {"CONFIRMED", "SETTLED"}
        /\ e \in refundDue <=> status[e] = "CANCELLED"

\* Row 26: a task is confirmed only when at least the dispute window has
\* passed since the customer first completed it.
ConfirmedAfterWindow ==
    \A e \in Errands :
        status[e] \in {"CONFIRMED", "SETTLED"} =>
            \E c \in completions[e] : c + DisputeWindow <= now

\* Row 247: the purge, which read the task and its dispute some time before,
\* deletes no sample of a task that has not ended for the whole retention, or
\* that has an open dispute row.
HeldSamplesKept ==
    [][\A e \in samples \ samples' :
           /\ EndedBefore(e, now - Retention)
           /\ dispute[e] # "open"]_vars

\* Rows 26, 50: a completed task does not stay COMPLETED past its window.
CompletedTasksMoveOn ==
    \A e \in Errands :
        status[e] = "COMPLETED" /\ WindowPassed(e, now)
            ~> ~ (status[e] = "COMPLETED" /\ WindowPassed(e, now))

\* What settles e is refused: the batch is taken up by errands before it that
\* have no payment, and never leave it.
Blocked(e) ==
    \E i \in DOMAIN confirmed :
        /\ confirmed[i] = e
        /\ Cardinality({j \in 1..(i - 1) : confirmed[j] \notin paid}) >= BatchLimit

\* Rows 26, 50: a paid CONFIRMED task is settled although the batch is bounded
\* and the job restarts, whatever is confirmed before or after it; only as many
\* unpaid tasks before it as fill the batch hold it up.
PaidTasksSettle ==
    \A e \in Errands :
        e \in paid /\ status[e] = "CONFIRMED" /\ ~ Blocked(e) ~> status[e] = "SETTLED"

\* Row 247: samples are deleted once the task has ended for the retention,
\* but for those an open dispute row holds; that the dispute endpoints leave no
\* such row behind is DisputeRowFollowsTask.
EndedTasksLoseSamples ==
    \A e \in Errands :
        EndedBefore(e, now - Retention) /\ dispute[e] # "open" ~> e \notin samples

(***************************************************************************)
(* Claims of the repository that the code does not keep.                   *)
(***************************************************************************)

\* Row 104: "the task reaches CONFIRMED: ... dispute window closed, and no
\* dispute": a confirmed task has no open dispute.
ConfirmedWithoutDispute ==
    \A e \in Errands : status[e] \in {"CONFIRMED", "SETTLED"} => dispute[e] # "open"

\* settleConfirmed: "Settles every CONFIRMED errand (...).  Errands that cannot
\* settle yet are logged and retried on the next run."  The ones without a
\* payment are retried first, for ever: a batch of them settles nothing else.
EveryPaidTaskSettles ==
    \A e \in Errands : e \in paid /\ status[e] = "CONFIRMED" ~> status[e] = "SETTLED"

\* confirmPastDisputeWindow: "The window counts from the latest COMPLETED
\* entry, so it restarts after a dispute resolves back to COMPLETED."
WindowRestarts ==
    [][\A e \in Errands :
           status[e] = "COMPLETED" /\ status'[e] = "CONFIRMED" => WindowPassed(e, now)]_vars
=============================================================================
