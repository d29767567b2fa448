--------------------------- MODULE ErrandDispatch ---------------------------
(***************************************************************************)
(* Dispatch: a paid errand is offered to runners one at a time, a runner   *)
(* accepts and works on it, offers lapse and tasks run past the deadline   *)
(* the customer chose (errands.service.ts, runners.service.ts, the         *)
(* offer-expiry job, the web presence sweep, the level-drop watcher).      *)
(*                                                                         *)
(* A database transaction that holds the errand's row lock from its first  *)
(* read to its commit is one action.  Work that reads before it locks, or  *)
(* holds a lock over reads another transaction can overtake, is two: the   *)
(* customer's deadline edit, assign, the sweeps, the withdrawal after a    *)
(* level drop and the presence sweep.                                      *)
(***************************************************************************)
EXTENDS Integers, FiniteSets, ErrandStateMachine

CONSTANTS
    Errands,
    Runners,
    NoRunner,           \* no assign transaction holds the errand row
    Deadlines,          \* the deadlines a customer may choose
    OfferWindow,        \* adminOfferWindowSeconds
    DefaultWindow,      \* errands.defaultDeadlineHours
    MaxTime,            \* bound on the clock
    EditableErrands,    \* bound: errands whose customer edits the deadline
    ReviewedRunners,    \* bound: runners whose documents are reviewed again
    WebRunners,         \* runners on the web client, which the presence sweep watches
    MaxCrashes          \* bound on API restarts

NoDeadline == 0         \* deadlineAt null; the clock starts at 1

ASSUME DispatchAssumption ==
    /\ NoRunner \notin Runners
    /\ Deadlines \subseteq Nat \ {0}
    /\ OfferWindow \in Nat \ {0}
    /\ DefaultWindow \in Nat \ {0}
    /\ MaxTime \in Nat \ {0}
    /\ EditableErrands \subseteq Errands
    /\ ReviewedRunners \subseteq Runners
    /\ WebRunners \subseteq Runners
    /\ MaxCrashes \in Nat

VARIABLES
    now,            \* the clock, shared by API and database
    status,         \* status[e]: errands.status
    deadline,       \* deadline[e]: errands.deadlineAt
    offer,          \* offer[e][r]: errand_assignments.status of r's row on e
    expires,        \* expires[e][r]: that row's offerExpiresAt, 0 without a row
    avail,          \* avail[r]: runner_profiles.availability
    verified,       \* verified[r]: every required check approved
    assigning,      \* assigning[e]: the runner of the assign transaction holding e's row
    edits,          \* edits[e]: the deadline of e's PATCH, read and checked, not yet written
    sweep,          \* the offer-expiry job: where it is, its `now`, the errands still to do
    levelDropped,   \* runners whose runner.level_dropped event has not been handled
    withdrawing,    \* withdrawing[r]: errands withdrawOpenOffersOf read and has yet to visit
    idleCheck,      \* runners whose profile row setOfflineBySystem holds, checks passed
    crashes

clockVars   == <<now, crashes>>
taskVars    == <<status, deadline>>
offerVars   == <<offer, expires>>
runnerVars  == <<avail, verified>>
flightVars  == <<assigning, edits, levelDropped, withdrawing, idleCheck>>

vars == <<clockVars, taskVars, offerVars, runnerVars, flightVars, sweep>>

AssignmentStatuses == {"none", "assigned", "accepted", "declined", "expired"}

\* Errands that still have no runner on the job, those that had one, those
\* that never will.
WaitingStatuses == {"ACCEPTED", "PAYMENT_CONFIRMED", "RUNNER_ASSIGNED"}
LeftJobStatuses == {"AWAITING_CUSTOMER", "DISPUTED", "FAILED", "CANCELLED"}
DispatchStatuses ==
    WaitingStatuses \cup RunnerActiveJobStates \cup LeftJobStatuses \cup {"EXPIRED"}

\* CHK_errands_deadline_from_payment: these rows may have no deadline.
DeadlineOptionalStatuses == {"ACCEPTED", "CANCELLED"}

-----------------------------------------------------------------------------
DeadlinePassed(e, t) == deadline[e] # NoDeadline /\ deadline[e] <= t

OpenOffers(e)      == {r \in Runners : offer[e][r] = "assigned"}
Holders(e)         == {r \in Runners : offer[e][r] = "accepted"}
Lapsed(e, r, t)    == offer[e][r] = "assigned" /\ expires[e][r] <= t
LapsedOffers(e, t) == {r \in Runners : Lapsed(e, r, t)}

\* The row locks other transactions wait for.
ErrandFree(e)  == assigning[e] = NoRunner
ProfileFree(r) == r \notin idleCheck

\* offerExpiryFor: a window from now, cut at the task's deadline.
OfferExpiry(e) ==
    IF DeadlinePassed(e, now + OfferWindow) THEN deadline[e] ELSE now + OfferWindow

\* The deadline a PATCH leaves behind: the CHECK constraint of the table still
\* refuses to clear it once the task is paid.
EditedDeadline(e, d) ==
    IF d = NoDeadline /\ status[e] \notin DeadlineOptionalStatuses THEN deadline[e] ELSE d

\* Offers of e in `which` end as `expired`; no other row changes.
ExpireOffers(e, which) ==
    /\ offer' = [offer EXCEPT ![e] =
                    [r \in Runners |-> IF r \in which THEN "expired" ELSE offer[e][r]]]
    /\ UNCHANGED expires

\* openOffersFor: what the presence sweep and the runner's app call an open offer.
HasOpenOffer(r) ==
    \E e \in Errands :
        /\ offer[e][r] = "assigned"
        /\ status[e] = "RUNNER_ASSIGNED"
        /\ expires[e][r] > now
        /\ ~DeadlinePassed(e, now)

\* The candidates list's eligible runners: verified, online, not holding the
\* task and never tried for it.  Skills and purchase limits, which nothing here
\* changes, are left out: every runner is one the task suits.
EligibleRunners(e) ==
    {r \in Runners : verified[r] /\ avail[r] = "online" /\ offer[e][r] = "none"}

\* The status write of performTransition, under the errand's row lock.
Move(e, to, actor, guard) ==
    /\ ErrandFree(e)
    /\ Legal(status[e], to, actor, guard)
    /\ status' = [status EXCEPT ![e] = to]

\* Mutant of StartJob: only an offline runner is refused.
StartJobIgnoringBusy(r) ==
    /\ ProfileFree(r)
    /\ verified[r]
    /\ avail[r] # "offline"
    /\ avail' = [avail EXCEPT ![r] = "busy"]

\* startJob: verified, online, not on another job; the runner becomes busy.
StartJob(r) ==
    /\ ProfileFree(r)
    /\ verified[r]
    /\ avail[r] = "online"
    /\ avail' = [avail EXCEPT ![r] = "busy"]

\* Mutant of EndJob: the runner is put online without a look at the checks.
EndJobAlwaysOnline(e) ==
    avail' = [r \in Runners |-> IF r \in Holders(e) THEN "online" ELSE avail[r]]

\* endJob for the errand's accepted runner: free again, offline when no
\* longer verified.
EndJob(e) ==
    /\ \A r \in Holders(e) : ProfileFree(r)
    /\ avail' = [r \in Runners |->
                    IF r \in Holders(e) /\ avail[r] = "busy"
                    THEN IF verified[r] THEN "online" ELSE "offline"
                    ELSE avail[r]]
-----------------------------------------------------------------------------
Init ==
    /\ now = 1
    /\ status = [e \in Errands |-> "ACCEPTED"]
    /\ deadline \in [Errands -> Deadlines \cup {NoDeadline}]
    /\ offer = [e \in Errands |-> [r \in Runners |-> "none"]]
    /\ expires = [e \in Errands |-> [r \in Runners |-> 0]]
    /\ avail = [r \in Runners |-> "offline"]
    /\ verified = [r \in Runners |-> TRUE]
    /\ assigning = [e \in Errands |-> NoRunner]
    /\ edits = [e \in Errands |-> {}]
    /\ sweep = [phase |-> "idle", at |-> 0, due |-> {}]
    /\ levelDropped = {}
    /\ withdrawing = [r \in Runners |-> {}]
    /\ idleCheck = {}
    /\ crashes = 0

Tick ==
    /\ now < MaxTime
    /\ now' = now + 1
    /\ UNCHANGED <<crashes, taskVars, offerVars, runnerVars, flightVars, sweep>>

(***************************************************************************)
(* Payment and the customer's own actions.                                 *)
(***************************************************************************)

\* A task without a deadline gets the default one as it is paid.
ConfirmPayment(e) ==
    /\ Move(e, "PAYMENT_CONFIRMED", "system", NoGuard)
    /\ deadline' = [deadline EXCEPT ![e] = IF @ = NoDeadline THEN now + DefaultWindow ELSE @]
    /\ UNCHANGED <<clockVars, offerVars, runnerVars, flightVars, sweep>>

CustomerCancel(e) ==
    /\ status[e] = "ACCEPTED"
    /\ Move(e, "CANCELLED", "customer", NoGuard)
    /\ UNCHANGED <<clockVars, deadline, offerVars, runnerVars, flightVars, sweep>>

\* updateErrand, first half: the errand is read without a lock and the new
\* deadline (or none) passes the checks.
BeginEdit(e, d) ==
    /\ e \in EditableErrands
    /\ edits[e] = {}
    /\ status[e] = "ACCEPTED"
    /\ d = NoDeadline \/ d > now
    /\ edits' = [edits EXCEPT ![e] = {d}]
    /\ UNCHANGED <<clockVars, taskVars, offerVars, runnerVars, sweep,
                   assigning, levelDropped, withdrawing, idleCheck>>

\* updateErrand, second half: the UPDATE, by id, whatever the status is now.
\* Only the CHECK constraint of the table can still refuse it.
WriteEdit(e) ==
    /\ ErrandFree(e)
    /\ \E d \in edits[e] : deadline' = [deadline EXCEPT ![e] = EditedDeadline(e, d)]
    /\ edits' = [edits EXCEPT ![e] = {}]
    /\ UNCHANGED <<clockVars, status, offerVars, runnerVars, sweep,
                   assigning, levelDropped, withdrawing, idleCheck>>

(***************************************************************************)
(* The admin's actions.                                                    *)
(***************************************************************************)

\* Mutant of BeginAssign: only the open offer is looked at, not the closed ones.
BeginAssignAgain(e, r) ==
    /\ ErrandFree(e)
    /\ status[e] \in {"PAYMENT_CONFIRMED", "RUNNER_ASSIGNED"}
    /\ ~DeadlinePassed(e, now)
    /\ OpenOffers(e) \subseteq LapsedOffers(e, now)
    /\ verified[r]
    /\ avail[r] # "busy"
    /\ assigning' = [assigning EXCEPT ![e] = r]
    /\ UNCHANGED <<clockVars, taskVars, offerVars, runnerVars, sweep,
                   edits, levelDropped, withdrawing, idleCheck>>

\* assign, up to its guards: the errand row is locked, the runner's profile
\* and checks are only read.  An open offer that has not lapsed makes the
\* later transition illegal.
BeginAssign(e, r) ==
    /\ ErrandFree(e)
    /\ status[e] \in {"PAYMENT_CONFIRMED", "RUNNER_ASSIGNED"}
    /\ ~DeadlinePassed(e, now)
    /\ offer[e][r] = "none"
    /\ OpenOffers(e) \subseteq LapsedOffers(e, now)
    /\ verified[r]
    /\ avail[r] # "busy"
    /\ assigning' = [assigning EXCEPT ![e] = r]
    /\ UNCHANGED <<clockVars, taskVars, offerVars, runnerVars, sweep,
                   edits, levelDropped, withdrawing, idleCheck>>

\* Mutant of CommitAssign: the lapsed offer is left for the sweep.
CommitAssignKeepingLapsed(e) ==
    /\ assigning[e] # NoRunner
    /\ status' = [status EXCEPT ![e] = "RUNNER_ASSIGNED"]
    /\ offer' = [offer EXCEPT ![e][assigning[e]] = "assigned"]
    /\ expires' = [expires EXCEPT ![e][assigning[e]] = OfferExpiry(e)]
    /\ assigning' = [assigning EXCEPT ![e] = NoRunner]
    /\ UNCHANGED <<clockVars, deadline, runnerVars, sweep,
                   edits, levelDropped, withdrawing, idleCheck>>

\* assign commits: the lapsed offer is closed, the new one written and the
\* errand is RUNNER_ASSIGNED, if it was not already.
CommitAssign(e) ==
    /\ assigning[e] # NoRunner
    /\ status[e] = "RUNNER_ASSIGNED" \/ Legal(status[e], "RUNNER_ASSIGNED", "admin", NoGuard)
    /\ status' = [status EXCEPT ![e] = "RUNNER_ASSIGNED"]
    /\ offer' = [offer EXCEPT ![e] =
                    [r \in Runners |-> CASE r = assigning[e]   -> "assigned"
                                         [] r \in OpenOffers(e) -> "expired"
                                         [] OTHER               -> offer[e][r]]]
    /\ expires' = [expires EXCEPT ![e][assigning[e]] = OfferExpiry(e)]
    /\ assigning' = [assigning EXCEPT ![e] = NoRunner]
    /\ UNCHANGED <<clockVars, deadline, runnerVars, sweep,
                   edits, levelDropped, withdrawing, idleCheck>>

\* The purchase limit refuses the runner after the other guards passed: the
\* transaction rolls back, the closed offer included.
RefuseAssign(e) ==
    /\ assigning[e] # NoRunner
    /\ assigning' = [assigning EXCEPT ![e] = NoRunner]
    /\ UNCHANGED <<clockVars, taskVars, offerVars, runnerVars, sweep,
                   edits, levelDropped, withdrawing, idleCheck>>

\* PATCH /errands/:id/status by an admin: the table allows the move, and
\* no offer or deadline is looked at.
AdminMarkAssigned(e) ==
    /\ Move(e, "RUNNER_ASSIGNED", "admin", NoGuard)
    /\ UNCHANGED <<clockVars, deadline, offerVars, runnerVars, flightVars, sweep>>

\* Mutant of AdminCancel: the open offer is forgotten.
AdminCancelKeepingOffer(e) ==
    /\ status[e] = "RUNNER_ASSIGNED"
    /\ Move(e, "CANCELLED", "admin", NoGuard)
    /\ UNCHANGED <<clockVars, deadline, offerVars, runnerVars, flightVars, sweep>>

AdminCancel(e) ==
    /\ status[e] = "RUNNER_ASSIGNED"
    /\ Move(e, "CANCELLED", "admin", NoGuard)
    /\ ExpireOffers(e, OpenOffers(e))
    /\ UNCHANGED <<clockVars, deadline, runnerVars, flightVars, sweep>>

\* noRunnerExpiryBlocker finds nothing: no open offer, deadline not passed,
\* no eligible runner left.
NoRunnerLeft(e) ==
    /\ status[e] = "RUNNER_ASSIGNED"
    /\ ~DeadlinePassed(e, now)
    /\ OpenOffers(e) \subseteq LapsedOffers(e, now)
    /\ Holders(e) = {}
    /\ EligibleRunners(e) = {}

\* paidExpiryBlocker finds nothing.
PaidPastDeadline(e) ==
    /\ status[e] = "PAYMENT_CONFIRMED"
    /\ DeadlinePassed(e, now)

AdminExpire(e) ==
    /\ NoRunnerLeft(e) \/ PaidPastDeadline(e)
    /\ Move(e, "EXPIRED", "admin", "admin_expiry")
    /\ ExpireOffers(e, OpenOffers(e))
    /\ UNCHANGED <<clockVars, deadline, runnerVars, flightVars, sweep>>

(***************************************************************************)
(* The runner's actions.                                                   *)
(***************************************************************************)
Accept(e, r) ==
    /\ offer[e][r] = "assigned"
    /\ ~Lapsed(e, r, now)
    /\ ~DeadlinePassed(e, now)
    /\ Move(e, "RUNNER_EN_ROUTE", "runner", NoGuard)
    /\ StartJob(r)
    /\ offer' = [offer EXCEPT ![e][r] = "accepted"]
    /\ UNCHANGED <<clockVars, deadline, expires, verified, flightVars, sweep>>

\* declineAssignment: no status change, the task waits for another offer.
Decline(e, r) ==
    /\ ErrandFree(e)
    /\ status[e] = "RUNNER_ASSIGNED"
    /\ offer[e][r] = "assigned"
    /\ ~Lapsed(e, r, now)
    /\ ~DeadlinePassed(e, now)
    /\ offer' = [offer EXCEPT ![e][r] = "declined"]
    /\ UNCHANGED <<clockVars, taskVars, expires, runnerVars, flightVars, sweep>>

Arrive(e) ==
    /\ status[e] = "RUNNER_EN_ROUTE"
    /\ Move(e, "ARRIVED", "runner", NoGuard)
    /\ UNCHANGED <<clockVars, deadline, offerVars, runnerVars, flightVars, sweep>>

StartWork(e) ==
    /\ Move(e, "IN_PROGRESS", "runner", NoGuard)
    /\ UNCHANGED <<clockVars, deadline, offerVars, runnerVars, flightVars, sweep>>

\* Every way off the job: the runner fails or finishes it, the customer
\* disputes it or rejects a price change.  The runner is freed with it.
LeaveJob(e) ==
    /\ status[e] \in RunnerActiveJobStates
    /\ \/ Move(e, "FAILED", "runner", NoGuard)
       \/ Move(e, "AWAITING_CUSTOMER", "runner", NoGuard)
       \/ Move(e, "DISPUTED", "customer", NoGuard)
       \/ Move(e, "CANCELLED", "customer", "price_change_rejection")
    /\ EndJob(e)
    /\ UNCHANGED <<clockVars, deadline, offerVars, verified, flightVars, sweep>>

\* setAvailability; a busy runner's `online` changes nothing.
GoOnline(r) ==
    /\ ProfileFree(r)
    /\ avail[r] = "offline"
    /\ verified[r]
    /\ avail' = [avail EXCEPT ![r] = "online"]
    /\ UNCHANGED <<clockVars, taskVars, offerVars, verified, flightVars, sweep>>

GoOffline(r) ==
    /\ ProfileFree(r)
    /\ avail[r] = "online"
    /\ avail' = [avail EXCEPT ![r] = "offline"]
    /\ UNCHANGED <<clockVars, taskVars, offerVars, verified, flightVars, sweep>>

(***************************************************************************)
(* Reviews of a runner's documents, and the watcher of level drops.        *)
(***************************************************************************)
Approve(r) ==
    /\ ProfileFree(r)
    /\ ~verified[r]
    /\ verified' = [verified EXCEPT ![r] = TRUE]
    /\ UNCHANGED <<clockVars, taskVars, offerVars, avail, flightVars, sweep>>

\* syncIdVerifiedLevel: an online runner goes offline in the same write, a
\* busy one keeps the job; the event leaves after the commit.
DropLevel(r) ==
    /\ r \in ReviewedRunners
    /\ ProfileFree(r)
    /\ verified[r]
    /\ verified' = [verified EXCEPT ![r] = FALSE]
    /\ avail' = [avail EXCEPT ![r] = IF @ = "online" THEN "offline" ELSE @]
    /\ levelDropped' = levelDropped \cup {r}
    /\ UNCHANGED <<clockVars, taskVars, offerVars, sweep, assigning, edits, withdrawing, idleCheck>>

\* withdrawOpenOffersOf lists the runner's open offers without a lock...
ReadWithdrawals(r) ==
    /\ r \in levelDropped
    /\ withdrawing' = [withdrawing EXCEPT ![r] = @ \cup
                          {e \in Errands : /\ status[e] = "RUNNER_ASSIGNED"
                                           /\ offer[e][r] = "assigned"}]
    /\ levelDropped' = levelDropped \ {r}
    /\ UNCHANGED <<clockVars, taskVars, offerVars, runnerVars, sweep, assigning, edits, idleCheck>>

\* ...and visits each errand, re-checked under its row lock.
Withdraw(e, r) ==
    /\ e \in withdrawing[r]
    /\ ErrandFree(e)
    /\ withdrawing' = [withdrawing EXCEPT ![r] = @ \ {e}]
    /\ IF status[e] = "RUNNER_ASSIGNED" /\ offer[e][r] = "assigned"
       THEN ExpireOffers(e, {r})
       ELSE UNCHANGED offerVars
    /\ UNCHANGED <<clockVars, taskVars, runnerVars, sweep,
                   assigning, edits, levelDropped, idleCheck>>

(***************************************************************************)
(* The web presence sweep: with the profile row locked, the offers are     *)
(* read (in another connection, without locks), then the runner goes       *)
(* offline.                                                                *)
(***************************************************************************)
CheckIdle(r) ==
    /\ r \in WebRunners
    /\ ProfileFree(r)
    /\ avail[r] = "online"
    /\ ~HasOpenOffer(r)
    /\ idleCheck' = idleCheck \cup {r}
    /\ UNCHANGED <<clockVars, taskVars, offerVars, runnerVars, sweep,
                   assigning, edits, levelDropped, withdrawing>>

SetOfflineBySystem(r) ==
    /\ r \in idleCheck
    /\ idleCheck' = idleCheck \ {r}
    /\ avail' = [avail EXCEPT ![r] = "offline"]
    /\ UNCHANGED <<clockVars, taskVars, offerVars, verified, sweep,
                   assigning, edits, levelDropped, withdrawing>>

(***************************************************************************)
(* The offer-expiry job: tasks past their deadline, then lapsed offers.    *)
(* Each list is read first; each errand of it is re-checked under its row  *)
(* lock, against the `now` of the list.                                    *)
(***************************************************************************)
\* Mutant of ReadPastDeadline: only tasks with an open offer are listed.
ReadPastDeadlineOffered ==
    /\ sweep.phase = "idle"
    /\ sweep' = [phase |-> "deadline", at |-> now,
                 due |-> {e \in Errands : OpenOffers(e) # {} /\ DeadlinePassed(e, now)}]
    /\ UNCHANGED <<clockVars, taskVars, offerVars, runnerVars, flightVars>>

ReadPastDeadline ==
    /\ sweep.phase = "idle"
    /\ sweep' = [phase |-> "deadline", at |-> now,
                 due |-> {e \in Errands : /\ status[e] = "RUNNER_ASSIGNED"
                                          /\ DeadlinePassed(e, now)}]
    /\ UNCHANGED <<clockVars, taskVars, offerVars, runnerVars, flightVars>>

ExpirePastDeadline(e) ==
    /\ sweep.phase = "deadline"
    /\ e \in sweep.due
    /\ ErrandFree(e)
    /\ IF status[e] = "RUNNER_ASSIGNED" /\ DeadlinePassed(e, sweep.at)
       THEN /\ Move(e, "EXPIRED", "system", NoGuard)
            /\ ExpireOffers(e, OpenOffers(e))
       ELSE UNCHANGED <<status, offerVars>>
    /\ sweep' = [sweep EXCEPT !.due = @ \ {e}]
    /\ UNCHANGED <<clockVars, deadline, runnerVars, flightVars>>

ReadLapsed ==
    /\ sweep.phase = "deadline"
    /\ sweep.due = {}
    /\ sweep' = [phase |-> "lapse", at |-> now,
                 due |-> {e \in Errands : /\ status[e] = "RUNNER_ASSIGNED"
                                          /\ LapsedOffers(e, now) # {}}]
    /\ UNCHANGED <<clockVars, taskVars, offerVars, runnerVars, flightVars>>

ExpireLapsed(e) ==
    /\ sweep.phase = "lapse"
    /\ e \in sweep.due
    /\ ErrandFree(e)
    /\ IF status[e] = "RUNNER_ASSIGNED"
       THEN ExpireOffers(e, LapsedOffers(e, sweep.at))
       ELSE UNCHANGED offerVars
    /\ sweep' = [sweep EXCEPT !.due = @ \ {e}]
    /\ UNCHANGED <<clockVars, taskVars, runnerVars, flightVars>>

\* Mutant of FinishSweep: the job runs once per start of the API.
FinishSweepForGood ==
    /\ sweep.phase = "lapse"
    /\ sweep.due = {}
    /\ UNCHANGED vars

FinishSweep ==
    /\ sweep.phase = "lapse"
    /\ sweep.due = {}
    /\ sweep' = [sweep EXCEPT !.phase = "idle"]
    /\ UNCHANGED <<clockVars, taskVars, offerVars, runnerVars, flightVars>>

\* The API restarts: open transactions roll back, requests, events and the
\* job's progress are lost; the rows stay.
Crash ==
    /\ crashes < MaxCrashes
    /\ crashes' = crashes + 1
    /\ assigning' = [e \in Errands |-> NoRunner]
    /\ edits' = [e \in Errands |-> {}]
    /\ levelDropped' = {}
    /\ withdrawing' = [r \in Runners |-> {}]
    /\ idleCheck' = {}
    /\ sweep' = [phase |-> "idle", at |-> 0, due |-> {}]
    /\ UNCHANGED <<now, taskVars, offerVars, runnerVars>>
-----------------------------------------------------------------------------
ErrandNext(e) ==
    \/ ConfirmPayment(e) \/ CustomerCancel(e)
    \/ \E d \in Deadlines \cup {NoDeadline} : BeginEdit(e, d)
    \/ WriteEdit(e)
    \/ CommitAssign(e) \/ RefuseAssign(e)
    \/ AdminMarkAssigned(e) \/ AdminCancel(e) \/ AdminExpire(e)
    \/ Arrive(e) \/ StartWork(e) \/ LeaveJob(e)
    \/ ExpirePastDeadline(e) \/ ExpireLapsed(e)

RunnerNext(r) ==
    \/ GoOnline(r) \/ GoOffline(r)
    \/ Approve(r) \/ DropLevel(r) \/ ReadWithdrawals(r)
    \/ CheckIdle(r) \/ SetOfflineBySystem(r)

OfferNext(e, r) ==
    \/ BeginAssign(e, r) \/ Accept(e, r) \/ Decline(e, r) \/ Withdraw(e, r)

Next ==
    \/ Tick
    \/ \E e \in Errands : ErrandNext(e)
    \/ \E r \in Runners : RunnerNext(r)
    \/ \E e \in Errands, r \in Runners : OfferNext(e, r)
    \/ ReadPastDeadline \/ ReadLapsed \/ FinishSweep
    \/ Crash

Spec == Init /\ [][Next]_vars

\* The job repeats (BullMQ), a transaction that holds a row ends, and a step
\* waiting for a row lock is queued by the database, so it is served however
\* often others take the row before it.
Fairness ==
    /\ WF_vars(ReadPastDeadline)
    /\ WF_vars(ReadLapsed)
    /\ WF_vars(FinishSweep)
    /\ \A e \in Errands :
           /\ SF_vars(ExpirePastDeadline(e))
           /\ SF_vars(ExpireLapsed(e))
           /\ WF_vars(CommitAssign(e) \/ RefuseAssign(e))

FairSpec == Spec /\ Fairness
-----------------------------------------------------------------------------
(***************************************************************************)
(* Properties.                                                             *)
(***************************************************************************)

\* Every row and every piece of in-flight work has a value the code can
\* write; the errands CHECK constraint holds: from payment on a task has a
\* deadline (rows 235, 239).
TypeOK ==
    /\ now \in 1..MaxTime
    /\ crashes \in 0..MaxCrashes
    /\ status \in [Errands -> DispatchStatuses]
    /\ deadline \in [Errands -> Nat]
    /\ \A e \in Errands : status[e] \notin DeadlineOptionalStatuses => deadline[e] # NoDeadline
    /\ offer \in [Errands -> [Runners -> AssignmentStatuses]]
    /\ expires \in [Errands -> [Runners -> Nat]]
    /\ avail \in [Runners -> {"online", "offline", "busy"}]
    /\ verified \in [Runners -> BOOLEAN]
    /\ assigning \in [Errands -> Runners \cup {NoRunner}]
    /\ edits \in [Errands -> SUBSET (Deadlines \cup {NoDeadline})]
    /\ sweep \in [phase : {"idle", "deadline", "lapse"}, at : Nat, due : SUBSET Errands]
    /\ levelDropped \subseteq Runners
    /\ withdrawing \in [Runners -> SUBSET Errands]
    /\ idleCheck \subseteq Runners

\* A task is offered to, or held by, one runner at most, whatever mix of
\* assigns, accepts, declines, sweeps and withdrawals ran on it.
OneOpenOffer ==
    \A e \in Errands : \A r, s \in OpenOffers(e) \cup Holders(e) : r = s

\* The offer rows and the task agree: an offer is open only while the task is
\* RUNNER_ASSIGNED (cancel, expiry and accept close it with the status
\* change), and a task has a holder from the accept on, and never before.
OfferMatchesStatus ==
    \A e \in Errands :
        /\ OpenOffers(e) # {} => status[e] = "RUNNER_ASSIGNED"
        /\ Holders(e) # {} => status[e] \in RunnerActiveJobStates \cup LeftJobStatuses
        /\ status[e] \in RunnerActiveJobStates => Holders(e) # {}

OnJob(e, r) == status[e] \in RunnerActiveJobStates /\ offer[e][r] = "accepted"

\* One active job at a time (RA-20): a runner is busy exactly while on a job,
\* and never on two, although accept, the end of a job, the availability
\* switch, level drops and the presence sweep all write the same column.
BusyIffOnJob ==
    \A r \in Runners :
        /\ avail[r] = "busy" <=> \E e \in Errands : OnJob(e, r)
        /\ \A e, f \in Errands : OnJob(e, r) /\ OnJob(f, r) => e = f

\* Row 273: an online runner is verified, also after a level drop in the
\* middle of a job that then ends.
OnlineRunnersVerified ==
    \A r \in Runners : avail[r] = "online" => verified[r]

\* Row 178: a runner who declined a task, let its offer lapse or lost it is
\* never offered that task again; an accepted assignment stays accepted.
ClosedOffersStayClosed ==
    [][\A e \in Errands, r \in Runners :
           offer[e][r] \in {"accepted", "declined", "expired"} => offer'[e][r] = offer[e][r]]_vars

\* Row 157: an offer nobody answered in time is closed by the sweep (or by
\* the next assign), restarts and concurrent assigns notwithstanding.
LapsedOffersClose ==
    \A e \in Errands, r \in Runners :
        Lapsed(e, r, now) ~> offer[e][r] # "assigned"

\* Row 185, path (1): a task still waiting for a runner when its deadline
\* passes is ended, whether or not it has an offer.
DeadlinePassedTasksEnd ==
    \A e \in Errands :
        status[e] = "RUNNER_ASSIGNED" /\ DeadlinePassed(e, now)
            ~> ~ (status[e] = "RUNNER_ASSIGNED" /\ DeadlinePassed(e, now))

\* Dispatch implements JobAllocation: an offer is an open assignment, a holder
\* an accepted one, and a task that ended without a holder is closed.
Allocation == INSTANCE JobAllocation WITH
    Jobs    <- Errands,
    Workers <- Runners,
    open    <- [e \in Errands |-> OpenOffers(e)],
    tried   <- [e \in Errands |-> {r \in Runners : offer[e][r] # "none"}],
    holder  <- [e \in Errands |-> Holders(e)],
    working <- {e \in Errands : status[e] \in RunnerActiveJobStates},
    closed  <- {e \in Errands : status[e] \in {"CANCELLED", "EXPIRED"} /\ Holders(e) = {}}

\* One offer at a time, one holder ever, one job per runner: the promise of
\* JobAllocation, kept through every race of the code.
ImplementsAllocation == Allocation!Spec

(***************************************************************************)
(* A claim of the repository that the code does not keep.                  *)
(***************************************************************************)

\* Row 205: "offerExpiresAt must never extend beyond the task deadline".
OffersEndByDeadline ==
    \A e \in Errands : \A r \in OpenOffers(e) : expires[e][r] <= deadline[e]
=============================================================================
