----------------------- MODULE ErrandCompletionProofs -----------------------
(***************************************************************************)
(* Proofs about ErrandCompletion, for any set of errands, any of them      *)
(* unpaid or patched by hand, any window, retention and batch, and any     *)
(* number of restarts.                                                     *)
(***************************************************************************)
EXTENDS ErrandCompletion, TLAPS

\* The part of TypeOK the properties below rest on.
RowsOK ==
    /\ now \in Nat
    /\ status \in [Errands -> CompletionStatuses]
    /\ completions \in [Errands -> SUBSET Nat]
    /\ dispute \in [Errands -> {"none", "open", "resolved"}]
    /\ paid \subseteq Errands
    /\ owed \subseteq Errands /\ refundDue \subseteq Errands

\* The customer completed e at least a window ago.
WindowServed(e) == \E c \in completions[e] : c + DisputeWindow <= now

\* The window job's list holds tasks that had served their window when it was
\* read, and have served it ever since.
ListServed ==
    windowJob.phase = "confirm" => \A e \in windowJob.due \cap Errands : WindowServed(e)

IInv ==
    /\ RowsOK
    /\ DisputeRowFollowsTask
    /\ PaidTasksEndOneWay
    /\ ListServed
    /\ ConfirmedAfterWindow
-----------------------------------------------------------------------------
\* The transition table from the job on: where a move may come from.
LEMMA LegalSources ==
    ASSUME NEW s, NEW to, NEW a, NEW g
    PROVE  /\ Legal(s, "AWAITING_CUSTOMER", a, g) => s = "IN_PROGRESS"
           /\ Legal(s, "COMPLETED", "customer", g) => s = "AWAITING_CUSTOMER"
           /\ Legal(s, "DISPUTED", a, g) => s \in {"IN_PROGRESS", "AWAITING_CUSTOMER", "COMPLETED"}
           /\ Legal(s, "CONFIRMED", a, g) => s = "COMPLETED"
           /\ Legal(s, "SETTLED", a, g) => s = "CONFIRMED"
           /\ Legal(s, "CANCELLED", "customer", g) => s # "DISPUTED"
           /\ Legal(s, to, a, g) => s \notin {"SETTLED", "CANCELLED"}
           /\ Legal(s, to, a, g) /\ s = "CONFIRMED" => to = "SETTLED"
           /\ Legal(s, to, a, g) /\ to = "SETTLED" => s = "CONFIRMED"
BY DEF Legal, ErrandTransitions, Row, GuardedRow

\* What a status write leaves behind: rows of their types, one new status, no
\* history row lost.
LEMMA MoveRows ==
    ASSUME RowsOK, NEW e \in Errands, NEW to \in CompletionStatuses, NEW a, NEW g,
           Move(e, to, a, g)
    PROVE  /\ status' \in [Errands -> CompletionStatuses]
           /\ completions' \in [Errands -> SUBSET Nat]
           /\ paid' = paid
           /\ owed' \subseteq Errands /\ refundDue' \subseteq Errands
           /\ status'[e] = to
           /\ \A f \in Errands \ {e} : status'[f] = status[f]
           /\ \A f \in Errands : completions[f] \subseteq completions'[f]
<1> USE DEF RowsOK, Move
<1>1. /\ status' \in [Errands -> CompletionStatuses]
      /\ status'[e] = to
      /\ \A f \in Errands \ {e} : status'[f] = status[f]
  OBVIOUS
<1>2. /\ completions' \in [Errands -> SUBSET Nat]
      /\ \A f \in Errands : completions[f] \subseteq completions'[f]
  <2>1. CASE to = "COMPLETED"
    <3>1. completions' = [completions EXCEPT ![e] = @ \cup {now}]
      BY <2>1
    <3>2. completions[e] \cup {now} \in SUBSET Nat
      OBVIOUS
    <3> QED
      BY <3>1, <3>2
  <2>2. CASE to # "COMPLETED"
    BY <2>2
  <2> QED
    BY <2>1, <2>2
<1>3. paid' = paid /\ owed' \subseteq Errands /\ refundDue' \subseteq Errands
  OBVIOUS
<1> QED
  BY <1>1, <1>2, <1>3

\* A status write keeps the books in line with the statuses, because nothing
\* leaves CANCELLED or SETTLED and CONFIRMED leads to SETTLED alone.
LEMMA MoveKeepsBooks ==
    ASSUME RowsOK, PaidTasksEndOneWay,
           NEW e \in Errands, NEW to \in CompletionStatuses, NEW a, NEW g,
           Move(e, to, a, g)
    PROVE  PaidTasksEndOneWay'
<1>1. Legal(status[e], to, a, g)
  BY DEF Move
<1>2. /\ status[e] \notin {"SETTLED", "CANCELLED"}
      /\ status[e] = "CONFIRMED" => to = "SETTLED"
      /\ to = "SETTLED" => status[e] = "CONFIRMED"
  BY <1>1, LegalSources
<1>3. /\ status'[e] = to
      /\ \A f \in Errands \ {e} : status'[f] = status[f]
  BY MoveRows
<1>4. SUFFICES ASSUME NEW f \in paid
               PROVE  /\ f \in owed' <=> status'[f] \in {"CONFIRMED", "SETTLED"}
                      /\ f \in refundDue' <=> status'[f] = "CANCELLED"
  BY DEF PaidTasksEndOneWay, Move
<1>5. f \in Errands
  BY DEF RowsOK
<1>6. /\ f \in owed <=> status[f] \in {"CONFIRMED", "SETTLED"}
      /\ f \in refundDue <=> status[f] = "CANCELLED"
  BY DEF PaidTasksEndOneWay
<1>7. CASE f = e
  BY <1>2, <1>3, <1>6, <1>7 DEF Move
<1>8. CASE f # e
  <2>1. /\ f \in owed' <=> f \in owed
        /\ f \in refundDue' <=> f \in refundDue
    BY <1>8 DEF Move
  <2> QED
    BY <1>3, <1>5, <1>6, <1>8, <2>1
<1> QED
  BY <1>7, <1>8

\* As long as no history row is lost, the clock does not go back and the list
\* does not change but by the tasks taken from it, its tasks have served
\* their window.
LEMMA ListStaysServed ==
    ASSUME RowsOK, RowsOK', ListServed, now <= now',
           \A f \in Errands : completions[f] \subseteq completions'[f],
           windowJob'.phase = "confirm" =>
               windowJob.phase = "confirm" /\ windowJob'.due \subseteq windowJob.due
    PROVE  ListServed'
<1> SUFFICES ASSUME windowJob'.phase = "confirm", NEW e \in windowJob'.due \cap Errands
             PROVE  \E c \in completions'[e] : c + DisputeWindow <= now'
    BY DEF ListServed, WindowServed
<1>1. PICK c \in completions[e] : c + DisputeWindow <= now
  BY DEF ListServed, WindowServed
<1>2. c \in completions'[e] /\ c \in Nat
  BY DEF RowsOK
<1>3. c + DisputeWindow <= now'
  BY <1>1, <1>2, CompletionAssumption DEF RowsOK
<1> QED
  BY <1>2, <1>3

\* As long as no history row is lost and the clock does not go back, a task
\* that is confirmed now was confirmed before, or had served its window.
LEMMA ConfirmedStaysServed ==
    ASSUME RowsOK, RowsOK', ConfirmedAfterWindow, now <= now',
           \A f \in Errands : completions[f] \subseteq completions'[f],
           \A f \in Errands :
               status'[f] \in {"CONFIRMED", "SETTLED"} =>
                   status[f] \in {"CONFIRMED", "SETTLED"} \/ WindowServed(f)
    PROVE  ConfirmedAfterWindow'
<1> SUFFICES ASSUME NEW e \in Errands, status'[e] \in {"CONFIRMED", "SETTLED"}
             PROVE  \E c \in completions'[e] : c + DisputeWindow <= now'
    BY DEF ConfirmedAfterWindow
<1>1. PICK c \in completions[e] : c + DisputeWindow <= now
  BY DEF ConfirmedAfterWindow, WindowServed
<1>2. c \in completions'[e] /\ c \in Nat
  BY DEF RowsOK
<1>3. c + DisputeWindow <= now'
  BY <1>1, <1>2, CompletionAssumption DEF RowsOK
<1> QED
  BY <1>2, <1>3
-----------------------------------------------------------------------------
\* At the start every errand is at work and nothing is recorded.
LEMMA InitIInv == Init => IInv
BY CompletionAssumption
DEF Init, IInv, RowsOK, CompletionStatuses, DisputeRowFollowsTask, PaidTasksEndOneWay,
    ListServed, ConfirmedAfterWindow, IdleJob

\* A status write that is neither a confirmation nor a settlement, and does
\* not touch the jobs.
LEMMA OrdinaryMoveStep ==
    ASSUME IInv, NEW e \in Errands, NEW to \in CompletionStatuses \ {"CONFIRMED", "SETTLED"},
           NEW a, NEW g, Move(e, to, a, g),
           dispute' \in [Errands -> {"none", "open", "resolved"}],
           \A f \in Errands \ {e} : dispute'[f] = dispute[f],
           e \notin PatchedErrands => (dispute'[e] = "open" <=> to = "DISPUTED"),
           now' = now, windowJob' = windowJob
    PROVE  IInv'
<1> USE DEF IInv
<1>1. RowsOK'
  BY MoveRows DEF RowsOK
<1>2. DisputeRowFollowsTask'
  BY MoveRows DEF DisputeRowFollowsTask
<1>3. PaidTasksEndOneWay'
  BY MoveKeepsBooks
<1>4. \A f \in Errands : completions[f] \subseteq completions'[f]
  BY MoveRows
<1>5. now <= now'
  BY DEF RowsOK
<1>6. ListServed'
  BY <1>1, <1>4, <1>5, ListStaysServed
<1>7. \A f \in Errands :
          status'[f] \in {"CONFIRMED", "SETTLED"} => status[f] \in {"CONFIRMED", "SETTLED"}
  BY MoveRows
<1>8. ConfirmedAfterWindow'
  BY <1>1, <1>4, <1>5, <1>7, ConfirmedStaysServed
<1> QED
  BY <1>1, <1>2, <1>3, <1>6, <1>8

\* A step of the purge, a step of the window job without a status write, a
\* tick or a restart.
LEMMA QuietStep ==
    ASSUME IInv, UNCHANGED <<status, completions, dispute, moneyVars>>,
           now' \in Nat, now <= now', ListServed'
    PROVE  IInv'
<1> USE DEF IInv, moneyVars
<1>1. RowsOK'
  BY DEF RowsOK
<1>2. DisputeRowFollowsTask' /\ PaidTasksEndOneWay'
  BY DEF DisputeRowFollowsTask, PaidTasksEndOneWay
<1>3. ConfirmedAfterWindow'
  BY <1>1, ConfirmedStaysServed
<1> QED
  BY <1>1, <1>2, <1>3

\* A confirmation or a settlement by the window job.
LEMMA JobMoveStep ==
    ASSUME IInv, NEW e \in Errands, NEW to \in {"CONFIRMED", "SETTLED"},
           Move(e, to, "system", NoGuard),
           to = "CONFIRMED" => WindowServed(e),
           UNCHANGED <<now, dispute>>,
           windowJob'.phase = windowJob.phase, windowJob'.due \subseteq windowJob.due
    PROVE  IInv'
<1> USE DEF IInv
<1>1. to \in CompletionStatuses
  BY DEF CompletionStatuses
<1>2. status[e] = IF to = "CONFIRMED" THEN "COMPLETED" ELSE "CONFIRMED"
  BY LegalSources DEF Move
<1>3. RowsOK'
  BY <1>1, MoveRows DEF RowsOK
<1>4. DisputeRowFollowsTask'
  BY <1>1, <1>2, MoveRows DEF DisputeRowFollowsTask
<1>5. PaidTasksEndOneWay'
  BY <1>1, MoveKeepsBooks
<1>6. \A f \in Errands : completions[f] \subseteq completions'[f]
  BY <1>1, MoveRows
<1>7. now <= now'
  BY DEF RowsOK
<1>8. ListServed'
  BY <1>3, <1>6, <1>7, ListStaysServed
<1>9. \A f \in Errands :
          status'[f] \in {"CONFIRMED", "SETTLED"} =>
              status[f] \in {"CONFIRMED", "SETTLED"} \/ WindowServed(f)
  BY <1>1, <1>2, MoveRows
<1>10. ConfirmedAfterWindow'
  BY <1>3, <1>6, <1>7, <1>9, ConfirmedStaysServed
<1> QED
  BY <1>3, <1>4, <1>5, <1>8, <1>10

\* Every step keeps the invariant.
LEMMA NextIInv == IInv /\ [Next]_vars => IInv'
<1> SUFFICES ASSUME IInv, [Next]_vars PROVE IInv'
    OBVIOUS
<1> USE DEF clockVars, taskVars, jobVars
<1>0. RowsOK /\ now \in Nat
  BY DEF IInv, RowsOK
\* Steps that change no row and leave the window job's list alone, shorten it
\* or drop it.
<1>1. ASSUME UNCHANGED <<status, completions, dispute, moneyVars>>,
             now' \in Nat, now <= now',
             windowJob'.phase = "confirm" =>
                 windowJob.phase = "confirm" /\ windowJob'.due \subseteq windowJob.due
      PROVE  IInv'
  <2>1. RowsOK'
    BY <1>0, <1>1 DEF RowsOK, moneyVars
  <2>2. ListServed'
    BY <1>0, <1>1, <2>1, ListStaysServed DEF IInv
  <2> QED
    BY <1>1, <2>2, QuietStep
<1>2. CASE UNCHANGED vars
  BY <1>0, <1>1, <1>2 DEF vars
<1>3. CASE Tick
  <2>1. now' \in Nat /\ now <= now'
    BY <1>0, <1>3 DEF Tick
  <2> QED
    BY <1>1, <1>3, <2>1 DEF Tick
<1>4. ASSUME NEW e \in Errands, ErrandNext(e) PROVE IInv'
  <2>0. dispute \in [Errands -> {"none", "open", "resolved"}]
    BY <1>0 DEF RowsOK
  <2>1. CASE Request(e)
    <3>1. PICK to \in {"AWAITING_CUSTOMER", "COMPLETED", "CANCELLED"}, a \in Actors,
               g \in {NoGuard, "price_change_rejection"} :
              /\ Move(e, to, a, g)
              /\ to \in {"COMPLETED", "CANCELLED"} => a = "customer"
      BY <2>1 DEF Request, Actors
    <3>2. status[e] # "DISPUTED"
      BY <3>1, LegalSources DEF Move
    <3>3. e \notin PatchedErrands => (dispute[e] = "open" <=> to = "DISPUTED")
      BY <3>1, <3>2 DEF IInv, DisputeRowFollowsTask
    <3> QED
      BY <2>0, <2>1, <3>1, <3>3, OrdinaryMoveStep DEF Request, CompletionStatuses
  <2>2. CASE OpenDispute(e)
    <3>1. /\ dispute' \in [Errands -> {"none", "open", "resolved"}]
          /\ \A f \in Errands \ {e} : dispute'[f] = dispute[f]
          /\ dispute'[e] = "open"
      BY <2>0, <2>2 DEF OpenDispute
    <3> QED
      BY <2>2, <3>1, OrdinaryMoveStep DEF OpenDispute, CompletionStatuses
  <2>3. CASE PatchDisputed(e)
    BY <2>0, <2>3, OrdinaryMoveStep DEF PatchDisputed, CompletionStatuses
  <2>4. ASSUME NEW to \in {"COMPLETED", "CANCELLED"}, ResolveDispute(e, to) PROVE IInv'
    <3>1. /\ dispute' \in [Errands -> {"none", "open", "resolved"}]
          /\ \A f \in Errands \ {e} : dispute'[f] = dispute[f]
          /\ dispute'[e] # "open"
      BY <2>0, <2>4 DEF ResolveDispute
    <3> QED
      BY <2>4, <3>1, OrdinaryMoveStep DEF ResolveDispute, CompletionStatuses
  <2>5. ASSUME NEW to \in {"COMPLETED", "CANCELLED"}, PatchResolved(e, to) PROVE IInv'
    BY <2>0, <2>5, OrdinaryMoveStep DEF PatchResolved, CompletionStatuses
  <2>6. CASE ConfirmPastWindow(e)
    <3>1. /\ windowJob'.phase = windowJob.phase
          /\ windowJob'.due \subseteq windowJob.due
      BY <2>6 DEF ConfirmPastWindow
    <3>2. WindowServed(e)
      BY <2>6 DEF ConfirmPastWindow, IInv, ListServed
    <3>3. CASE status[e] = "COMPLETED"
      BY <2>6, <3>1, <3>2, <3>3, JobMoveStep DEF ConfirmPastWindow
    <3>4. CASE status[e] # "COMPLETED"
      BY <2>6, <3>1, <3>4, <1>0, <1>1 DEF ConfirmPastWindow, moneyVars
    <3> QED
      BY <3>3, <3>4
  <2>7. CASE Settle(e)
    <3>1. /\ windowJob'.phase = windowJob.phase
          /\ windowJob'.due \subseteq windowJob.due
      BY <2>7, windowJob' = [windowJob EXCEPT !.due = @ \ {e}] DEF Settle
    <3>2. CASE e \in paid
      BY <2>7, <3>1, <3>2, JobMoveStep DEF Settle
    <3>3. CASE e \notin paid
      BY <2>7, <3>1, <3>3, <1>0, <1>1 DEF Settle, moneyVars
    <3> QED
      BY <3>2, <3>3
  <2> QED
    BY <1>4, <2>1, <2>2, <2>3, <2>4, <2>5, <2>6, <2>7 DEF ErrandNext
<1>5. CASE ReadPastWindow
  <2>1. ListServed'
    <3> SUFFICES ASSUME NEW e \in windowJob'.due \cap Errands
                 PROVE  \E c \in completions'[e] : c + DisputeWindow <= now'
      BY DEF ListServed, WindowServed
    <3> QED
      BY <1>5 DEF ReadPastWindow, WindowPassed
  <2> QED
    BY <1>0, <1>5, <2>1, QuietStep DEF ReadPastWindow
<1>6. CASE ReadConfirmed
  BY <1>0, <1>1, <1>6 DEF ReadConfirmed
<1>7. CASE FinishWindowJob
  BY <1>0, <1>1, <1>7 DEF FinishWindowJob, IdleJob
<1>8. CASE ReadEnded \/ HoldDisputed \/ DeleteSamples
  BY <1>0, <1>1, <1>8 DEF ReadEnded, HoldDisputed, DeleteSamples
<1>9. CASE Crash
  BY <1>0, <1>1, <1>9 DEF Crash, IdleJob
<1> QED
  BY <1>2, <1>3, <1>4, <1>5, <1>6, <1>7, <1>8, <1>9 DEF Next

LEMMA SpecIInv == Spec => []IInv
BY InitIInv, NextIInv, PTL DEF Spec
-----------------------------------------------------------------------------
(***************************************************************************)
(* The purge: what it read of a task is final.                             *)
(***************************************************************************)
PurgeDue(e) == e \in Errands /\ EndedBefore(e, now - Retention)

\* Everything on the purge's list has ended for the retention, and has no open
\* dispute once the disputes have been read.
PurgeInv ==
    /\ endedAt \in [Errands -> Nat]
    /\ samples \subseteq Errands
    /\ purgeJob.phase \in {"hold", "delete"} => \A e \in purgeJob.due : PurgeDue(e)
    /\ purgeJob.phase = "delete" => \A e \in purgeJob.due : dispute[e] # "open"

\* A status write leaves an ended task alone.
LEMMA MoveKeepsEnded ==
    ASSUME RowsOK, endedAt \in [Errands -> Nat], NEW e \in Errands,
           NEW to \in CompletionStatuses, NEW a, NEW g, Move(e, to, a, g)
    PROVE  /\ endedAt' \in [Errands -> Nat]
           /\ ~ IsTerminal(status[e])
           /\ \A f \in Errands : IsTerminal(status[f]) =>
                  f # e /\ status'[f] = status[f] /\ endedAt'[f] = endedAt[f]
<1>1. ~ IsTerminal(status[e])
  BY DEF Move, Legal, IsTerminal
<1>2. endedAt' \in [Errands -> Nat] /\ \A f \in Errands \ {e} : endedAt'[f] = endedAt[f]
  BY DEF Move, RowsOK
<1> QED
  BY <1>1, <1>2, MoveRows

\* A step that leaves ended tasks alone and the purge as it is.
LEMMA PurgeKept ==
    ASSUME RowsOK, PurgeInv, now' \in Nat, now <= now',
           endedAt' \in [Errands -> Nat], samples' = samples, purgeJob' = purgeJob,
           \A f \in Errands : IsTerminal(status[f]) =>
               /\ status'[f] = status[f] /\ endedAt'[f] = endedAt[f]
               /\ dispute'[f] = "open" => dispute[f] = "open"
    PROVE  PurgeInv'
<1>1. ASSUME NEW f, PurgeDue(f) PROVE PurgeDue(f)'
  <2>1. /\ f \in Errands /\ IsTerminal(status[f]) /\ endedAt[f] < now - Retention
    BY <1>1 DEF PurgeDue, EndedBefore
  <2>2. IsTerminal(status'[f]) /\ endedAt'[f] = endedAt[f] /\ endedAt[f] \in Nat
    BY <2>1 DEF PurgeInv
  <2>3. endedAt'[f] < now' - Retention
    BY <2>1, <2>2, CompletionAssumption DEF RowsOK
  <2> QED
    BY <2>1, <2>2, <2>3 DEF PurgeDue, EndedBefore
<1>2. \A f : PurgeDue(f) => f \in Errands /\ IsTerminal(status[f])
  BY DEF PurgeDue, EndedBefore
<1> QED
  BY <1>1, <1>2 DEF PurgeInv

\* Every step keeps the purge's list due, and deletes only what is.
LEMMA NextPurge ==
    ASSUME IInv, PurgeInv, [Next]_vars
    PROVE  /\ PurgeInv'
           /\ \A e \in samples \ samples' : PurgeDue(e) /\ dispute[e] # "open"
<1> USE DEF clockVars, taskVars, jobVars
<1>0. RowsOK /\ now \in Nat
  BY DEF IInv, RowsOK
<1> DEFINE Goal == /\ PurgeInv'
                   /\ \A e \in samples \ samples' : PurgeDue(e) /\ dispute[e] # "open"
\* Steps that write no row, but for the clock.
<1>1. ASSUME UNCHANGED <<status, endedAt, dispute, samples, purgeJob>>, now' \in Nat, now <= now'
      PROVE  Goal
  BY <1>0, <1>1, PurgeKept DEF PurgeInv
\* A status write, with what it does to the task's dispute.
<1>2. ASSUME NEW e \in Errands, NEW to \in CompletionStatuses, NEW a, NEW g, Move(e, to, a, g),
             \A f \in Errands \ {e} : dispute'[f] = dispute[f],
             UNCHANGED <<now, samples, purgeJob>>
      PROVE  Goal
  <2>1. now' \in Nat /\ now <= now'
    BY <1>0, <1>2
  <2>2. /\ endedAt' \in [Errands -> Nat]
        /\ \A f \in Errands : IsTerminal(status[f]) =>
               f # e /\ status'[f] = status[f] /\ endedAt'[f] = endedAt[f]
    BY <1>0, <1>2, MoveKeepsEnded DEF PurgeInv
  <2>3. PurgeInv'
    BY <1>0, <1>2, <2>1, <2>2, PurgeKept
  <2> QED
    BY <1>2, <2>3
<1>3. CASE Tick
  <2>1. now' \in Nat /\ now <= now'
    BY <1>0, <1>3 DEF Tick
  <2> QED
    BY <1>1, <1>3, <2>1 DEF Tick
<1>4. ASSUME NEW e \in Errands, ErrandNext(e) PROVE Goal
  <2>0. dispute \in [Errands -> {"none", "open", "resolved"}] /\ now <= now
    BY <1>0 DEF RowsOK
  <2>1. CASE Request(e)
    <3>1. PICK to \in {"AWAITING_CUSTOMER", "COMPLETED", "CANCELLED"}, a \in Actors,
               g \in {NoGuard, "price_change_rejection"} : Move(e, to, a, g)
      BY <2>1 DEF Request, Actors
    <3> QED
      BY <2>1, <3>1, <1>2 DEF Request, CompletionStatuses
  <2>2. CASE OpenDispute(e) \/ PatchDisputed(e)
    <3>1. \A f \in Errands \ {e} : dispute'[f] = dispute[f]
      BY <2>0, <2>2 DEF OpenDispute, PatchDisputed
    <3> QED
      BY <2>2, <3>1, <1>2 DEF OpenDispute, PatchDisputed, CompletionStatuses
  <2>3. ASSUME NEW to \in {"COMPLETED", "CANCELLED"}, ResolveDispute(e, to) \/ PatchResolved(e, to)
        PROVE  Goal
    <3>1. \A f \in Errands \ {e} : dispute'[f] = dispute[f]
      BY <2>0, <2>3 DEF ResolveDispute, PatchResolved
    <3> QED
      BY <2>3, <3>1, <1>2 DEF ResolveDispute, PatchResolved, CompletionStatuses
  <2>4. CASE ConfirmPastWindow(e)
    <3>1. CASE status[e] = "COMPLETED"
      BY <2>4, <3>1, <1>2 DEF ConfirmPastWindow, CompletionStatuses
    <3>2. CASE status[e] # "COMPLETED"
      BY <2>4, <3>2, <2>0, <1>0, <1>1 DEF ConfirmPastWindow
    <3> QED
      BY <3>1, <3>2
  <2>5. CASE Settle(e)
    <3>1. CASE e \in paid
      BY <2>5, <3>1, <1>2 DEF Settle, CompletionStatuses
    <3>2. CASE e \notin paid
      BY <2>5, <3>2, <2>0, <1>0, <1>1 DEF Settle
    <3> QED
      BY <3>1, <3>2
  <2> QED
    BY <1>4, <2>1, <2>2, <2>3, <2>4, <2>5 DEF ErrandNext
<1>5. CASE UNCHANGED vars \/ ReadPastWindow \/ ReadConfirmed \/ FinishWindowJob
  <2>1. UNCHANGED <<now, status, endedAt, dispute, samples, purgeJob>>
    BY <1>5 DEF vars, ReadPastWindow, ReadConfirmed, FinishWindowJob
  <2> QED
    BY <1>0, <1>1, <2>1
<1>6. CASE ReadEnded
  BY <1>0, <1>6 DEF ReadEnded, PurgeInv, PurgeDue, EndedBefore
<1>7. CASE HoldDisputed
  BY <1>0, <1>7 DEF HoldDisputed, PurgeInv, PurgeDue, EndedBefore
<1>8. CASE DeleteSamples
  BY <1>0, <1>8 DEF DeleteSamples, PurgeInv, IdleJob
<1>9. CASE Crash
  BY <1>0, <1>9 DEF Crash, PurgeInv, IdleJob
<1> QED
  BY <1>3, <1>4, <1>5, <1>6, <1>7, <1>8, <1>9 DEF Next
-----------------------------------------------------------------------------
\* The dispute row and the task agree on every task that is disputed through
\* the dispute endpoints alone.
THEOREM DisputeRowFollowsTaskThm == Spec => []DisputeRowFollowsTask
BY SpecIInv, PTL DEF IInv

\* A paid task ends one way: earnings exactly on the confirmed and settled
\* ones, a refund review exactly on the cancelled ones.
THEOREM PaidTasksEndOneWayThm == Spec => []PaidTasksEndOneWay
BY SpecIInv, PTL DEF IInv

\* No task is confirmed before its window has passed since some completion by
\* the customer, the first one at the least.
THEOREM ConfirmedAfterWindowThm == Spec => []ConfirmedAfterWindow
BY SpecIInv, PTL DEF IInv

\* The purge deletes no sample of a task that has not ended for the retention or
\* has an open dispute, however long ago it read its list.
THEOREM HeldSamplesKeptThm == Spec => HeldSamplesKept
<1>1. Init => PurgeInv
  BY DEF Init, PurgeInv, IdleJob
<1>2. IInv /\ PurgeInv /\ [Next]_vars => PurgeInv'
  BY NextPurge
<1>3. ASSUME IInv, PurgeInv, [Next]_vars
      PROVE  [\A e \in samples \ samples' :
                 /\ EndedBefore(e, now - Retention)
                 /\ dispute[e] # "open"]_vars
  BY <1>3, NextPurge DEF PurgeDue
<1> QED
  BY <1>1, <1>2, <1>3, SpecIInv, PTL DEF Spec, HeldSamplesKept
=============================================================================
