------------------------ MODULE ErrandDispatchProofs ------------------------
(***************************************************************************)
\* Proofs about ErrandDispatch, for any sets of errands and runners, any
\* deadlines and windows, and any number of restarts.
(***************************************************************************)
EXTENDS ErrandDispatch, TLAPS

\* An assign transaction past its guards holds the row of a task that waits
\* for a runner, for a runner without an assignment on it.
AssigningOK ==
    \A e \in Errands :
        assigning[e] # NoRunner =>
            /\ status[e] \in {"PAYMENT_CONFIRMED", "RUNNER_ASSIGNED"}
            /\ offer[e][assigning[e]] = "none"

\* What the offer rows and the task's status say of each other.
OfferInv == OneOpenOffer /\ OfferMatchesStatus /\ AssigningOK

\* The presence sweep holds profile rows of online runners only.
IdleCheckOK == \A r \in idleCheck : avail[r] = "online"

\* What availability, the jobs and the checks say of each other.
AvailInv == IdleCheckOK /\ BusyIffOnJob /\ OnlineRunnersVerified

IInv == TypeOK /\ OfferInv /\ AvailInv
-----------------------------------------------------------------------------
\* The transition table: where an errand that enters one of these statuses
\* comes from.
LEMMA LegalSources ==
    ASSUME NEW s, NEW a, NEW g
    PROVE  /\ Legal(s, "PAYMENT_CONFIRMED", a, g) => s = "ACCEPTED"
           /\ Legal(s, "RUNNER_ASSIGNED", a, g)   => s = "PAYMENT_CONFIRMED"
           /\ Legal(s, "RUNNER_EN_ROUTE", a, g)   => s = "RUNNER_ASSIGNED"
           /\ Legal(s, "ARRIVED", a, g)           => s = "RUNNER_EN_ROUTE"
           /\ Legal(s, "IN_PROGRESS", a, g)       => s = "ARRIVED"
BY DEF Legal, ErrandTransitions, Row, GuardedRow

\* The first state has no assignment, no job and no open transaction.
LEMMA InitIInv == Init => IInv
<1> SUFFICES ASSUME Init PROVE IInv
    OBVIOUS
<1> USE DispatchAssumption DEF Init, NoDeadline
<1>1. TypeOK
  <2>1. deadline \in [Errands -> Nat]
    <3>1. Deadlines \cup {0} \subseteq Nat
      OBVIOUS
    <3> QED
      BY <3>1
  <2>2. sweep \in [phase : {"idle", "deadline", "lapse"}, at : Nat, due : SUBSET Errands]
    OBVIOUS
  <2>3. now \in 1..MaxTime /\ crashes \in 0..MaxCrashes
    OBVIOUS
  <2> QED
    BY <2>1, <2>2, <2>3
    DEF TypeOK, DispatchStatuses, WaitingStatuses, AssignmentStatuses, DeadlineOptionalStatuses
<1>2. OneOpenOffer /\ OfferMatchesStatus
  BY DEF OneOpenOffer, OfferMatchesStatus, OpenOffers, Holders, RunnerActiveJobStates
<1>3. AssigningOK /\ IdleCheckOK /\ OnlineRunnersVerified
  BY DEF AssigningOK, IdleCheckOK, OnlineRunnersVerified
<1>4. BusyIffOnJob
  BY DEF BusyIffOnJob, OnJob, RunnerActiveJobStates
<1> QED
  BY <1>1, <1>2, <1>3, <1>4 DEF IInv, OfferInv, AvailInv

\* Closing offers writes assignment statuses only.
LEMMA ExpireOffersType ==
    ASSUME NEW e \in Errands, NEW which,
           offer \in [Errands -> [Runners -> AssignmentStatuses]],
           ExpireOffers(e, which)
    PROVE  offer' \in [Errands -> [Runners -> AssignmentStatuses]]
<1>1. [r \in Runners |-> IF r \in which THEN "expired" ELSE offer[e][r]]
        \in [Runners -> AssignmentStatuses]
  BY DEF AssignmentStatuses
<1> QED
  BY <1>1 DEF ExpireOffers

\* Every step writes values of the types, and keeps a deadline on every
\* task from its payment on.
LEMMA TypeOKStep == TypeOK /\ [Next]_vars => TypeOK'
<1> SUFFICES ASSUME TypeOK, [Next]_vars PROVE TypeOK'
    OBVIOUS
<1> USE DispatchAssumption
    DEF TypeOK, NoDeadline, DispatchStatuses, WaitingStatuses, RunnerActiveJobStates,
        LeftJobStatuses, DeadlineOptionalStatuses, AssignmentStatuses, Move, ExpireOffers,
        clockVars, taskVars, offerVars, runnerVars, flightVars
<1>1. CASE UNCHANGED vars
  BY <1>1 DEF vars
<1>2. CASE Tick
  BY <1>2 DEF Tick
<1>3. ASSUME NEW e \in Errands, ErrandNext(e) PROVE TypeOK'
  <2>1. CASE ConfirmPayment(e)
    BY <2>1 DEF ConfirmPayment
  <2>2. CASE CustomerCancel(e)
    BY <2>2 DEF CustomerCancel
  <2>3. ASSUME NEW d \in Deadlines \cup {NoDeadline}, BeginEdit(e, d) PROVE TypeOK'
    BY <2>3 DEF BeginEdit
  <2>4. CASE WriteEdit(e)
    BY <2>4 DEF WriteEdit, EditedDeadline
  <2>5. CASE CommitAssign(e)
    <3>1. [r \in Runners |-> CASE r = assigning[e]   -> "assigned"
                               [] r \in OpenOffers(e) -> "expired"
                               [] OTHER               -> offer[e][r]]
            \in [Runners -> AssignmentStatuses]
      OBVIOUS
    <3>2. offer' \in [Errands -> [Runners -> AssignmentStatuses]]
      BY <2>5, <3>1 DEF CommitAssign
    <3>3. OfferExpiry(e) \in Nat
      BY DEF OfferExpiry, DeadlinePassed
    <3>4. expires' \in [Errands -> [Runners -> Nat]]
      BY <2>5, <3>3 DEF CommitAssign
    <3>5. status' \in [Errands -> DispatchStatuses]
      BY <2>5 DEF CommitAssign
    <3>6. \A f \in Errands : status'[f] \notin DeadlineOptionalStatuses => deadline'[f] # NoDeadline
      BY <2>5, LegalSources DEF CommitAssign
    <3> QED
      BY <2>5, <3>2, <3>4, <3>5, <3>6 DEF CommitAssign
  <2>6. CASE RefuseAssign(e)
    BY <2>6 DEF RefuseAssign
  <2>7. CASE AdminMarkAssigned(e)
    BY <2>7, LegalSources DEF AdminMarkAssigned
  <2>8. CASE AdminCancel(e)
    BY <2>8 DEF AdminCancel
  <2>9. CASE AdminExpire(e)
    BY <2>9 DEF AdminExpire, NoRunnerLeft, PaidPastDeadline
  <2>10. CASE Arrive(e)
    BY <2>10 DEF Arrive
  <2>11. CASE StartWork(e)
    BY <2>11, LegalSources DEF StartWork
  <2>12. CASE LeaveJob(e)
    BY <2>12 DEF LeaveJob, EndJob
  <2>13. CASE ExpirePastDeadline(e)
    <3>1. offer' \in [Errands -> [Runners -> AssignmentStatuses]] /\ expires' = expires
      BY <2>13, ExpireOffersType, ZenonT(30) DEF ExpirePastDeadline
    <3> QED
      BY <2>13, <3>1 DEF ExpirePastDeadline
  <2>14. CASE ExpireLapsed(e)
    <3>1. offer' \in [Errands -> [Runners -> AssignmentStatuses]] /\ expires' = expires
      BY <2>14, ExpireOffersType, ZenonT(30) DEF ExpireLapsed
    <3> QED
      BY <2>14, <3>1 DEF ExpireLapsed
  <2> QED
    BY <1>3, <2>1, <2>2, <2>3, <2>4, <2>5, <2>6, <2>7, <2>8, <2>9, <2>10, <2>11, <2>12,
       <2>13, <2>14 DEF ErrandNext
<1>4. ASSUME NEW r \in Runners, RunnerNext(r) PROVE TypeOK'
  <2>1. CASE GoOnline(r) \/ GoOffline(r)
    BY <2>1 DEF GoOnline, GoOffline
  <2>2. CASE Approve(r)
    BY <2>2 DEF Approve
  <2>3. CASE DropLevel(r)
    <3>1. avail' \in [Runners -> {"online", "offline", "busy"}]
      BY <2>3 DEF DropLevel
    <3> QED
      BY <2>3, <3>1 DEF DropLevel
  <2>4. CASE ReadWithdrawals(r)
    <3>1. withdrawing' \in [Runners -> SUBSET Errands]
      BY <2>4 DEF ReadWithdrawals
    <3> QED
      BY <2>4, <3>1 DEF ReadWithdrawals
  <2>5. CASE CheckIdle(r)
    BY <2>5 DEF CheckIdle
  <2>6. CASE SetOfflineBySystem(r)
    BY <2>6 DEF SetOfflineBySystem
  <2> QED
    BY <1>4, <2>1, <2>2, <2>3, <2>4, <2>5, <2>6 DEF RunnerNext
<1>5. ASSUME NEW e \in Errands, NEW r \in Runners, OfferNext(e, r) PROVE TypeOK'
  <2>1. CASE BeginAssign(e, r)
    BY <2>1 DEF BeginAssign
  <2>2. CASE Accept(e, r)
    BY <2>2, LegalSources DEF Accept, StartJob
  <2>3. CASE Decline(e, r)
    BY <2>3 DEF Decline
  <2>4. CASE Withdraw(e, r)
    <3>1. withdrawing' \in [Runners -> SUBSET Errands]
      BY <2>4 DEF Withdraw
    <3>2. offer' \in [Errands -> [Runners -> AssignmentStatuses]] /\ expires' = expires
      BY <2>4, ExpireOffersType DEF Withdraw
    <3> QED
      BY <2>4, <3>1, <3>2 DEF Withdraw
  <2> QED
    BY <1>5, <2>1, <2>2, <2>3, <2>4 DEF OfferNext
<1>6. CASE ReadPastDeadline
  BY <1>6 DEF ReadPastDeadline
<1>7. CASE ReadLapsed
  BY <1>7 DEF ReadLapsed
<1>8. CASE FinishSweep
  BY <1>8 DEF FinishSweep
<1>9. CASE Crash
  BY <1>9 DEF Crash
<1> QED
  BY <1>1, <1>2, <1>3, <1>4, <1>5, <1>6, <1>7, <1>8, <1>9 DEF Next

\* Closing open offers takes a runner off the errand or leaves it as it was.
LEMMA ExpireOffersSets ==
    ASSUME NEW e \in Errands, NEW which, TypeOK,
           which \subseteq OpenOffers(e),
           ExpireOffers(e, which)
    PROVE  /\ OpenOffers(e)' = OpenOffers(e) \ which
           /\ \A f \in Errands : Holders(f)' = Holders(f)
           /\ \A f \in Errands \ {e} : OpenOffers(f)' = OpenOffers(f)
           /\ \A f \in Errands, r \in Runners : offer[f][r] = "none" <=> offer'[f][r] = "none"
<1> USE DEF TypeOK, ExpireOffers, OpenOffers, Holders
<1>1. \A r \in Runners : offer'[e][r] = IF r \in which THEN "expired" ELSE offer[e][r]
  OBVIOUS
<1>2. \A f \in Errands \ {e} : offer'[f] = offer[f]
  OBVIOUS
<1> QED
  BY <1>1, <1>2

\* Every step keeps the assignment rows in line with the status: an open
\* offer only under RUNNER_ASSIGNED, one at most, a holder from the accept
\* on.
LEMMA OfferInvStep == TypeOK /\ OfferInv /\ [Next]_vars => OfferInv'
<1> SUFFICES ASSUME TypeOK, OfferInv, [Next]_vars PROVE OfferInv'
    OBVIOUS
<1> USE DispatchAssumption
    DEF OfferInv, OneOpenOffer, OfferMatchesStatus, AssigningOK, RunnerActiveJobStates,
        LeftJobStatuses
<1>1. ASSUME UNCHANGED <<status, offer, assigning>> PROVE OfferInv'
  BY <1>1 DEF OpenOffers, Holders
\* Only the status of an errand nobody holds or is offered moves.
<1>2. ASSUME NEW e \in Errands, NEW to \in DispatchStatuses,
             TypeOK, ErrandFree(e), UNCHANGED <<offer, assigning>>,
             status' = [status EXCEPT ![e] = to],
             OpenOffers(e) # {} => to = "RUNNER_ASSIGNED",
             Holders(e) # {} <=> to \in RunnerActiveJobStates \cup LeftJobStatuses
                                 /\ Holders(e) # {},
             to \in RunnerActiveJobStates => Holders(e) # {}
      PROVE  OfferInv'
  BY <1>2 DEF OpenOffers, Holders, ErrandFree, TypeOK
\* Offers of one errand are closed, and it may leave RUNNER_ASSIGNED with it.
<1>3. ASSUME NEW e \in Errands, NEW which \in SUBSET OpenOffers(e), ErrandFree(e),
             ExpireOffers(e, which), UNCHANGED assigning,
             \/ UNCHANGED status
             \/ /\ which = OpenOffers(e)
                /\ status[e] \in {"PAYMENT_CONFIRMED", "RUNNER_ASSIGNED"}
                /\ status' = [status EXCEPT ![e] = "CANCELLED"]
             \/ /\ which = OpenOffers(e)
                /\ status[e] \in {"PAYMENT_CONFIRMED", "RUNNER_ASSIGNED"}
                /\ status' = [status EXCEPT ![e] = "EXPIRED"]
      PROVE  OfferInv'
  <2>1. /\ OpenOffers(e)' = OpenOffers(e) \ which
        /\ \A f \in Errands : Holders(f)' = Holders(f)
        /\ \A f \in Errands \ {e} : OpenOffers(f)' = OpenOffers(f)
        /\ \A f \in Errands, r \in Runners : offer[f][r] = "none" <=> offer'[f][r] = "none"
    BY <1>3, ExpireOffersSets
  <2>2. OneOpenOffer'
    BY <2>1
  <2>3. \A f \in Errands \ {e} : status'[f] = status[f]
    BY <1>3 DEF TypeOK
  <2>4. \/ status'[e] = status[e]
        \/ status'[e] \in {"CANCELLED", "EXPIRED"} /\ OpenOffers(e)' = {} /\ Holders(e)' = {}
    <3>1. CASE UNCHANGED status
      BY <3>1
    <3>2. CASE ~UNCHANGED status
      <4>1. which = OpenOffers(e) /\ status[e] \in {"PAYMENT_CONFIRMED", "RUNNER_ASSIGNED"}
        BY <1>3, <3>2
      <4>2. OpenOffers(e)' = {} /\ Holders(e)' = {}
        BY <2>1, <4>1
      <4>3. status'[e] \in {"CANCELLED", "EXPIRED"}
        BY <1>3, <3>2 DEF TypeOK
      <4> QED
        BY <4>2, <4>3
    <3> QED
      BY <3>1, <3>2
  <2>5. OfferMatchesStatus'
    BY <2>1, <2>3, <2>4
  <2>6. AssigningOK'
    <3>1. assigning' = assigning /\ assigning[e] = NoRunner
      BY <1>3 DEF ErrandFree
    <3>2. \A f \in Errands : assigning[f] \in Runners \cup {NoRunner}
      BY DEF TypeOK
    <3> QED
      BY <2>1, <2>3, <3>1, <3>2
  <2> QED
    BY <2>2, <2>5, <2>6
<1>4. CASE UNCHANGED vars
  BY <1>1, <1>4 DEF vars, taskVars, offerVars, flightVars
<1>5. CASE Tick
  BY <1>1, <1>5 DEF Tick, taskVars, offerVars, flightVars
<1>6. ASSUME NEW e \in Errands, ErrandNext(e) PROVE OfferInv'
  <2>1. CASE ConfirmPayment(e)
    BY <2>1, <1>2, LegalSources, ZenonT(30)
       DEF ConfirmPayment, Move, offerVars, flightVars, TypeOK, DispatchStatuses, WaitingStatuses
  <2>2. CASE CustomerCancel(e)
    BY <2>2, <1>2 DEF CustomerCancel, Move, offerVars, flightVars, TypeOK, DispatchStatuses
  <2>3. ASSUME NEW d \in Deadlines \cup {NoDeadline}, BeginEdit(e, d) PROVE OfferInv'
    BY <2>3, <1>1 DEF BeginEdit, taskVars, offerVars
  <2>4. CASE WriteEdit(e)
    BY <2>4, <1>1 DEF WriteEdit, offerVars
  <2>5. CASE CommitAssign(e)
    <3> DEFINE q == assigning[e]
    <3>1. q \in Runners /\ status[e] \in {"PAYMENT_CONFIRMED", "RUNNER_ASSIGNED"}
      BY <2>5 DEF CommitAssign, TypeOK
    <3>2. Holders(e) = {}
      BY <3>1
    <3>3. \A r \in Runners : offer'[e][r] = CASE r = q              -> "assigned"
                                             [] r \in OpenOffers(e) -> "expired"
                                             [] OTHER               -> offer[e][r]
      BY <2>5 DEF CommitAssign, TypeOK
    <3>4. \A f \in Errands \ {e} : offer'[f] = offer[f] /\ status'[f] = status[f]
                                     /\ assigning'[f] = assigning[f]
      BY <2>5 DEF CommitAssign, TypeOK
    <3>5. OpenOffers(e)' = {q} /\ Holders(e)' = {}
      BY <3>1, <3>2, <3>3 DEF OpenOffers, Holders
    <3>6. \A f \in Errands \ {e} : OpenOffers(f)' = OpenOffers(f) /\ Holders(f)' = Holders(f)
      BY <3>4 DEF OpenOffers, Holders
    <3>7. status'[e] = "RUNNER_ASSIGNED" /\ assigning'[e] = NoRunner
      BY <2>5 DEF CommitAssign, TypeOK
    <3> QED
      BY <3>4, <3>5, <3>6, <3>7
  <2>6. CASE RefuseAssign(e)
    BY <2>6 DEF RefuseAssign, TypeOK, taskVars, offerVars, OpenOffers, Holders
  <2>7. CASE AdminMarkAssigned(e)
    BY <2>7, <1>2, LegalSources
       DEF AdminMarkAssigned, Move, offerVars, flightVars, TypeOK, DispatchStatuses, WaitingStatuses
  <2>8. CASE AdminCancel(e)
    BY <2>8, <1>3 DEF AdminCancel, Move, flightVars
  <2>9. CASE AdminExpire(e)
    BY <2>9, <1>3 DEF AdminExpire, NoRunnerLeft, PaidPastDeadline, Move, flightVars
  <2>10. CASE Arrive(e)
    BY <2>10, <1>2 DEF Arrive, Move, offerVars, flightVars, TypeOK, DispatchStatuses
  <2>11. CASE StartWork(e)
    BY <2>11, <1>2, LegalSources
       DEF StartWork, Move, offerVars, flightVars, TypeOK, DispatchStatuses
  <2>12. CASE LeaveJob(e)
    <3>1. Holders(e) # {} /\ OpenOffers(e) = {}
      BY <2>12 DEF LeaveJob
    <3>2. ErrandFree(e) /\ UNCHANGED <<offer, assigning>>
      BY <2>12 DEF LeaveJob, Move, offerVars, flightVars
    <3>3. PICK to \in LeftJobStatuses : status' = [status EXCEPT ![e] = to]
      BY <2>12 DEF LeaveJob, Move
    <3> QED
      BY <3>1, <3>2, <3>3, <1>2 DEF DispatchStatuses
  <2>13. CASE ExpirePastDeadline(e)
    <3>1. CASE status[e] = "RUNNER_ASSIGNED" /\ DeadlinePassed(e, sweep.at)
      BY <2>13, <3>1, <1>3 DEF ExpirePastDeadline, Move, flightVars
    <3>2. CASE ~ (status[e] = "RUNNER_ASSIGNED" /\ DeadlinePassed(e, sweep.at))
      BY <2>13, <3>2, <1>1 DEF ExpirePastDeadline, offerVars, flightVars
    <3> QED
      BY <3>1, <3>2
  <2>14. CASE ExpireLapsed(e)
    <3>1. LapsedOffers(e, sweep.at) \in SUBSET OpenOffers(e)
      BY DEF LapsedOffers, Lapsed, OpenOffers
    <3>2. CASE status[e] = "RUNNER_ASSIGNED"
      BY <2>14, <3>1, <3>2, <1>3 DEF ExpireLapsed, taskVars, flightVars
    <3>3. CASE status[e] # "RUNNER_ASSIGNED"
      BY <2>14, <3>3, <1>1 DEF ExpireLapsed, taskVars, offerVars, flightVars
    <3> QED
      BY <3>2, <3>3
  <2> QED
    BY <1>6, <2>1, <2>2, <2>3, <2>4, <2>5, <2>6, <2>7, <2>8, <2>9, <2>10, <2>11, <2>12,
       <2>13, <2>14 DEF ErrandNext
<1>7. ASSUME NEW r \in Runners, RunnerNext(r) PROVE OfferInv'
  BY <1>7, <1>1 DEF RunnerNext, GoOnline, GoOffline, Approve, DropLevel, ReadWithdrawals,
     CheckIdle, SetOfflineBySystem, taskVars, offerVars, flightVars
<1>8. ASSUME NEW e \in Errands, NEW r \in Runners, OfferNext(e, r) PROVE OfferInv'
  <2>1. CASE BeginAssign(e, r)
    BY <2>1 DEF BeginAssign, TypeOK, taskVars, offerVars, OpenOffers, Holders
  <2>2. CASE Accept(e, r)
    <3>1. status[e] = "RUNNER_ASSIGNED" /\ status' = [status EXCEPT ![e] = "RUNNER_EN_ROUTE"]
          /\ assigning' = assigning /\ assigning[e] = NoRunner
      BY <2>2, LegalSources DEF Accept, Move, flightVars, ErrandFree
    <3>2. OpenOffers(e) = {r} /\ Holders(e) = {}
      BY <2>2, <3>1 DEF Accept, OpenOffers
    <3>3. OpenOffers(e)' = {} /\ Holders(e)' = {r}
      BY <2>2, <3>2 DEF Accept, OpenOffers, Holders, TypeOK
    <3>4. \A f \in Errands \ {e} : offer'[f] = offer[f] /\ status'[f] = status[f]
      BY <2>2, <3>1 DEF Accept, TypeOK
    <3>5. \A f \in Errands \ {e} : OpenOffers(f)' = OpenOffers(f) /\ Holders(f)' = Holders(f)
      BY <3>4 DEF OpenOffers, Holders
    <3>6. status'[e] = "RUNNER_EN_ROUTE"
      BY <3>1 DEF TypeOK
    <3>7. OneOpenOffer'
      BY <3>3, <3>5
    <3>8. OfferMatchesStatus'
      BY <3>3, <3>4, <3>5, <3>6
    <3>9. AssigningOK'
      BY <3>1, <3>4
    <3> QED
      BY <3>7, <3>8, <3>9
  <2>3. CASE Decline(e, r)
    <3>1. OpenOffers(e) = {r} /\ Holders(e) = {}
      BY <2>3 DEF Decline, OpenOffers
    <3>2. OpenOffers(e)' = {} /\ Holders(e)' = {}
      BY <2>3, <3>1 DEF Decline, OpenOffers, Holders, TypeOK
    <3>3. \A f \in Errands \ {e} : offer'[f] = offer[f]
      BY <2>3 DEF Decline, TypeOK
    <3>4. \A f \in Errands \ {e} : OpenOffers(f)' = OpenOffers(f) /\ Holders(f)' = Holders(f)
      BY <3>3 DEF OpenOffers, Holders
    <3>5. status' = status /\ assigning' = assigning /\ assigning[e] = NoRunner
      BY <2>3 DEF Decline, ErrandFree, taskVars, flightVars
    <3>6. OneOpenOffer'
      BY <3>2, <3>4
    <3>7. OfferMatchesStatus'
      BY <2>3, <3>2, <3>4, <3>5 DEF Decline
    <3>8. AssigningOK'
      BY <3>3, <3>5
    <3> QED
      BY <3>6, <3>7, <3>8
  <2>4. CASE Withdraw(e, r)
    <3>1. CASE status[e] = "RUNNER_ASSIGNED" /\ offer[e][r] = "assigned"
      BY <2>4, <3>1, <1>3 DEF Withdraw, OpenOffers, taskVars
    <3>2. CASE ~ (status[e] = "RUNNER_ASSIGNED" /\ offer[e][r] = "assigned")
      BY <2>4, <3>2, <1>1 DEF Withdraw, taskVars, offerVars
    <3> QED
      BY <3>1, <3>2
  <2> QED
    BY <1>8, <2>1, <2>2, <2>3, <2>4 DEF OfferNext
<1>9. CASE ReadPastDeadline \/ ReadLapsed \/ FinishSweep
  BY <1>9, <1>1 DEF ReadPastDeadline, ReadLapsed, FinishSweep, taskVars, offerVars, flightVars
<1>10. CASE Crash
  BY <1>10 DEF Crash, taskVars, offerVars, OpenOffers, Holders
<1> QED
  BY <1>4, <1>5, <1>6, <1>7, <1>8, <1>9, <1>10 DEF Next

\* Every step keeps the availability column in line with the jobs and the
\* verification: busy exactly while on one job, online only when verified.
LEMMA AvailInvStep == TypeOK /\ OfferInv /\ AvailInv /\ [Next]_vars => AvailInv'
<1> SUFFICES ASSUME TypeOK, OfferInv, AvailInv, [Next]_vars PROVE AvailInv'
    OBVIOUS
<1> USE DispatchAssumption DEF AvailInv, IdleCheckOK, BusyIffOnJob, OnlineRunnersVerified
\* Who is on which job does not change, and neither does availability, except
\* that a runner who is not busy changes to online (verified) or offline.
<1>1. ASSUME \A e \in Errands, r \in Runners : OnJob(e, r)' <=> OnJob(e, r),
             UNCHANGED <<avail, verified>>, idleCheck' \subseteq idleCheck
      PROVE  AvailInv'
  BY <1>1
<1>2. ASSUME NEW r \in Runners, NEW to \in {"online", "offline"},
             UNCHANGED <<status, offer, verified>>,
             r \notin idleCheck', idleCheck' \subseteq idleCheck,
             avail[r] # "busy", to = "online" => verified[r],
             avail' = [avail EXCEPT ![r] = to]
      PROVE  AvailInv'
  BY <1>2 DEF OnJob, TypeOK
\* Errands off the job stay off it, whatever becomes of their status and offers.
<1>3. ASSUME NEW e \in Errands, NEW to,
             status' = [status EXCEPT ![e] = to],
             status[e] \notin RunnerActiveJobStates, to \notin RunnerActiveJobStates
      PROVE  \A f \in Errands, r \in Runners :
                 (\A g \in Errands \ {e} : offer'[g] = offer[g]) => (OnJob(f, r)' <=> OnJob(f, r))
  BY <1>3 DEF OnJob, TypeOK
<1>4. ASSUME NEW e \in Errands, NEW which \in SUBSET OpenOffers(e), ExpireOffers(e, which),
             \/ UNCHANGED status
             \/ \E to \in {"CANCELLED", "EXPIRED"} :
                   /\ status[e] \in {"PAYMENT_CONFIRMED", "RUNNER_ASSIGNED"}
                   /\ status' = [status EXCEPT ![e] = to],
             UNCHANGED <<avail, verified, idleCheck>>
      PROVE  AvailInv'
  <2>1. \A f \in Errands : Holders(f)' = Holders(f)
    BY <1>4, ExpireOffersSets
  <2>2. \A f \in Errands : status'[f] \in RunnerActiveJobStates <=> status[f] \in RunnerActiveJobStates
    BY <1>4 DEF TypeOK, RunnerActiveJobStates
  <2>3. \A f \in Errands, r \in Runners : OnJob(f, r)' <=> OnJob(f, r)
    BY <2>1, <2>2 DEF OnJob, Holders
  <2> QED
    BY <1>1, <1>4, <2>3
<1>5. CASE UNCHANGED vars
  BY <1>1, <1>5 DEF vars, taskVars, offerVars, runnerVars, flightVars, OnJob
<1>6. CASE Tick
  BY <1>1, <1>6 DEF Tick, taskVars, offerVars, runnerVars, flightVars, OnJob
<1>7. ASSUME NEW e \in Errands, ErrandNext(e) PROVE AvailInv'
  <2> USE DEF runnerVars, flightVars, offerVars, taskVars
  <2>1. CASE ConfirmPayment(e)
    BY <2>1, <1>1, LegalSources DEF ConfirmPayment, Move, OnJob, TypeOK, RunnerActiveJobStates
  <2>2. CASE CustomerCancel(e)
    BY <2>2, <1>1 DEF CustomerCancel, Move, OnJob, TypeOK, RunnerActiveJobStates
  <2>3. ASSUME NEW d \in Deadlines \cup {NoDeadline}, BeginEdit(e, d) PROVE AvailInv'
    BY <2>3, <1>1 DEF BeginEdit, OnJob
  <2>4. CASE WriteEdit(e)
    BY <2>4, <1>1 DEF WriteEdit, OnJob
  <2>5. CASE CommitAssign(e)
    <3>1. status[e] \notin RunnerActiveJobStates
      BY <2>5 DEF CommitAssign, OfferInv, AssigningOK, RunnerActiveJobStates
    <3>2. \A g \in Errands \ {e} : offer'[g] = offer[g]
      BY <2>5 DEF CommitAssign, TypeOK
    <3>3. \A f \in Errands, r \in Runners : OnJob(f, r)' <=> OnJob(f, r)
      BY <2>5, <3>1, <3>2, <1>3 DEF CommitAssign, RunnerActiveJobStates
    <3> QED
      BY <2>5, <3>3, <1>1 DEF CommitAssign
  <2>6. CASE RefuseAssign(e)
    BY <2>6, <1>1 DEF RefuseAssign, OnJob
  <2>7. CASE AdminMarkAssigned(e)
    BY <2>7, <1>1, LegalSources DEF AdminMarkAssigned, Move, OnJob, TypeOK, RunnerActiveJobStates
  <2>8. CASE AdminCancel(e)
    BY <2>8, <1>4 DEF AdminCancel, Move
  <2>9. CASE AdminExpire(e)
    BY <2>9, <1>4 DEF AdminExpire, NoRunnerLeft, PaidPastDeadline, Move
  <2>10. CASE Arrive(e)
    BY <2>10, <1>1 DEF Arrive, Move, OnJob, TypeOK, RunnerActiveJobStates
  <2>11. CASE StartWork(e)
    BY <2>11, <1>1, LegalSources DEF StartWork, Move, OnJob, TypeOK, RunnerActiveJobStates
  <2>12. CASE LeaveJob(e)
    <3>1. PICK to \in LeftJobStatuses : status' = [status EXCEPT ![e] = to]
      BY <2>12 DEF LeaveJob, Move, LeftJobStatuses
    <3>2. PICK h \in Runners : Holders(e) = {h}
      BY <2>12 DEF LeaveJob, OfferInv, OfferMatchesStatus, OneOpenOffer, Holders
    <3>3. OnJob(e, h) /\ avail[h] = "busy" /\ h \notin idleCheck
      BY <2>12, <3>2 DEF LeaveJob, OnJob, Holders
    <3>4. \A f \in Errands \ {e} : ~OnJob(f, h)
      BY <3>3
    <3>5. \A r \in Runners : avail'[r] = IF r = h THEN IF verified[h] THEN "online" ELSE "offline"
                                         ELSE avail[r]
      BY <2>12, <3>2, <3>3 DEF LeaveJob, EndJob
    <3>6. \A f \in Errands, r \in Runners : OnJob(f, r)' <=> (OnJob(f, r) /\ f # e)
      BY <2>12, <3>1 DEF LeaveJob, OnJob, TypeOK, RunnerActiveJobStates, LeftJobStatuses
    <3>7. \A r \in Runners : r # h => ~OnJob(e, r)
      BY <3>2 DEF OnJob, Holders
    <3>8. BusyIffOnJob'
      BY <3>4, <3>5, <3>6, <3>7
    <3>9. IdleCheckOK' /\ OnlineRunnersVerified'
      BY <2>12, <3>3, <3>5 DEF LeaveJob, TypeOK
    <3> QED
      BY <3>8, <3>9
  <2>13. CASE ExpirePastDeadline(e)
    <3>1. CASE status[e] = "RUNNER_ASSIGNED" /\ DeadlinePassed(e, sweep.at)
      BY <2>13, <3>1, <1>4 DEF ExpirePastDeadline, Move
    <3>2. CASE ~ (status[e] = "RUNNER_ASSIGNED" /\ DeadlinePassed(e, sweep.at))
      BY <2>13, <3>2, <1>1 DEF ExpirePastDeadline, OnJob
    <3> QED
      BY <3>1, <3>2
  <2>14. CASE ExpireLapsed(e)
    <3>1. LapsedOffers(e, sweep.at) \in SUBSET OpenOffers(e)
      BY DEF LapsedOffers, Lapsed, OpenOffers
    <3>2. CASE status[e] = "RUNNER_ASSIGNED"
      BY <2>14, <3>1, <3>2, <1>4 DEF ExpireLapsed
    <3>3. CASE status[e] # "RUNNER_ASSIGNED"
      BY <2>14, <3>3, <1>1 DEF ExpireLapsed, OnJob
    <3> QED
      BY <3>2, <3>3
  <2> QED
    BY <1>7, <2>1, <2>2, <2>3, <2>4, <2>5, <2>6, <2>7, <2>8, <2>9, <2>10, <2>11, <2>12,
       <2>13, <2>14 DEF ErrandNext
<1>8. ASSUME NEW r \in Runners, RunnerNext(r) PROVE AvailInv'
  <2> USE DEF runnerVars, flightVars, offerVars, taskVars, ProfileFree
  <2>1. CASE GoOnline(r)
    BY <2>1, <1>2 DEF GoOnline
  <2>2. CASE GoOffline(r)
    BY <2>2, <1>2 DEF GoOffline
  <2>3. CASE Approve(r)
    BY <2>3 DEF Approve, OnJob, TypeOK
  <2>4. CASE DropLevel(r)
    <3>1. \A s \in Runners : avail'[s] = IF s = r /\ avail[r] = "online" THEN "offline" ELSE avail[s]
      BY <2>4 DEF DropLevel, TypeOK
    <3>2. \A s \in Runners : verified'[s] = (IF s = r THEN FALSE ELSE verified[s])
      BY <2>4 DEF DropLevel, TypeOK
    <3>3. BusyIffOnJob'
      BY <2>4, <3>1 DEF DropLevel, OnJob
    <3>4. IdleCheckOK' /\ OnlineRunnersVerified'
      BY <2>4, <3>1, <3>2 DEF DropLevel, TypeOK
    <3> QED
      BY <3>3, <3>4
  <2>5. CASE ReadWithdrawals(r)
    BY <2>5, <1>1 DEF ReadWithdrawals, OnJob
  <2>6. CASE CheckIdle(r)
    BY <2>6 DEF CheckIdle, OnJob
  <2>7. CASE SetOfflineBySystem(r)
    BY <2>7, <1>2 DEF SetOfflineBySystem
  <2> QED
    BY <1>8, <2>1, <2>2, <2>3, <2>4, <2>5, <2>6, <2>7 DEF RunnerNext
<1>9. ASSUME NEW e \in Errands, NEW r \in Runners, OfferNext(e, r) PROVE AvailInv'
  <2> USE DEF runnerVars, flightVars, offerVars, taskVars, ProfileFree
  <2>1. CASE BeginAssign(e, r)
    BY <2>1, <1>1 DEF BeginAssign, OnJob
  <2>2. CASE Accept(e, r)
    <3>1. status[e] = "RUNNER_ASSIGNED" /\ status' = [status EXCEPT ![e] = "RUNNER_EN_ROUTE"]
      BY <2>2, LegalSources DEF Accept, Move
    <3>2. avail[r] = "online" /\ r \notin idleCheck /\ idleCheck' = idleCheck /\ verified' = verified
      BY <2>2 DEF Accept, StartJob
    <3>3. \A s \in Runners : avail'[s] = IF s = r THEN "busy" ELSE avail[s]
      BY <2>2 DEF Accept, StartJob, TypeOK
    <3>4. \A s \in Runners : s # r => offer[e][s] # "accepted"
      BY <3>1 DEF OfferInv, OfferMatchesStatus, Holders, RunnerActiveJobStates, LeftJobStatuses
    <3>5. \A f \in Errands, s \in Runners : OnJob(f, s)' <=> OnJob(f, s) \/ (f = e /\ s = r)
      BY <2>2, <3>1, <3>4 DEF Accept, OnJob, TypeOK, RunnerActiveJobStates
    <3>6. \A f \in Errands : ~OnJob(f, r)
      BY <3>2
    <3>7. BusyIffOnJob'
      BY <3>3, <3>5, <3>6
    <3>8. IdleCheckOK' /\ OnlineRunnersVerified'
      BY <3>2, <3>3 DEF TypeOK
    <3> QED
      BY <3>7, <3>8
  <2>3. CASE Decline(e, r)
    <3>1. \A f \in Errands, s \in Runners : OnJob(f, s)' <=> OnJob(f, s)
      BY <2>3 DEF Decline, OnJob, TypeOK
    <3> QED
      BY <2>3, <3>1, <1>1 DEF Decline
  <2>4. CASE Withdraw(e, r)
    <3>1. CASE status[e] = "RUNNER_ASSIGNED" /\ offer[e][r] = "assigned"
      BY <2>4, <3>1, <1>4 DEF Withdraw, OpenOffers
    <3>2. CASE ~ (status[e] = "RUNNER_ASSIGNED" /\ offer[e][r] = "assigned")
      BY <2>4, <3>2, <1>1 DEF Withdraw, OnJob
    <3> QED
      BY <3>1, <3>2
  <2> QED
    BY <1>9, <2>1, <2>2, <2>3, <2>4 DEF OfferNext
<1>10. CASE ReadPastDeadline \/ ReadLapsed \/ FinishSweep
  BY <1>10, <1>1 DEF ReadPastDeadline, ReadLapsed, FinishSweep, OnJob,
                     taskVars, offerVars, runnerVars, flightVars
<1>11. CASE Crash
  BY <1>11, <1>1 DEF Crash, OnJob, taskVars, offerVars, runnerVars
<1> QED
  BY <1>5, <1>6, <1>7, <1>8, <1>9, <1>10, <1>11 DEF Next
-----------------------------------------------------------------------------
\* The inductive invariant: BusyIffOnJob alone does not survive a step.  It
\* needs the offer rows (one holder per task, none before the accept), which
\* need the row an assign transaction holds, and the profile row the presence
\* sweep holds.
THEOREM DispatchInvariant == Spec => []IInv
<1>1. IInv /\ [Next]_vars => IInv'
  BY TypeOKStep, OfferInvStep, AvailInvStep DEF IInv
<1> QED
  BY InitIInv, <1>1, PTL DEF Spec

\* Every row keeps a value the code can write, and from payment on a task has
\* a deadline, whatever edit was in flight when it was paid.
THEOREM DispatchTypeCorrect == Spec => []TypeOK
<1>1. IInv => TypeOK
  BY DEF IInv
<1> QED
  BY DispatchInvariant, <1>1, PTL

\* A task is offered to or held by one runner at most.
THEOREM DispatchOneOpenOffer == Spec => []OneOpenOffer
<1>1. IInv => OneOpenOffer
  BY DEF IInv, OfferInv
<1> QED
  BY DispatchInvariant, <1>1, PTL

\* An offer is open only on a RUNNER_ASSIGNED task; a task has a holder from
\* the accept on, never before.
THEOREM DispatchOfferMatchesStatus == Spec => []OfferMatchesStatus
<1>1. IInv => OfferMatchesStatus
  BY DEF IInv, OfferInv
<1> QED
  BY DispatchInvariant, <1>1, PTL

\* RA-20, one active job at a time: a runner is busy exactly while on a job,
\* and on one only.
THEOREM DispatchBusyIffOnJob == Spec => []BusyIffOnJob
<1>1. IInv => BusyIffOnJob
  BY DEF IInv, AvailInv
<1> QED
  BY DispatchInvariant, <1>1, PTL

\* Row 273: a runner shown online is verified.
THEOREM DispatchOnlineRunnersVerified == Spec => []OnlineRunnersVerified
<1>1. IInv => OnlineRunnersVerified
  BY DEF IInv, AvailInv
<1> QED
  BY DispatchInvariant, <1>1, PTL
-----------------------------------------------------------------------------
\* Row 178: an assignment that was accepted, declined or expired is final, so
\* the runner is never offered that task again.
THEOREM DispatchClosedOffersStayClosed == Spec => ClosedOffersStayClosed
<1> DEFINE Closed(e, r) == offer[e][r] \in {"accepted", "declined", "expired"}
           Kept == \A e \in Errands, r \in Runners : Closed(e, r) => offer'[e][r] = offer[e][r]
<1>1. TypeOK /\ OfferInv /\ [Next]_vars => Kept
  <2> SUFFICES ASSUME TypeOK, OfferInv, [Next]_vars PROVE Kept
      OBVIOUS
  <2>1. CASE UNCHANGED offer
    BY <2>1
  <2>2. ASSUME NEW e \in Errands, NEW which \in SUBSET OpenOffers(e), ExpireOffers(e, which)
        PROVE  Kept
    BY <2>2, SMTT(30) DEF TypeOK, ExpireOffers, OpenOffers
  <2>3. ASSUME NEW e \in Errands, CommitAssign(e) PROVE Kept
    BY <2>3, SMTT(30) DEF CommitAssign, TypeOK, OfferInv, AssigningOK, OpenOffers
  <2>4. ASSUME NEW e \in Errands, NEW r \in Runners, Accept(e, r) \/ Decline(e, r) PROVE Kept
    BY <2>4, SMTT(30) DEF Accept, Decline, TypeOK
  <2>5. ASSUME NEW e \in Errands, ErrandNext(e), ~CommitAssign(e) PROVE Kept
    <3>1. \A t \in Nat : LapsedOffers(e, t) \in SUBSET OpenOffers(e)
      BY DEF LapsedOffers, Lapsed, OpenOffers
    <3>2. CASE UNCHANGED offer
      BY <3>2
    <3>3. CASE ExpireOffers(e, OpenOffers(e))
      BY <3>3, <2>2
    <3>4. CASE ExpireOffers(e, LapsedOffers(e, sweep.at))
      BY <3>1, <3>4, <2>2 DEF TypeOK
    <3> QED
      BY <2>5, <3>2, <3>3, <3>4
         DEF ErrandNext, ConfirmPayment, CustomerCancel, BeginEdit, WriteEdit, RefuseAssign,
             AdminMarkAssigned, AdminCancel, AdminExpire, Arrive, StartWork, LeaveJob,
             ExpirePastDeadline, ExpireLapsed, offerVars
  <2>6. ASSUME NEW e \in Errands, NEW r \in Runners, BeginAssign(e, r) \/ Withdraw(e, r) PROVE Kept
    BY <2>6, <2>2 DEF BeginAssign, Withdraw, OpenOffers, offerVars
  <2>7. ASSUME NEW r \in Runners, RunnerNext(r) PROVE Kept
    BY <2>7 DEF RunnerNext, GoOnline, GoOffline, Approve, DropLevel, ReadWithdrawals,
                CheckIdle, SetOfflineBySystem, offerVars
  <2> QED
    BY <2>1, <2>3, <2>4, <2>5, <2>6, <2>7
       DEF Next, OfferNext, vars, Tick, ReadPastDeadline, ReadLapsed, FinishSweep, Crash, offerVars
<1>2. IInv => TypeOK /\ OfferInv
  BY DEF IInv
<1>3. TypeOK /\ OfferInv /\ [Next]_vars => [Kept]_vars
  BY <1>1
<1>4. ClosedOffersStayClosed <=> [][Kept]_vars
  BY DEF ClosedOffersStayClosed
<1> QED
  BY DispatchInvariant, <1>2, <1>3, <1>4, PTL DEF Spec

-----------------------------------------------------------------------------
\* What a step leaves to JobAllocation when no offer, holder or status it
\* sees has changed.
LEMMA AllocationStutters ==
    ASSUME \A e \in Errands : /\ OpenOffers(e)' = OpenOffers(e)
                              /\ Holders(e)' = Holders(e)
                              /\ {r \in Runners : offer[e][r] # "none"}'
                                   = {r \in Runners : offer[e][r] # "none"}
                              /\ status'[e] \in RunnerActiveJobStates
                                   <=> status[e] \in RunnerActiveJobStates
                              /\ status'[e] \in {"CANCELLED", "EXPIRED"} /\ Holders(e) = {}
                                   <=> status[e] \in {"CANCELLED", "EXPIRED"} /\ Holders(e) = {}
    PROVE  UNCHANGED Allocation!vars
BY DEF Allocation!vars

\* The first state maps to a first state of JobAllocation.
LEMMA InitAllocation == Init => Allocation!Init
BY DEF Init, Allocation!Init, OpenOffers, Holders, RunnerActiveJobStates

\* Each action is one of JobAllocation's, or a stutter.
LEMMA AllocationStep ==
    TypeOK /\ OfferInv /\ AvailInv /\ [Next]_vars => [Allocation!Next]_(Allocation!vars)
<1> SUFFICES ASSUME TypeOK, OfferInv, AvailInv, [Next]_vars
             PROVE  Allocation!Next \/ UNCHANGED Allocation!vars
    OBVIOUS
<1> DEFINE Goal == Allocation!Next \/ UNCHANGED Allocation!vars
           Tried(e) == {r \in Runners : offer[e][r] # "none"}
           Active == {e \in Errands : status[e] \in RunnerActiveJobStates}
           Ended == {e \in Errands : status[e] \in {"CANCELLED", "EXPIRED"} /\ Holders(e) = {}}
<1>1. ASSUME UNCHANGED <<status, offer>> PROVE Goal
  BY <1>1 DEF Allocation!vars, OpenOffers, Holders
\* Only a status moves, between statuses JobAllocation does not tell apart.
<1>2. ASSUME NEW e \in Errands, NEW to, UNCHANGED offer, status' = [status EXCEPT ![e] = to],
             status[e] \in RunnerActiveJobStates <=> to \in RunnerActiveJobStates,
             status[e] \notin {"CANCELLED", "EXPIRED"}, to \notin {"CANCELLED", "EXPIRED"}
      PROVE  Goal
  <2>1. \A f \in Errands : OpenOffers(f)' = OpenOffers(f) /\ Holders(f)' = Holders(f)
    BY <1>2 DEF OpenOffers, Holders
  <2>2. \A f \in Errands : status'[f] = IF f = e THEN to ELSE status[f]
    BY <1>2 DEF TypeOK
  <2> QED
    BY <1>2, <2>1, <2>2, AllocationStutters
\* Offers are closed and the task ends with nobody holding it.
<1>3. ASSUME NEW e \in Errands, ExpireOffers(e, OpenOffers(e)), NEW to \in {"CANCELLED", "EXPIRED"},
             status[e] \in {"ACCEPTED", "PAYMENT_CONFIRMED", "RUNNER_ASSIGNED"},
             status' = [status EXCEPT ![e] = to]
      PROVE  Goal
  <2>1. /\ OpenOffers(e)' = {}
        /\ \A f \in Errands : Holders(f)' = Holders(f)
        /\ \A f \in Errands \ {e} : OpenOffers(f)' = OpenOffers(f)
        /\ \A f \in Errands, r \in Runners : offer[f][r] = "none" <=> offer'[f][r] = "none"
    BY <1>3, ExpireOffersSets
  <2>2. Holders(e) = {}
    BY <1>3 DEF OfferInv, OfferMatchesStatus, RunnerActiveJobStates, LeftJobStatuses
  <2>3. \A f \in Errands : status'[f] = IF f = e THEN to ELSE status[f]
    BY <1>3 DEF TypeOK
  <2>4. Active' = Active
    BY <1>3, <2>3 DEF RunnerActiveJobStates
  <2>5. e \notin Ended /\ Ended' = Ended \cup {e}
    <3>1. status[e] \notin {"CANCELLED", "EXPIRED"}
      BY <1>3
    <3>2. \A f \in Errands : f \in Ended' <=> f \in Ended \/ f = e
      BY <2>1, <2>2, <2>3
    <3> QED
      BY <3>1, <3>2
  <2>6. Allocation!Close(e)
    <3>1. \A f \in Errands : Tried(f)' = Tried(f)
      BY <2>1
    <3>2. [f \in Errands |-> OpenOffers(f)]' = [[f \in Errands |-> OpenOffers(f)] EXCEPT ![e] = {}]
      BY <2>1
    <3>3. [f \in Errands |-> Holders(f)]' = [f \in Errands |-> Holders(f)]
      BY <2>1
    <3>4. [f \in Errands |-> Tried(f)]' = [f \in Errands |-> Tried(f)]
      BY <3>1
    <3> QED
      BY <2>2, <2>4, <2>5, <3>2, <3>3, <3>4 DEF Allocation!Close
  <2> QED
    BY <2>6 DEF Allocation!Next
\* Offers are closed, the task waits on.
<1>4. ASSUME NEW e \in Errands, NEW which \in SUBSET OpenOffers(e), ExpireOffers(e, which),
             UNCHANGED status
      PROVE  Goal
  <2>1. /\ OpenOffers(e)' = OpenOffers(e) \ which
        /\ \A f \in Errands : Holders(f)' = Holders(f)
        /\ \A f \in Errands \ {e} : OpenOffers(f)' = OpenOffers(f)
        /\ \A f \in Errands, r \in Runners : offer[f][r] = "none" <=> offer'[f][r] = "none"
    BY <1>4, ExpireOffersSets
  <2>2. CASE which = {}
    BY <1>4, <2>1, <2>2, AllocationStutters
  <2>3. CASE which # {}
    <3>1. OpenOffers(e) # {} /\ OpenOffers(e)' = {}
      BY <2>1, <2>3 DEF OfferInv, OneOpenOffer
    <3>2. Allocation!Retract(e)
      BY <1>4, <2>1, <3>1 DEF Allocation!Retract
    <3> QED
      BY <3>2 DEF Allocation!Next
  <2> QED
    BY <2>2, <2>3
<1>5. CASE UNCHANGED vars
  BY <1>1, <1>5 DEF vars, taskVars, offerVars
<1>6. ASSUME NEW e \in Errands, ErrandNext(e) PROVE Goal
  <2> USE DEF offerVars, taskVars
  <2>1. CASE ConfirmPayment(e)
    BY <2>1, <1>2, LegalSources DEF ConfirmPayment, Move, RunnerActiveJobStates
  <2>2. CASE CustomerCancel(e)
    <3>1. OpenOffers(e) = {}
      BY <2>2 DEF CustomerCancel, OfferInv, OfferMatchesStatus
    <3>2. ExpireOffers(e, OpenOffers(e))
      BY <2>2, <3>1 DEF CustomerCancel, ExpireOffers, TypeOK
    <3> QED
      BY <2>2, <3>2, <1>3 DEF CustomerCancel, Move
  <2>3. ASSUME NEW d \in Deadlines \cup {NoDeadline}, BeginEdit(e, d) PROVE Goal
    BY <2>3, <1>1 DEF BeginEdit
  <2>4. CASE WriteEdit(e) \/ RefuseAssign(e)
    BY <2>4, <1>1 DEF WriteEdit, RefuseAssign
  <2>5. CASE CommitAssign(e)
    <3>q. PICK q \in Runners : q = assigning[e]
      BY <2>5 DEF CommitAssign, TypeOK
    <3>s. offer[e][q] = "none" /\ status[e] \in {"PAYMENT_CONFIRMED", "RUNNER_ASSIGNED"}
      BY <2>5, <3>q DEF CommitAssign, OfferInv, AssigningOK
    <3>1. q \in Runners /\ offer[e][q] = "none" /\ Holders(e) = {}
          /\ status[e] \in {"PAYMENT_CONFIRMED", "RUNNER_ASSIGNED"}
      BY <3>s DEF OfferInv, OfferMatchesStatus, RunnerActiveJobStates, LeftJobStatuses
    <3>2. \A r \in Runners : offer'[e][r] = CASE r = q              -> "assigned"
                                             [] r \in OpenOffers(e) -> "expired"
                                             [] OTHER               -> offer[e][r]
      BY <2>5, <3>q DEF CommitAssign, TypeOK
    <3>3. \A f \in Errands \ {e} : offer'[f] = offer[f] /\ status'[f] = status[f]
      BY <2>5 DEF CommitAssign, TypeOK
    <3>4. status'[e] = "RUNNER_ASSIGNED"
      BY <2>5 DEF CommitAssign, TypeOK
    <3>5. OpenOffers(e)' = {q} /\ Holders(e)' = {} /\ Tried(e)' = Tried(e) \cup {q} /\ q \notin Tried(e)
      BY <3>1, <3>2 DEF OpenOffers, Holders
    <3>6. \A f \in Errands \ {e} :
              OpenOffers(f)' = OpenOffers(f) /\ Holders(f)' = Holders(f) /\ Tried(f)' = Tried(f)
      BY <3>3 DEF OpenOffers, Holders
    <3>7. Active' = Active /\ Ended' = Ended /\ e \notin Ended
      <4>1. \A f \in Errands : f \in Active' <=> f \in Active
        BY <3>1, <3>3, <3>4 DEF RunnerActiveJobStates
      <4>2. \A f \in Errands : f \in Ended' <=> f \in Ended
        BY <3>1, <3>3, <3>4, <3>6
      <4>3. e \notin Ended
        BY <3>1
      <4> QED
        BY <4>1, <4>2, <4>3
    <3>8. Allocation!Offer(e, q)
      <4>1. [f \in Errands |-> OpenOffers(f)]' = [[f \in Errands |-> OpenOffers(f)] EXCEPT ![e] = {q}]
        BY <3>5, <3>6
      <4>2. [f \in Errands |-> Holders(f)]' = [f \in Errands |-> Holders(f)]
        BY <3>1, <3>5, <3>6
      <4>3. [f \in Errands |-> Tried(f)]'
              = [[f \in Errands |-> Tried(f)] EXCEPT ![e] = Tried(e) \cup {q}]
        BY <3>5, <3>6
      <4> QED
        BY <3>1, <3>5, <3>7, <4>1, <4>2, <4>3 DEF Allocation!Offer
    <3> QED
      BY <3>1, <3>8 DEF Allocation!Next
  <2>6. CASE AdminMarkAssigned(e)
    BY <2>6, <1>2, LegalSources DEF AdminMarkAssigned, Move, RunnerActiveJobStates
  <2>7. CASE AdminCancel(e)
    BY <2>7, <1>3 DEF AdminCancel, Move
  <2>8. CASE AdminExpire(e)
    BY <2>8, <1>3 DEF AdminExpire, NoRunnerLeft, PaidPastDeadline, Move
  <2>9. CASE Arrive(e) \/ StartWork(e)
    BY <2>9, <1>2, LegalSources DEF Arrive, StartWork, Move, RunnerActiveJobStates
  <2>10. CASE LeaveJob(e)
    <3>1. PICK to \in LeftJobStatuses : status' = [status EXCEPT ![e] = to]
      BY <2>10 DEF LeaveJob, Move, LeftJobStatuses
    <3>2. status[e] \in RunnerActiveJobStates /\ offer' = offer /\ Holders(e) # {}
      BY <2>10 DEF LeaveJob, OfferInv, OfferMatchesStatus
    <3>3. \A f \in Errands : /\ OpenOffers(f)' = OpenOffers(f)
                             /\ Holders(f)' = Holders(f)
                             /\ Tried(f)' = Tried(f)
      BY <3>2 DEF OpenOffers, Holders
    <3>4. \A f \in Errands : status'[f] = IF f = e THEN to ELSE status[f]
      BY <3>1 DEF TypeOK
    <3>5. e \in Active /\ Active' = Active \ {e} /\ Ended' = Ended
      BY <3>2, <3>3, <3>4 DEF RunnerActiveJobStates, LeftJobStatuses
    <3>6. Allocation!Finish(e)
      BY <3>3, <3>5 DEF Allocation!Finish
    <3> QED
      BY <3>6 DEF Allocation!Next
  <2>11. CASE ExpirePastDeadline(e)
    BY <2>11, <1>1, <1>3 DEF ExpirePastDeadline, Move
  <2>12. CASE ExpireLapsed(e)
    <3>1. LapsedOffers(e, sweep.at) \in SUBSET OpenOffers(e)
      BY DEF LapsedOffers, Lapsed, OpenOffers
    <3> QED
      BY <2>12, <3>1, <1>1, <1>4 DEF ExpireLapsed
  <2> QED
    BY <1>6, <2>1, <2>2, <2>3, <2>4, <2>5, <2>6, <2>7, <2>8, <2>9, <2>10, <2>11, <2>12
       DEF ErrandNext
<1>7. ASSUME NEW r \in Runners, RunnerNext(r) PROVE Goal
  BY <1>7, <1>1 DEF RunnerNext, GoOnline, GoOffline, Approve, DropLevel, ReadWithdrawals,
     CheckIdle, SetOfflineBySystem, taskVars, offerVars
<1>8. ASSUME NEW e \in Errands, NEW r \in Runners, OfferNext(e, r) PROVE Goal
  <2> USE DEF offerVars, taskVars
  <2>1. CASE BeginAssign(e, r)
    BY <2>1, <1>1 DEF BeginAssign
  <2>2. CASE Accept(e, r)
    <3>1. status[e] = "RUNNER_ASSIGNED" /\ status' = [status EXCEPT ![e] = "RUNNER_EN_ROUTE"]
      BY <2>2, LegalSources DEF Accept, Move
    <3>2. OpenOffers(e) = {r} /\ Holders(e) = {} /\ r \in Tried(e)
      BY <2>2, <3>1 DEF Accept, OpenOffers, OfferInv, OneOpenOffer, OfferMatchesStatus,
                        RunnerActiveJobStates, LeftJobStatuses
    <3>3. \A f \in Errands : ~OnJob(f, r)
      BY <2>2 DEF Accept, StartJob, AvailInv, BusyIffOnJob
    <3>4. \A f \in Active : r \notin Holders(f)
      BY <3>3 DEF OnJob, Holders
    <3>5. OpenOffers(e)' = {} /\ Holders(e)' = {r} /\ Tried(e)' = Tried(e)
      BY <2>2, <3>2 DEF Accept, OpenOffers, Holders, TypeOK
    <3>6. \A f \in Errands \ {e} : offer'[f] = offer[f] /\ status'[f] = status[f]
      BY <2>2, <3>1 DEF Accept, TypeOK
    <3>7. \A f \in Errands \ {e} :
              OpenOffers(f)' = OpenOffers(f) /\ Holders(f)' = Holders(f) /\ Tried(f)' = Tried(f)
      BY <3>6 DEF OpenOffers, Holders
    <3>8. status'[e] = "RUNNER_EN_ROUTE"
      BY <3>1 DEF TypeOK
    <3>9. Active' = Active \cup {e} /\ Ended' = Ended
      <4>1. \A f \in Errands : f \in Active' <=> f \in Active \/ f = e
        BY <3>1, <3>6, <3>8 DEF RunnerActiveJobStates
      <4>2. \A f \in Errands : f \in Ended' <=> f \in Ended
        BY <3>1, <3>6, <3>7, <3>8
      <4> QED
        BY <4>1, <4>2
    <3>10. Allocation!Take(e, r)
      <4>1. [f \in Errands |-> OpenOffers(f)]' = [[f \in Errands |-> OpenOffers(f)] EXCEPT ![e] = {}]
        BY <3>5, <3>7
      <4>2. [f \in Errands |-> Holders(f)]' = [[f \in Errands |-> Holders(f)] EXCEPT ![e] = {r}]
        BY <3>5, <3>7
      <4>3. [f \in Errands |-> Tried(f)]' = [f \in Errands |-> Tried(f)]
        BY <3>5, <3>7
      <4> QED
        BY <3>2, <3>4, <3>9, <4>1, <4>2, <4>3 DEF Allocation!Take
    <3> QED
      BY <3>10 DEF Allocation!Next
  <2>3. CASE Decline(e, r)
    <3>1. OpenOffers(e) = {r}
      BY <2>3 DEF Decline, OpenOffers, OfferInv, OneOpenOffer
    <3>2. OpenOffers(e)' = {} /\ Holders(e)' = Holders(e) /\ Tried(e)' = Tried(e)
      BY <2>3, <3>1 DEF Decline, OpenOffers, Holders, TypeOK
    <3>3. \A f \in Errands \ {e} : offer'[f] = offer[f]
      BY <2>3 DEF Decline, TypeOK
    <3>4. \A f \in Errands \ {e} :
              OpenOffers(f)' = OpenOffers(f) /\ Holders(f)' = Holders(f) /\ Tried(f)' = Tried(f)
      BY <3>3 DEF OpenOffers, Holders
    <3>5. Allocation!Retract(e)
      BY <2>3, <3>1, <3>2, <3>4 DEF Decline, Allocation!Retract
    <3> QED
      BY <3>5 DEF Allocation!Next
  <2>4. CASE Withdraw(e, r)
    BY <2>4, <1>1, <1>4 DEF Withdraw, OpenOffers
  <2> QED
    BY <1>8, <2>1, <2>2, <2>3, <2>4 DEF OfferNext
<1>9. CASE Tick \/ ReadPastDeadline \/ ReadLapsed \/ FinishSweep \/ Crash
  BY <1>9, <1>1 DEF Tick, ReadPastDeadline, ReadLapsed, FinishSweep, Crash, taskVars, offerVars
<1> QED
  BY <1>5, <1>6, <1>7, <1>8, <1>9 DEF Next

\* Dispatch implements JobAllocation: one offer at a time, one holder ever, one
\* job per runner, for any number of tasks and runners.
THEOREM DispatchImplementsAllocation == Spec => ImplementsAllocation
<1>1. IInv => TypeOK /\ OfferInv /\ AvailInv
  BY DEF IInv
<1>2. Init /\ [][Next]_vars /\ []IInv => Allocation!Init /\ [][Allocation!Next]_(Allocation!vars)
  BY InitAllocation, AllocationStep, <1>1, PTL
<1> QED
  BY DispatchInvariant, <1>2, PTL DEF Spec, ImplementsAllocation, Allocation!Spec
=============================================================================
