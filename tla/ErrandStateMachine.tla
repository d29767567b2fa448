------------------------- MODULE ErrandStateMachine -------------------------
(***************************************************************************)
(* The errand lifecycle table of errand-state-machine.ts.  Every module    *)
(* that moves an errand asks this table first, as performTransition does.  *)
(***************************************************************************)

ErrandStatuses ==
    {"DRAFT", "REQUESTED", "QUOTED", "ACCEPTED", "PAYMENT_CONFIRMED",
     "RUNNER_ASSIGNED", "RUNNER_EN_ROUTE", "ARRIVED", "IN_PROGRESS",
     "AWAITING_CUSTOMER", "COMPLETED", "CONFIRMED", "SETTLED",
     "CANCELLED", "FAILED", "DISPUTED", "EXPIRED"}

Actors == {"customer", "runner", "admin", "system"}

\* A guarded row is open to an actor only through the one flow that passes
\* the guard (performTransition's `guard` argument).
NoGuard == "no_guard"

\* One row: who may move an errand between two statuses, and which guard
\* binds which of them.
GuardedRow(from, to, actors, bound, g) ==
    [from |-> from, to |-> to,
     guard |-> [a \in actors |-> IF a \in bound THEN g ELSE NoGuard]]

Row(from, to, actors) == GuardedRow(from, to, actors, {}, NoGuard)

ErrandTransitions ==
    { Row("DRAFT", "REQUESTED", {"customer"}),
      Row("DRAFT", "CANCELLED", {"customer"}),
      Row("REQUESTED", "QUOTED", {"admin", "system"}),
      Row("REQUESTED", "CANCELLED", {"customer"}),
      Row("QUOTED", "ACCEPTED", {"customer"}),
      Row("QUOTED", "CANCELLED", {"customer"}),
      Row("ACCEPTED", "PAYMENT_CONFIRMED", {"admin", "system"}),
      Row("ACCEPTED", "CANCELLED", {"customer"}),
      Row("PAYMENT_CONFIRMED", "RUNNER_ASSIGNED", {"admin", "system"}),
      GuardedRow("PAYMENT_CONFIRMED", "EXPIRED", {"admin"}, {"admin"}, "admin_expiry"),
      Row("RUNNER_ASSIGNED", "RUNNER_EN_ROUTE", {"runner"}),
      Row("RUNNER_ASSIGNED", "CANCELLED", {"admin"}),
      GuardedRow("RUNNER_ASSIGNED", "EXPIRED", {"system", "admin"}, {"admin"}, "admin_expiry"),
      Row("RUNNER_EN_ROUTE", "ARRIVED", {"runner", "system"}),
      Row("RUNNER_EN_ROUTE", "FAILED", {"runner", "system"}),
      Row("ARRIVED", "IN_PROGRESS", {"runner"}),
      Row("IN_PROGRESS", "AWAITING_CUSTOMER", {"runner"}),
      Row("IN_PROGRESS", "DISPUTED", {"customer"}),
      GuardedRow("IN_PROGRESS", "CANCELLED", {"customer"}, {"customer"},
                 "price_change_rejection"),
      Row("AWAITING_CUSTOMER", "COMPLETED", {"customer"}),
      Row("AWAITING_CUSTOMER", "DISPUTED", {"customer"}),
      Row("COMPLETED", "CONFIRMED", {"system"}),
      Row("COMPLETED", "DISPUTED", {"customer"}),
      Row("CONFIRMED", "SETTLED", {"system"}),
      Row("DISPUTED", "COMPLETED", {"admin"}),
      Row("DISPUTED", "CANCELLED", {"admin"}) }

\* canTransition, guardFor and actorCanPerform together: the three tests
\* performTransition makes, in one.
Legal(from, to, actor, guard) ==
    \E row \in ErrandTransitions :
        /\ row.from = from
        /\ row.to = to
        /\ actor \in DOMAIN row.guard
        /\ row.guard[actor] \in {NoGuard, guard}

\* isTerminal: no row leaves the status.
IsTerminal(s) == \A row \in ErrandTransitions : row.from # s

\* RUNNER_ACTIVE_JOB_STATES: the accepted runner is on the job, and busy.
RunnerActiveJobStates == {"RUNNER_EN_ROUTE", "ARRIVED", "IN_PROGRESS"}
=============================================================================
