------------------------------ MODULE TaskExposure ------------------------------
(***************************************************************************)
(* The money of one task: what the customer paid to Nitume, what its       *)
(* refund reviews and its runner's payout lines commit of it, and the cap  *)
(* both share (task-exposure.ts).  Decisions on either side take the       *)
(* task's exposure lock until they commit, so each is one action.          *)
(***************************************************************************)
EXTENDS PayoutCorrections, FiniteSetsExt

CONSTANTS
    Cancellation,   \* the task's one cancellation review
    Decreases,      \* price-change requests to a lower item price
    Increase,       \* a price-change request to a higher item price
    Fee,            \* fees paid with the task, the runner's among them
    RunnerFee,      \* the runner's part of them
    Item,           \* item amount paid with the task
    IncreaseBy,     \* item amount of the increase
    DecreasesBy,    \* amounts a decrease may lower the price by
    Limits,         \* purchase limits a runner may have
    MaxCorrections  \* bound on corrections recorded on the task

ASSUME ExposureAssumption ==
    /\ IsFiniteSet(Decreases) /\ Cancellation \notin Decreases
    /\ Fee \in Nat /\ RunnerFee \in 0..Fee /\ Item \in Nat /\ IncreaseBy \in Nat
    /\ DecreasesBy \subseteq Nat /\ Limits \subseteq Nat
    /\ MaxCorrections \in Nat

VARIABLES
    status,     \* of the task: under way, CONFIRMED or refundably ended
    paid,       \* payments recorded completed: "main" and the increase
    result,     \* result[p]: a provider's result on its way to its rows
    refresh,    \* the backstop after an end: its sum, until it writes it
    review,     \* refund_reviews with their corrections
    line,       \* runner_payout_lines: the obligations with their adjustments
    overrides   \* task_exposure_overrides: what each lifted

vars == <<status, paid, result, refresh, review, line, overrides>>

Payments == {"main", Increase}
Reviews  == {Cancellation} \union Decreases
Lines    == {"runner_fee", "item_reimbursement"}

Committed == {"approved", "refunded"}
Overrides == {"task", "item", "purchase_limit"}

Minus(m, n) == IF m > n THEN m - n ELSE 0
Lesser(m, n) == IF m < n THEN m ELSE n
-----------------------------------------------------------------------------
ItemOf(p) == IF p = "main" THEN Item ELSE IncreaseBy
AmountOf(p) == IF p = "main" THEN Fee + Item ELSE IncreaseBy

\* Every completed leg, and every completed item leg, before refunds.
PaidBy(payments)  == SumFunctionOnSet([p \in Payments |-> AmountOf(p)], payments)
TotalPaid         == PaidBy(paid)
ItemPaidGross     == SumFunctionOnSet([p \in Payments |-> ItemOf(p)], paid)

Payout(r) == Effective(r.amount, r.receipt, r.corrections)

\* What a review commits: the decided amount, the amount effectively sent, or
\* the decided amount again while a reversed payout is not sent again.
CommittedAmount(r) ==
    CASE r.status = "approved" -> r.amount
      [] r.status = "refunded" ->
            IF Payout(r).state = "sent" THEN Payout(r).amount ELSE r.amount
      [] OTHER -> 0

CommittedRefunds(S) == SumFunctionOnSet([v \in Reviews |-> CommittedAmount(review[v])], S)

CommittedReimbursements(l) == IF l.status \in {"payable", "paid"} THEN l.amount ELSE 0

\* Item amount paid to Nitume, net of committed decrease refunds.
ItemPaidToNitume == Minus(ItemPaidGross, CommittedRefunds(Decreases))

\* An amount above what the cap leaves needs an override, recorded with it.
WithinExposure(scope, amount, basis, refunds, reimbursed) ==
    IF amount <= Minus(basis, refunds + reimbursed) THEN {} ELSE {scope}
-----------------------------------------------------------------------------
NoSum == [step |-> "none", sum |-> 0]
NoReview == [status |-> "none", paid |-> 0, amount |-> 0, receipt |-> NoReceipt,
             corrections |-> <<>>]
NoLine == [status |-> "none", requested |-> 0, amount |-> 0, cap |-> 0, limit |-> 0,
           receipt |-> NoReceipt, corrections |-> <<>>]

Init ==
    /\ status = "under way"
    /\ paid = {}
    /\ result = [p \in Payments |-> NoSum]
    /\ refresh = NoSum
    /\ review = [v \in Reviews |-> NoReview]
    /\ line = [k \in Lines |-> NoLine]
    /\ overrides = {}

\* Corrections recorded on the task, for the bound.
Recorded ==
    SumFunction([v \in Reviews |-> Len(review[v].corrections)])
    + SumFunction([k \in Lines |-> Len(line[k].corrections)])
================================================================================
