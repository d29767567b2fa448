------------------------------- MODULE TaskMoney -------------------------------
(***************************************************************************)
(* One task's money from its payment to the last correction: the refunds   *)
(* of the customer and the payouts of the runner, side by side under one   *)
(* cap.                                                                    *)
(***************************************************************************)
EXTENDS RunnerPayouts

Amounts == 0..(Fee + Item + IncreaseBy)
MaybeAmount == Amounts \union {NoAmount}
MaybeReceipt == Receipts \union {NoReceipt}

RefundNext ==
    \/ \E p \in Payments : ReadTask(p) \/ RecordResult(p) \/ SumLegs(p) \/ RecordLateResult(p)
    \/ End \/ SumAgain \/ Refresh
    \/ \E d \in Decreases, n \in DecreasesBy : OpenForDecrease(d, n)
    \/ \E v \in Reviews, n \in Amounts, note \in BOOLEAN : Decide(v, n, note)
    \/ \E v \in Reviews, c \in Receipts : MarkRefunded(v, c)
    \/ \E v \in Reviews, kind \in Kinds, n \in MaybeAmount, c \in MaybeReceipt, note \in BOOLEAN :
           CorrectRefund(v, kind, n, c, note)

PayoutNext ==
    \/ \E evidence \in BOOLEAN, limit \in Limits : RecordConfirmed(evidence, limit)
    \/ \E n \in Amounts, limit \in Limits : Claim(n, limit)
    \/ Reject \/ Hold
    \/ \E n \in Amounts, exception, note \in BOOLEAN : Approve(n, exception, note)
    \/ \E S \in SUBSET Lines, c \in Receipts : MarkLinesPaid(S, c)
    \/ \E k \in Lines, kind \in Kinds, n \in MaybeAmount, c \in MaybeReceipt :
           CorrectLine(k, kind, n, c)

Next == RefundNext \/ PayoutNext

Spec == Init /\ [][Next]_vars
-----------------------------------------------------------------------------
Corrections == [kind : Kinds, previous : Amounts, amount : MaybeAmount, receipt : MaybeReceipt]

\* Every row has a value the code can write, and what was recorded of a payout
\* appears only once it was made.
TypeOK ==
    /\ status \in {"under way", "CONFIRMED", "CANCELLED"}
    /\ paid \subseteq Payments
    /\ result \in [Payments -> [step : {"none", "under way", "ended", "summed"}, sum : Amounts]]
    /\ refresh \in [step : {"none", "due", "summed"}, sum : Amounts]
    /\ DOMAIN review = Reviews /\ DOMAIN line = Lines
    /\ \A v \in Reviews :
           LET r == review[v] IN
           /\ r.status \in {"none", "pending_review", "no_refund"} \union Committed
           /\ r.paid \in Amounts /\ r.amount \in Amounts /\ r.receipt \in MaybeReceipt
           /\ r.corrections \in Seq(Corrections)
           /\ (r.status = "refunded") <=> (r.receipt # NoReceipt)
           /\ r.corrections # <<>> => r.status = "refunded"
    /\ \A k \in Lines :
           LET l == line[k] IN
           /\ l.status \in {"none", "on_hold", "payable", "paid", "rejected"}
           /\ l.requested \in Amounts /\ l.amount \in MaybeAmount /\ l.receipt \in MaybeReceipt
           /\ l.corrections \in Seq(Corrections)
           /\ l.status \in {"payable", "paid"} => l.amount \in 1..l.requested
           /\ (l.status = "paid") <=> (l.receipt # NoReceipt)
           /\ l.corrections # <<>> => l.status = "paid"
    /\ overrides \subseteq Overrides

\* What a review has sent or is due to send; a reversed payout is back.
Sent(r) == IF r.status = "refunded" THEN Payout(r).amount ELSE CommittedAmount(r)
SentRefunds(S) == SumFunctionOnSet([v \in Reviews |-> Sent(review[v])], S)

\* Without a recorded override, what goes back to the customer and what the
\* runner is reimbursed for the item never exceed what the customer paid,
\* whatever the order of decisions, payouts, reversals and corrections
\* (task-exposure.ts, decide, addCorrection, review).
SentWithinPaid ==
    "task" \notin overrides => SentRefunds(Reviews) + Reimbursed <= TotalPaid

\* The item amount is spent once: the refunds of price decreases and the
\* runner's reimbursement stay within what was paid for the item
\* (assertItemExposure, approvalCeilingOf).
ItemMoneySpentOnce ==
    "item" \notin overrides => SentRefunds(Decreases) + Reimbursed <= ItemPaidGross

\* Everything derived from the rows says the same: the entries of the runner's
\* feed, each signed from the amount its row replaced, sum to the available
\* amount (payoutFeedOf, linePositionOf); the queries that look at the latest
\* corrections only agree with the fold of all of them (pendingConfirmation,
\* the two statusFilter, effectivePayoutOf).
ViewsFollowRows ==
    /\ AvailableAmount = SumFunction([k \in Lines |-> FeedSum(line[k])])
    /\ DecreasesQuery = CommittedRefunds(Decreases)
    /\ \A v \in Reviews : RefundDue(review[v]) <=>
           \/ review[v].status = "approved"
           \/ review[v].status = "refunded" /\ Payout(review[v]).state = "reversed"
    /\ \A k \in Lines : LineDue(line[k]) <=> EffectiveStatus(line[k]) = "payable"

\* Where a receipt is recorded: the payout it is of, and as what.
Uses(c) ==
    LET Of(o, r) == (IF r.receipt = c THEN {<<o, 0, "payout">>} ELSE {})
                    \union {<<o, i, r.corrections[i].kind>> :
                               i \in {j \in DOMAIN r.corrections : r.corrections[j].receipt = c}}
    IN  (UNION {Of(v, review[v]) : v \in Reviews}) \union (UNION {Of(k, line[k]) : k \in Lines})

\* A receipt is recorded twice only for payouts of the runner's different
\* lines, never when it is on a refund or stands for a reversal
\* (payout-references.ts).
ReceiptsNotShared ==
    \A c \in Receipts : \A u, w \in Uses(c) :
        u # w => /\ u[1] \in Lines /\ w[1] \in Lines /\ u[1] # w[1]
                 /\ u[3] # "reversed" /\ w[3] # "reversed"

\* What was decided stays decided: results and refreshes of the review that
\* arrive late change no decided review, a paid or rejected line is never
\* paid, decided or reviewed again, and corrections are only added.
DecidedIsFinal ==
    [][/\ \A v \in Reviews : review[v].status \notin {"none", "pending_review"} =>
              /\ review'[v].paid = review[v].paid /\ review'[v].amount = review[v].amount
              /\ review[v].receipt # NoReceipt => review'[v].receipt = review[v].receipt
              /\ IsPrefix(review[v].corrections, review'[v].corrections)
       /\ \A k \in Lines : line[k].status \in {"paid", "rejected"} =>
              /\ [line'[k] EXCEPT !.corrections = <<>>] = [line[k] EXCEPT !.corrections = <<>>]
              /\ IsPrefix(line[k].corrections, line'[k].corrections)]_vars

\* "Cumulative refunds can never exceed what the customer paid to Nitume."
CommittedWithinPaid == overrides = {} => CommittedRefunds(Reviews) <= TotalPaid

\* The review of an ended task counts every payment, once no result and no
\* refresh is on its way.
ReviewCountsPaid ==
    (/\ status = "CANCELLED" /\ review[Cancellation].status \in {"none", "pending_review"}
     /\ \A p \in Payments : result[p].step = "none" /\ refresh.step = "none")
    => review[Cancellation].paid = TotalPaid
================================================================================
