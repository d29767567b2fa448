------------------------------ MODULE RunnerPayouts ------------------------------
(***************************************************************************)
(* The payout lines of one task's runner (runner-payouts.service.ts): the  *)
(* runner's fee and the reimbursement of the item, recorded when the task  *)
(* is confirmed or claimed when it ended, reviewed, paid out by hand and   *)
(* corrected; the runner's balance and the feed derived from them.         *)
(***************************************************************************)
EXTENDS Integers, RefundLedger

ItemLine == "item_reimbursement"

PendingDecrease == \E d \in Decreases : review[d].status = "pending_review"

\* insertObligation: nothing is inserted beside an obligation of the kind.
Insert(l, row) == IF l.status = "none" THEN row ELSE l

FeeRow == IF RunnerFee = 0 THEN NoLine
          ELSE [NoLine EXCEPT !.status = "payable", !.requested = RunnerFee, !.amount = RunnerFee]

\* On hold when the amount may still drop, without a receipt, or above the
\* runner's purchase limit.
ItemRow(item, evidence, limit) ==
    LET held == PendingDecrease \/ ~evidence \/ item > limit IN
    IF item = 0 THEN NoLine
    ELSE [NoLine EXCEPT !.status = IF held THEN "on_hold" ELSE "payable",
                        !.requested = item, !.amount = IF held THEN NoAmount ELSE item,
                        !.cap = item, !.limit = limit]

\* The hook of COMPLETED -> CONFIRMED, in the transition's transaction.
RecordConfirmed(evidence, limit) ==
    /\ status = "under way" /\ "main" \in paid
    /\ status' = "CONFIRMED"
    /\ line' = [line EXCEPT !["runner_fee"] = Insert(@, FeeRow),
                            ![ItemLine]     = Insert(@, ItemRow(ItemPaidToNitume, evidence, limit))]
    /\ UNCHANGED <<paid, result, refresh, review, overrides>>

\* The runner bought the item of a task that then ended.
Claim(n, limit) ==
    /\ status = "CANCELLED"
    /\ line[ItemLine].status = "none"
    /\ n > 0 /\ n <= Lesser(ItemPaidToNitume, limit)
    /\ line' = [line EXCEPT ![ItemLine] =
           [NoLine EXCEPT !.status = "on_hold", !.requested = n, !.amount = NoAmount,
                          !.cap = Lesser(ItemPaidToNitume, limit), !.limit = limit]]
    /\ UNCHANGED <<status, paid, result, refresh, review, overrides>>
-----------------------------------------------------------------------------
\* The most an approval may carry with a purchase-limit exception, without one.
OverLimitCeiling(l) == Lesser(l.requested, Lesser(ItemPaidToNitume, l.cap))
ApprovalCeiling(l)  == Lesser(OverLimitCeiling(l), l.limit)

Reject ==
    /\ line[ItemLine].status = "on_hold"
    /\ line' = [line EXCEPT ![ItemLine].status = "rejected"]
    /\ UNCHANGED <<status, paid, result, refresh, review, overrides>>

\* Mutant of Approve: the cap of the decreases committed since is not applied.
ApproveRequested(n, exception, note) ==
    LET l == line[ItemLine] IN
    /\ l.status = "on_hold"
    /\ n > 0 /\ n <= Lesser(l.requested, l.limit)
    /\ line' = [line EXCEPT ![ItemLine].status = "payable", ![ItemLine].amount = n]
    /\ UNCHANGED <<status, paid, result, refresh, review, overrides>>

Approve(n, exception, note) ==
    LET l      == line[ItemLine]
        above  == n > ApprovalCeiling(l)
        lifted == WithinExposure("task", n, TotalPaid, CommittedRefunds(Reviews), 0)
    IN
    /\ l.status = "on_hold"
    /\ n > 0 /\ n <= OverLimitCeiling(l)
    /\ above => exception /\ n > l.limit
    /\ lifted # {} => note
    /\ line' = [line EXCEPT ![ItemLine].status = "payable", ![ItemLine].amount = n]
    /\ overrides' = overrides \union lifted \union (IF above THEN {"purchase_limit"} ELSE {})
    /\ UNCHANGED <<status, paid, result, refresh, review>>

\* A payable reimbursement goes back to review: the receipt does not match.
Hold ==
    /\ line[ItemLine].status = "payable"
    /\ line' = [line EXCEPT ![ItemLine].status = "on_hold", ![ItemLine].amount = NoAmount]
    /\ UNCHANGED <<status, paid, result, refresh, review, overrides>>
-----------------------------------------------------------------------------
Reversals(k) == {line[k].corrections[i].receipt :
                    i \in {j \in DOMAIN line[k].corrections : line[k].corrections[j].kind = "reversed"}}

\* Mutant of RunnerReferenceFree: one receipt may cover the runner's lines
\* whatever it stands for on them.
RunnerReferenceShared(S, c) == ~RefundUses(c)

\* One M-Pesa payout may cover several lines of a runner: its receipt is on no
\* refund, no reversal and no record of the lines it is now recorded for.
RunnerReferenceFree(S, c) ==
    /\ ~RefundUses(c)
    /\ \A k \in Lines : c \notin Reversals(k)
    /\ \A k \in S : ~LineUses(k, c)

\* markPaidIn: whole payable lines, one receipt.
MarkLinesPaid(S, c) ==
    /\ S # {} /\ \A k \in S : line[k].status = "payable"
    /\ RunnerReferenceFree(S, c)
    /\ line' = [k \in Lines |-> IF k \in S THEN [line[k] EXCEPT !.status = "paid", !.receipt = c]
                                           ELSE line[k]]
    /\ UNCHANGED <<status, paid, result, refresh, review, overrides>>

\* Mutant of CorrectLine: the row keeps the line's amount as the previous one.
CorrectLineOriginal(k, kind, n, c) ==
    LET current == Payout(line[k]) IN
    /\ line[k].status = "paid"
    /\ Recorded < MaxCorrections
    /\ Valid(kind, current, n, c)
    /\ n # NoAmount => n > 0 /\ n <= line[k].amount
    /\ c # NoReceipt => RunnerReferenceFree({k}, c)
    /\ line' = [line EXCEPT ![k].corrections = Append(@, Correction(kind, line[k].amount, n, c))]
    /\ UNCHANGED <<status, paid, result, refresh, review, overrides>>

CorrectLine(k, kind, n, c) ==
    LET current == Payout(line[k]) IN
    /\ line[k].status = "paid"
    /\ Recorded < MaxCorrections
    /\ Valid(kind, current, n, c)
    /\ n # NoAmount => n > 0 /\ n <= line[k].amount
    /\ c # NoReceipt => IF kind = "reversed" THEN ReferenceFree(c) ELSE RunnerReferenceFree({k}, c)
    /\ line' = [line EXCEPT ![k].corrections = Append(@, Correction(kind, current.amount, n, c))]
    /\ UNCHANGED <<status, paid, result, refresh, review, overrides>>
-----------------------------------------------------------------------------
(* What is derived from the lines. *)

\* effectiveStatusOf: a reversed payout is owed again.
EffectiveStatus(l) ==
    IF l.status = "paid" /\ Payout(l).state = "reversed" THEN "payable" ELSE l.status

\* linePositionOf: owed and not paid out.
Available(l) ==
    CASE EffectiveStatus(l) = "payable" -> l.amount
      [] l.status = "paid" -> Minus(l.amount, Payout(l).amount)
      [] OTHER -> 0

\* earningsSummaryOf, the available amount over the runner's lines.
AvailableAmount == SumFunction([k \in Lines |-> Available(line[k])])

\* payoutFeedOf: what one correction adds to the feed.
Signed(c) ==
    CASE c.kind = "reversed" -> c.previous
      [] c.kind = "resent" -> 0 - c.amount
      [] c.kind = "corrected" -> IF c.amount = NoAmount THEN 0 ELSE c.previous - c.amount

\* The line's own entry, its payout's and its corrections'; nothing of a line
\* on hold or rejected counts.
FeedSum(l) ==
    IF l.status \in {"none", "on_hold", "rejected"} THEN 0
    ELSE l.amount - (IF l.status = "paid" THEN l.amount ELSE 0)
         + SumFunction([i \in DOMAIN l.corrections |-> Signed(l.corrections[i])])

\* The admin list of lines to pay, by the latest adjustment.
LineDue(l) ==
    \/ l.status = "payable"
    \/ /\ l.status = "paid"
       /\ l.corrections # <<>> /\ Last(l.corrections).kind = "reversed"

\* pendingConfirmation: the decreases as one query sums them, by the latest
\* correction and the latest that has an amount.
DecreasesQuery ==
    LET AmountsOf(r) == {i \in DOMAIN r.corrections : r.corrections[i].amount # NoAmount}
        LatestAmount(r) ==
            CASE r.status \notin Committed -> 0
              [] RefundDue(r) -> r.amount
              [] OTHER -> IF AmountsOf(r) = {} THEN r.amount
                          ELSE r.corrections[Max(AmountsOf(r))].amount
    IN  SumFunction([d \in Decreases |-> LatestAmount(review[d])])
================================================================================
