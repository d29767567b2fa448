------------------------------ MODULE RefundLedger ------------------------------
(***************************************************************************)
(* The refund reviews of one task (refunds.service.ts): opened when a paid *)
(* task ends or its price drops, decided by an admin, paid out by hand and *)
(* corrected.  What a payment result or the backstop does to the task's    *)
(* cancellation review takes two steps, the sum of the completed legs and  *)
(* the write: only the write waits for another one on the same row.        *)
(***************************************************************************)
EXTENDS TaskExposure

\* Mutant of OpenWithin: the upsert also rewrites a decided review.
OpenWithinDecided(r, sum) ==
    CASE sum = 0 -> r
      [] r.status = "none" -> [r EXCEPT !.status = "pending_review", !.paid = sum]
      [] OTHER -> [r EXCEPT !.paid = sum]

\* The upsert of the cancellation review, for a sum read before.
OpenWithin(r, sum) ==
    CASE sum = 0 -> r
      [] r.status = "none" -> [r EXCEPT !.status = "pending_review", !.paid = sum]
      [] r.status = "pending_review" -> [r EXCEPT !.paid = sum]
      [] OTHER -> r

\* applyResult looks at the task before its transaction.
ReadTask(p) ==
    /\ result[p].step = "none" /\ p \notin paid
    /\ p = Increase => "main" \in paid
    /\ result' = [result EXCEPT ![p].step = IF status = "CANCELLED" THEN "ended" ELSE "under way"]
    /\ UNCHANGED <<status, paid, refresh, review, line, overrides>>

\* The result of a task under way: no review.  The main payment's is followed
\* by the confirmation of the errand, which finds it ended.
RecordResult(p) ==
    /\ result[p].step = "under way"
    /\ paid' = paid \union {p}
    /\ result' = [result EXCEPT ![p].step = "none"]
    /\ refresh' = IF p = "main" /\ status = "CANCELLED" THEN [refresh EXCEPT !.step = "due"] ELSE refresh
    /\ UNCHANGED <<status, review, line, overrides>>

\* The result of an ended task: its transaction sums the committed legs and
\* its own, then opens or refreshes the review and commits.
SumLegs(p) ==
    /\ result[p].step = "ended"
    /\ result' = [result EXCEPT ![p] = [step |-> "summed", sum |-> PaidBy(paid \union {p})]]
    /\ UNCHANGED <<status, paid, refresh, review, line, overrides>>

RecordLateResult(p) ==
    /\ result[p].step = "summed"
    /\ paid' = paid \union {p}
    /\ review' = [review EXCEPT ![Cancellation] = OpenWithin(@, result[p].sum)]
    /\ result' = [result EXCEPT ![p] = [step |-> "none", sum |-> 0]]
    /\ UNCHANGED <<status, refresh, line, overrides>>

\* The transition hook, in the transition's transaction; the event of the
\* transition is handled after it commits.
End ==
    /\ status = "under way"
    /\ status' = "CANCELLED"
    /\ review' = [review EXCEPT ![Cancellation] = OpenWithin(@, TotalPaid)]
    /\ refresh' = [refresh EXCEPT !.step = "due"]
    /\ UNCHANGED <<paid, result, line, overrides>>

SumAgain ==
    /\ refresh.step = "due"
    /\ refresh' = [step |-> "summed", sum |-> TotalPaid]
    /\ UNCHANGED <<status, paid, result, review, line, overrides>>

Refresh ==
    /\ refresh.step = "summed"
    /\ review' = [review EXCEPT ![Cancellation] = OpenWithin(@, refresh.sum)]
    /\ refresh' = [step |-> "none", sum |-> 0]
    /\ UNCHANGED <<status, paid, result, line, overrides>>

\* A price decrease of a paid task opens a review of its own, once.
OpenForDecrease(d, n) ==
    /\ status = "under way" /\ "main" \in paid
    /\ review[d].status = "none"
    /\ review' = [review EXCEPT ![d].status = "pending_review", ![d].paid = n]
    /\ UNCHANGED <<status, paid, result, refresh, line, overrides>>
-----------------------------------------------------------------------------
Others(v) == CommittedRefunds(Reviews \ {v})

Ceiling(v) == Lesser(review[v].paid, Minus(TotalPaid, Others(v)))

Reimbursed == CommittedReimbursements(line["item_reimbursement"])

\* Decreases and the runner's reimbursement come out of the item amount.
ItemExposure(v, n) ==
    IF v \in Decreases
    THEN WithinExposure("item", n, ItemPaidGross, CommittedRefunds(Decreases \ {v}), Reimbursed)
    ELSE {}

\* The overrides a refund of n needs on review v.
Lifted(v, n) == ItemExposure(v, n) \union WithinExposure("task", n, TotalPaid, Others(v), Reimbursed)

\* Mutant of Decide: the exposure of the task is not looked at.
DecideUncapped(v, n, note) ==
    /\ review[v].status = "pending_review"
    /\ n <= Ceiling(v)
    /\ review' = [review EXCEPT ![v].status = IF n > 0 THEN "approved" ELSE "no_refund",
                                ![v].amount = n]
    /\ UNCHANGED <<status, paid, result, refresh, line, overrides>>

Decide(v, n, note) ==
    LET lifted == IF n > 0 THEN Lifted(v, n) ELSE {} IN
    /\ review[v].status = "pending_review"
    /\ n <= Ceiling(v)
    /\ lifted # {} => note
    /\ review' = [review EXCEPT ![v].status = IF n > 0 THEN "approved" ELSE "no_refund",
                                ![v].amount = n]
    /\ overrides' = overrides \union lifted
    /\ UNCHANGED <<status, paid, result, refresh, line>>
-----------------------------------------------------------------------------
RefundUses(c) == \E v \in Reviews :
    \/ review[v].receipt = c
    \/ \E i \in DOMAIN review[v].corrections : review[v].corrections[i].receipt = c

LineUses(k, c) ==
    \/ line[k].receipt = c
    \/ \E i \in DOMAIN line[k].corrections : line[k].corrections[i].receipt = c

ReferenceFree(c) == ~RefundUses(c) /\ \A k \in Lines : ~LineUses(k, c)

\* markPaid of a refund, under the row's and the receipt's locks.
MarkRefunded(v, c) ==
    /\ review[v].status = "approved"
    /\ ReferenceFree(c)
    /\ review' = [review EXCEPT ![v].status = "refunded", ![v].receipt = c]
    /\ UNCHANGED <<status, paid, result, refresh, line, overrides>>

\* A correction is refused unless the admin saw the latest one, so it is made
\* on the payout as it stands.
CorrectRefund(v, kind, n, c, note) ==
    LET current == Payout(review[v])
        lifted  == IF n = NoAmount THEN {} ELSE Lifted(v, n)
    IN
    /\ review[v].status = "refunded"
    /\ Recorded < MaxCorrections
    /\ Valid(kind, current, n, c)
    /\ n # NoAmount => n > 0 /\ n <= Ceiling(v)
    /\ lifted # {} => note
    /\ c # NoReceipt => ReferenceFree(c)
    /\ review' = [review EXCEPT ![v].corrections =
                     Append(@, Correction(kind, current.amount, n, c))]
    /\ overrides' = overrides \union lifted
    /\ UNCHANGED <<status, paid, result, refresh, line>>

\* The admin list of payouts due, by the latest correction.
RefundDue(r) ==
    \/ r.status = "approved"
    \/ /\ r.status = "refunded"
       /\ r.corrections # <<>> /\ Last(r.corrections).kind = "reversed"
================================================================================
