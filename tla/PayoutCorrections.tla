--------------------------- MODULE PayoutCorrections ---------------------------
(***************************************************************************)
(* A manual M-Pesa payout and the corrections recorded after it.  Refunds  *)
(* to customers (refunds.service.ts) and payouts to runners                *)
(* (runner-payouts.service.ts) keep the payout as it was recorded and add  *)
(* rows that change it: a correction of the amount or the receipt, a       *)
(* reversal, a payout sent again.  What was effectively sent is a fold of  *)
(* the rows, oldest first.                                                 *)
(***************************************************************************)
EXTENDS Naturals, Sequences, SequencesExt

CONSTANTS
    Receipts,       \* M-Pesa receipt codes
    NoReceipt,
    NoAmount

ASSUME ReceiptAssumption == NoReceipt \notin Receipts /\ NoAmount \notin Nat

Kinds == {"corrected", "reversed", "resent"}

\* A row keeps the effective amount it replaces; NoAmount and NoReceipt leave
\* that part of the payout as it was.
Correction(kind, previous, amount, receipt) ==
    [kind |-> kind, previous |-> previous, amount |-> amount, receipt |-> receipt]

Or(value, none, default) == IF value = none THEN default ELSE value

\* One row applied to a payout that was first recorded with `amount`.
Apply(amount, payout, c) ==
    CASE c.kind = "corrected" ->
            [payout EXCEPT !.amount  = Or(c.amount, NoAmount, @),
                           !.receipt = Or(c.receipt, NoReceipt, @)]
      [] c.kind = "reversed" ->
            [state |-> "reversed", amount |-> 0, receipt |-> NoReceipt]
      [] c.kind = "resent" ->
            [state |-> "sent", amount |-> Or(c.amount, NoAmount, amount), receipt |-> c.receipt]

Effective(amount, receipt, corrections) ==
    FoldLeft(LAMBDA payout, c : Apply(amount, payout, c),
             [state |-> "sent", amount |-> amount, receipt |-> receipt], corrections)

\* What a row may say of the payout as it stands: a receipt or an amount that
\* differ, the code of a reversal, or the receipt and amount sent again.
Valid(kind, current, amount, receipt) ==
    \/ /\ kind = "corrected" /\ current.state = "sent"
       /\ amount # current.amount /\ receipt # current.receipt
       /\ amount # NoAmount \/ receipt # NoReceipt
    \/ /\ kind = "reversed" /\ current.state = "sent"
       /\ amount = NoAmount /\ receipt # NoReceipt
    \/ /\ kind = "resent" /\ current.state = "reversed"
       /\ amount # NoAmount /\ receipt # NoReceipt
================================================================================
