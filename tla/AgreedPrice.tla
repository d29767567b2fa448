------------------------------ MODULE AgreedPrice ------------------------------
(***************************************************************************)
(* What the customer of one task agreed to pay for the item: the price on  *)
(* the errand, the requests to change it, and the money that followed them *)
(* (errand, price-change request, payment and refund review rows).  What   *)
(* the rows have to agree on is said here; how they change, in             *)
(* PriceChanges.                                                           *)
(***************************************************************************)
EXTENDS Integers, Sequences, Functions

CONSTANTS
    Prices,         \* item prices
    FirstPrice      \* errand.budget at creation

ASSUME PriceAssumption == Prices \subseteq Nat \ {0} /\ FirstPrice \in Prices

VARIABLES
    taskStatus,     \* errands.status
    budget,         \* errands.budget
    charge,         \* the primary payment: state, route and item amount
    requests,       \* price_change_requests, oldest first
    difference,     \* difference payments, as first recorded
    decrease,       \* refund reviews of decreases
    ended,          \* the cancellation review is open
    overlap         \* a request or a charge was written from a price that had
                    \* changed or could still change: see InsertRequest, Approve

\* QUOTED is left out: nothing here tells it from ACCEPTED.  ARRIVED stands for
\* the statuses of an accepted runner before the job starts.
PriceChangeable == {"ACCEPTED", "PAYMENT_CONFIRMED", "ARRIVED", "IN_PROGRESS"}
PostPayment == PriceChangeable \ {"ACCEPTED"}

Open == {i \in DOMAIN requests : requests[i].status = "requested"}
Change(i) == requests[i].to - requests[i].from
Total(rows) == SumFunction([k \in DOMAIN rows |-> rows[k].amount])
-----------------------------------------------------------------------------
\* What the customer was charged for the item, with every increase and less
\* every decrease, is the price they agreed to last, unless a price was written
\* from a stale read (request, initiate) on the way.
AgreedPriceIsCharged ==
    /\ charge.state = "paid" /\ charge.route = "send_to_runner"
    /\ taskStatus \in PostPayment \union {"AWAITING_CUSTOMER"}
    /\ ~overlap
    => charge.amount + Total(difference) - Total(decrease) = budget

\* A request is decided once, and what it decides is all there or not at all:
\* every difference payment and every decrease review belongs to one approved
\* request, of just its change, and a request the customer rejected ended the
\* task with it, a paid one into review, however calls race to decide it or to
\* cancel the task over it (lockPending, reject, transitionWith).
OneDecisionOneOutcome ==
    /\ \A rows \in {difference, decrease} : \A k, n \in DOMAIN rows :
           /\ rows[k].for = rows[n].for => k = n
           /\ requests[rows[k].for].status = "approved"
    /\ \A k \in DOMAIN difference : difference[k].amount = Change(difference[k].for)
    /\ \A k \in DOMAIN decrease : decrease[k].amount = -Change(decrease[k].for)
    /\ (\E i \in DOMAIN requests : requests[i].status = "rejected_cancelled") =>
           /\ taskStatus = "CANCELLED"
           /\ charge.state = "paid" => ended

\* "A price change request is already pending for this task": two are never
\* open at once.
OneOpenRequest == \A i, j \in Open : i = j
================================================================================
