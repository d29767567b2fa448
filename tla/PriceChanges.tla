------------------------------ MODULE PriceChanges ------------------------------
(***************************************************************************)
(* The item price of one paid-for task and the changes to it               *)
(* (matching/price-change.service.ts), with what an approval does to the   *)
(* money: a difference payment, or a refund review of a decrease.  A call  *)
(* reads without a lock and writes later; decisions lock the errand and    *)
(* then the request.  How a difference is pushed and paid is Payments.     *)
(***************************************************************************)
EXTENDS AgreedPrice, ErrandStateMachine

CONSTANTS
    Calls,          \* API calls that can be in flight at once
    MaxRequests     \* bound on price-change requests

ASSUME RequestsBounded == MaxRequests \in Nat

VARIABLES call      \* call[c]: a call between its reads and its write

vars == <<taskStatus, budget, charge, requests, difference, decrease, ended, call, overlap>>

Routes == {"merchant_direct", "send_to_runner"}
NoCharge == [state |-> "none", route |-> "none", amount |-> 0]
Idle == [step |-> "idle", price |-> 0, to |-> 0, id |-> 0, guard |-> NoGuard, route |-> "none"]

Settled == taskStatus \in PostPayment /\ charge.state = "paid"
InFlight == charge # NoCharge \/ \E c \in Calls : call[c].step = "charge"

\* primaryRouteFor: the route of the primary payment that has not failed.
PrimaryRoute == charge.route

Init ==
    /\ taskStatus = "ACCEPTED"
    /\ budget = FirstPrice
    /\ charge = NoCharge
    /\ requests = <<>>
    /\ difference = <<>>
    /\ decrease = <<>>
    /\ ended = FALSE
    /\ call = [c \in Calls |-> Idle]
    /\ overlap = FALSE

MoneyUnchanged == UNCHANGED <<budget, charge, difference, decrease, ended>>
-----------------------------------------------------------------------------
(* The task beside the requests: paid, worked on, cancelled.               *)

\* initiate reads the budget...
ReadPrice(c, route) ==
    /\ call[c] = Idle
    /\ taskStatus = "ACCEPTED" /\ charge = NoCharge
    /\ call' = [call EXCEPT ![c] = [Idle EXCEPT !.step = "charge", !.price = budget, !.route = route]]
    /\ UNCHANGED <<taskStatus, requests, overlap>> /\ MoneyUnchanged

\* ...and writes the payment in a transaction that does not read it again.
InsertCharge(c) ==
    /\ call[c].step = "charge"
    /\ charge' = IF charge = NoCharge
                 THEN [state |-> "pending", route |-> call[c].route, amount |-> call[c].price]
                 ELSE charge
    /\ call' = [call EXCEPT ![c] = Idle]
    /\ UNCHANGED <<taskStatus, budget, requests, difference, decrease, ended, overlap>>

\* A failed charge makes room for another.
ChargeFails ==
    /\ charge.state = "pending"
    /\ charge' = NoCharge
    /\ UNCHANGED <<taskStatus, budget, requests, difference, decrease, ended, call, overlap>>

\* Paid; on a task that ended meanwhile, into its review...
ChargePaid ==
    /\ charge.state = "pending"
    /\ charge' = [charge EXCEPT !.state = "paid"]
    /\ ended' = (ended \/ taskStatus = "CANCELLED")
    /\ UNCHANGED <<taskStatus, budget, requests, difference, decrease, call, overlap>>

\* ...and the task confirmed after it.
ConfirmPaid ==
    /\ charge.state = "paid"
    /\ Legal(taskStatus, "PAYMENT_CONFIRMED", "system", NoGuard)
    /\ taskStatus' = "PAYMENT_CONFIRMED"
    /\ UNCHANGED <<requests, call, overlap>> /\ MoneyUnchanged

\* An admin confirms a task paid outside the app.
ConfirmOutside ==
    /\ Legal(taskStatus, "PAYMENT_CONFIRMED", "admin", NoGuard)
    /\ taskStatus' = "PAYMENT_CONFIRMED"
    /\ UNCHANGED <<requests, call, overlap>> /\ MoneyUnchanged

Work ==
    /\ \/ taskStatus = "PAYMENT_CONFIRMED" /\ taskStatus' = "ARRIVED"
       \/ taskStatus = "ARRIVED" /\ taskStatus' = "IN_PROGRESS"
       \/ taskStatus = "IN_PROGRESS" /\ taskStatus' = "AWAITING_CUSTOMER"
    /\ UNCHANGED <<requests, call, overlap>> /\ MoneyUnchanged

\* The customer cancels, where the state machine lets them.
CancelTask ==
    /\ Legal(taskStatus, "CANCELLED", "customer", NoGuard)
    /\ taskStatus' = "CANCELLED"
    /\ ended' = (charge.state = "paid")
    /\ UNCHANGED <<budget, charge, requests, difference, decrease, call, overlap>>
-----------------------------------------------------------------------------
(* request: the errand read, then an open request looked for, then the     *)
(* row written, with no lock between them.                                 *)

ReadErrand(c, who, to) ==
    /\ call[c] = Idle
    /\ taskStatus \in PriceChangeable
    /\ who = "runner" => taskStatus = "IN_PROGRESS"
    /\ call' = [call EXCEPT ![c] = [Idle EXCEPT !.step = "look", !.price = budget, !.to = to]]
    /\ UNCHANGED <<taskStatus, requests, overlap>> /\ MoneyUnchanged

FindNoneOpen(c) ==
    /\ call[c].step = "look"
    /\ call' = [call EXCEPT ![c] = IF Open = {} THEN [@ EXCEPT !.step = "insert"] ELSE Idle]
    /\ UNCHANGED <<taskStatus, requests, overlap>> /\ MoneyUnchanged

InsertRequest(c) ==
    /\ call[c].step = "insert"
    /\ Len(requests) < MaxRequests
    /\ requests' = Append(requests, [from |-> call[c].price, to |-> call[c].to, status |-> "requested"])
    /\ overlap' = (overlap \/ Open # {} \/ budget # call[c].price)
    /\ call' = [call EXCEPT ![c] = Idle]
    /\ UNCHANGED taskStatus /\ MoneyUnchanged
-----------------------------------------------------------------------------
(* Decisions: the request found open without a lock, then decided under    *)
(* the locks of errand and request.                                        *)

\* pendingOwnedRequest, and for a customer's rejection the errand's status, that
\* picks the guard of the cancellation.
FindPending(c, i, what) ==
    /\ call[c] = Idle
    /\ i \in Open
    /\ what = "cancel" =>
           \E guard \in {NoGuard, "price_change_rejection"} : Legal(taskStatus, "CANCELLED", "customer", guard)
    /\ call' = [call EXCEPT ![c] = [Idle EXCEPT !.step = what, !.id = i,
                   !.guard = IF what = "cancel" /\ taskStatus = "IN_PROGRESS"
                             THEN "price_change_rejection" ELSE NoGuard]]
    /\ UNCHANGED <<taskStatus, requests, overlap>> /\ MoneyUnchanged

\* Mutant of Pending: the request is not read again under its lock.
PendingAsRead(i) == i \in DOMAIN requests

\* lockPending: still open, now that the locks are held.
Pending(i) == i \in Open

\* An increase on a paid task is a difference payment...
ChargeDifference(i) ==
    difference' = IF Change(i) > 0 /\ taskStatus \in PostPayment
                  THEN Append(difference, [for |-> i, amount |-> Change(i)]) ELSE difference

\* ...a decrease opens its review when Nitume holds the item money.
ReviewDecrease(i) ==
    decrease' = IF /\ Change(i) < 0 /\ taskStatus \in PostPayment
                   /\ PrimaryRoute = "send_to_runner"
                   /\ \A k \in DOMAIN decrease : decrease[k].for # i
                THEN Append(decrease, [for |-> i, amount |-> -Change(i)]) ELSE decrease

\* Mutant of Priced: a decrease on a paid task only changes the budget.
PricedUp(i) == ChargeDifference(i) /\ UNCHANGED decrease

Priced(i) == ChargeDifference(i) /\ ReviewDecrease(i)

Drop(c) == call' = [call EXCEPT ![c] = Idle]

Approve(c) ==
    LET i == call[c].id IN
    /\ call[c].step = "approve"
    /\ Drop(c)
    /\ IF Pending(i) /\ taskStatus \in PriceChangeable
       THEN /\ Priced(i)
            /\ budget' = requests[i].to
            /\ requests' = [requests EXCEPT ![i].status = "approved"]
            /\ overlap' = (overlap \/ (InFlight /\ ~Settled))
       ELSE UNCHANGED <<difference, decrease, budget, requests, overlap>>
    /\ UNCHANGED <<taskStatus, charge, ended>>

\* An admin's rejection leaves the task as it is.
Reject(c) ==
    LET i == call[c].id IN
    /\ call[c].step = "reject"
    /\ Drop(c)
    /\ requests' = IF Pending(i) THEN [requests EXCEPT ![i].status = "rejected"] ELSE requests
    /\ UNCHANGED <<taskStatus, overlap>> /\ MoneyUnchanged

\* A customer's rejection cancels the task in the transaction that rejects, or
\* does neither: the guard picked earlier may no longer fit.
RejectAndCancel(c) ==
    LET i == call[c].id IN
    /\ call[c].step = "cancel"
    /\ Drop(c)
    /\ IF Pending(i) /\ Legal(taskStatus, "CANCELLED", "customer", call[c].guard)
       THEN /\ requests' = [requests EXCEPT ![i].status = "rejected_cancelled"]
            /\ taskStatus' = "CANCELLED"
            /\ ended' = (charge.state = "paid")
       ELSE UNCHANGED <<requests, taskStatus, ended>>
    /\ UNCHANGED <<budget, charge, difference, decrease, overlap>>
-----------------------------------------------------------------------------
Next ==
    \/ ChargeFails \/ ChargePaid \/ ConfirmPaid \/ ConfirmOutside \/ Work \/ CancelTask
    \/ \E c \in Calls :
        \/ \E route \in Routes : ReadPrice(c, route)
        \/ \E who \in {"runner", "admin"}, to \in Prices : ReadErrand(c, who, to)
        \/ \E i \in Open, what \in {"approve", "reject", "cancel"} : FindPending(c, i, what)
        \/ InsertCharge(c) \/ FindNoneOpen(c) \/ InsertRequest(c)
        \/ Approve(c) \/ Reject(c) \/ RejectAndCancel(c)

Spec == Init /\ [][Next]_vars
================================================================================
