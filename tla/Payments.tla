------------------------------ MODULE Payments ------------------------------
(***************************************************************************)
(* How one errand is paid: quotes and re-quotes, the STK pushes of the     *)
(* task's charge and of its price increases, the provider's results, the   *)
(* confirmation of the errand and the refund review of one that ended      *)
(* (payments.service.ts, refunds.service.ts, quote and acceptQuote in      *)
(* errands.service.ts).  The module follows one errand: what errands share  *)
(* is the reconcile job's bounded list of pending payments, of which       *)
(* ReconcileLimit is what the others leave.  Of the errand's status it     *)
(* keeps what payments look at: PAYMENT_CONFIRMED stands for every status  *)
(* of a paid task under way, EXPIRED for every refundable end of it.       *)
(*                                                                         *)
(* A request to the API or a worker's run is a row of `request` or         *)
(* `results` between its transactions: what it read may be stale when used.*)
(***************************************************************************)
EXTENDS Naturals, FiniteSets, Sequences, ErrandStateMachine

CONSTANTS
    Requests,       \* API requests that can be in flight at once
    Keys,           \* Idempotency-Keys a client may send
    NoKey,          \* the header is absent
    Increases,      \* price-change requests to a higher item price
    Task,           \* what the main payment is for
    ReconcileLimit, \* resolveTimedOut's limit, less what other errands' rows take of it
    MaxQuotes,      \* bound on quotes of the errand; the last one stays valid
    MaxRows,        \* bound on payment rows
    MaxCrashes      \* bound on API restarts

ASSUME PaymentsAssumption ==
    /\ NoKey \notin Keys
    /\ Task \notin Increases
    /\ ReconcileLimit \in Nat
    /\ MaxQuotes \in Nat \ {0}
    /\ MaxRows \in Nat
    /\ MaxCrashes \in Nat

VARIABLES
    status,     \* errands.status
    quote,      \* the newest quote: its number, not expired, accepted
    rows,       \* payments, oldest first, each with its legs
    push,       \* push[i]: what the provider knows of the STK push of rows[i]
    request,    \* request[s]: an initiate, approval or retry in flight
    results,    \* results read from the provider, on their way to the rows
    review,     \* the cancellation refund review: payments its amount counts
    ended,      \* errand.status_changed of the end, not handled yet
    aged,       \* rows 1..aged are older than resolveTimedOut's maxAgeHours
    crashes

vars == <<status, quote, rows, push, request, results, review, ended, aged, crashes>>

PaymentStatuses == {"pending", "completed", "failed"}
PayableStatuses == {"ACCEPTED", "PAYMENT_CONFIRMED", "CANCELLED", "EXPIRED"}
RefundableTerminalStatuses == {"CANCELLED", "EXPIRED"}

Idle == [step |-> "idle", for |-> Task, key |-> NoKey, row |-> 0]

\* The request has written row i and goes on to push it.
Pushing(r, i) == [r EXCEPT !.step = "push", !.row = i]

PaymentRow(for, n, key) ==
    [for |-> for, status |-> "pending", quote |-> n, key |-> key, ids |-> FALSE]

-----------------------------------------------------------------------------
RowsFor(p) == {i \in DOMAIN rows : rows[i].for = p}
Active(p)  == {i \in RowsFor(p) : rows[i].status # "failed"}
Completed  == {i \in DOMAIN rows : rows[i].status = "completed"}
Newest(p)  == CHOOSE i \in RowsFor(p) : \A j \in RowsFor(p) : j <= i

KeyUsed(k) == k # NoKey /\ \E i \in DOMAIN rows : rows[i].key = k

Payable == quote.valid /\ quote.accepted

Insert(row) ==
    /\ Len(rows) < MaxRows
    /\ rows' = Append(rows, row)
    /\ push' = Append(push, "none")

\* openWithin: the review's amount counts every completed leg of the errand;
\* without any there is no review.
OpenWithin(paid) == review' = IF paid = {} THEN review ELSE paid
-----------------------------------------------------------------------------
Init ==
    /\ status = "ACCEPTED"
    /\ quote = [n |-> 1, valid |-> TRUE, accepted |-> TRUE]
    /\ rows = <<>>
    /\ push = <<>>
    /\ request = [s \in Requests |-> Idle]
    /\ results = {}
    /\ review = {}
    /\ ended = FALSE
    /\ aged = 0
    /\ crashes = 0

(***************************************************************************)
(* Quotes, under the errand's row lock.                                    *)
(***************************************************************************)
QuoteExpires ==
    /\ quote.valid
    /\ quote.n < MaxQuotes
    /\ quote' = [quote EXCEPT !.valid = FALSE]
    /\ UNCHANGED <<status, rows, push, request, results, review, ended, aged, crashes>>

\* Mutant of Requote: the requote guard is not registered.
RequoteUnguarded ==
    /\ status = "ACCEPTED"
    /\ ~quote.valid
    /\ quote' = [n |-> quote.n + 1, valid |-> TRUE, accepted |-> FALSE]
    /\ UNCHANGED <<status, rows, push, request, results, review, ended, aged, crashes>>

\* A fresh quote for an expired one, unless its payment is pending or paid.
Requote ==
    /\ status = "ACCEPTED"
    /\ ~quote.valid
    /\ Active(Task) = {}
    /\ quote' = [n |-> quote.n + 1, valid |-> TRUE, accepted |-> FALSE]
    /\ UNCHANGED <<status, rows, push, request, results, review, ended, aged, crashes>>

AcceptQuote ==
    /\ status = "ACCEPTED"
    /\ quote.valid /\ ~quote.accepted
    /\ quote' = [quote EXCEPT !.accepted = TRUE]
    /\ UNCHANGED <<status, rows, push, request, results, review, ended, aged, crashes>>

(***************************************************************************)
(* initiate: checks without a lock, then the rows in a transaction that    *)
(* locks the errand, then the push, then its ids.  A request the checks    *)
(* answer from a stored payment changes nothing.                           *)
(***************************************************************************)
CheckInitiate(s, k) ==
    /\ request[s] = Idle
    /\ ~KeyUsed(k)
    /\ RowsFor(Task) # {} => rows[Newest(Task)].status = "failed"
    /\ Legal(status, "PAYMENT_CONFIRMED", "system", NoGuard)
    /\ Payable
    /\ request' = [request EXCEPT ![s] = [Idle EXCEPT !.step = "checked", !.key = k]]
    /\ UNCHANGED <<status, quote, rows, push, results, review, ended, aged, crashes>>

\* Mutant of InsertPayment: no unique index, so a lost race inserts.
InsertPaymentUnindexed(s) ==
    /\ request[s].step = "checked"
    /\ IF Payable
       THEN /\ Insert(PaymentRow(Task, quote.n, request[s].key))
            /\ request' = [request EXCEPT ![s] = Pushing(@, Len(rows) + 1)]
       ELSE /\ request' = [request EXCEPT ![s] = Idle]
            /\ UNCHANGED <<rows, push>>
    /\ UNCHANGED <<status, quote, results, review, ended, aged, crashes>>

\* payableQuote again, now under the lock; the errand's status is not looked
\* at again.  The unique indexes (the key, one payment not failed) send a
\* lost race back to the payment that won.
InsertPayment(s) ==
    /\ request[s].step = "checked"
    /\ IF Payable /\ Active(Task) = {} /\ ~KeyUsed(request[s].key)
       THEN /\ Insert(PaymentRow(Task, quote.n, request[s].key))
            /\ request' = [request EXCEPT ![s] = Pushing(@, Len(rows) + 1)]
       ELSE /\ request' = [request EXCEPT ![s] = Idle]
            /\ UNCHANGED <<rows, push>>
    /\ UNCHANGED <<status, quote, results, review, ended, aged, crashes>>

\* initiateStk reaches the provider...
PushStk(s) ==
    /\ request[s].step = "push"
    /\ push' = [push EXCEPT ![request[s].row] = "open"]
    /\ request' = [request EXCEPT ![s].step = "remember"]
    /\ UNCHANGED <<status, quote, rows, results, review, ended, aged, crashes>>

\* ...and the checkout ids come back; only with them can the provider be asked.
RememberCheckout(s) ==
    /\ request[s].step = "remember"
    /\ rows' = [rows EXCEPT ![request[s].row].ids = TRUE]
    /\ request' = [request EXCEPT ![s] = Idle]
    /\ UNCHANGED <<status, quote, push, results, review, ended, aged, crashes>>

\* The provider refuses the push or its answer is lost: the request fails, the
\* row stays pending without ids.
LosePush(s) ==
    /\ request[s].step \in {"push", "remember"}
    /\ request' = [request EXCEPT ![s] = Idle]
    /\ UNCHANGED <<status, quote, rows, push, results, review, ended, aged, crashes>>

(***************************************************************************)
(* Price increases on a paid task, charged to Nitume.                      *)
(***************************************************************************)
\* approve records the difference in its transaction, then charges it.
ApproveIncrease(s, d) ==
    /\ request[s] = Idle
    /\ status = "PAYMENT_CONFIRMED"
    /\ RowsFor(d) = {}
    /\ Insert(PaymentRow(d, 0, NoKey))
    /\ request' = [request EXCEPT ![s] = Pushing([Idle EXCEPT !.for = d], Len(rows) + 1)]
    /\ UNCHANGED <<status, quote, results, review, ended, aged, crashes>>

\* retryDifference: the newest row of the increase failed...
CheckRetry(s, d) ==
    /\ request[s] = Idle
    /\ RowsFor(d) # {}
    /\ rows[Newest(d)].status = "failed"
    /\ request' = [request EXCEPT ![s] = [Idle EXCEPT !.step = "retry", !.for = d]]
    /\ UNCHANGED <<status, quote, rows, push, results, review, ended, aged, crashes>>

\* ...so another is written, without a lock or a second look.
InsertRetry(s) ==
    /\ request[s].step = "retry"
    /\ Insert(PaymentRow(request[s].for, 0, NoKey))
    /\ request' = [request EXCEPT ![s] = Pushing(@, Len(rows) + 1)]
    /\ UNCHANGED <<status, quote, results, review, ended, aged, crashes>>

(***************************************************************************)
(* The provider's side of a push.                                          *)
(***************************************************************************)
CustomerPays(i) ==
    /\ push[i] = "open"
    /\ push' = [push EXCEPT ![i] = "paid"]
    /\ UNCHANGED <<status, quote, rows, request, results, review, ended, aged, crashes>>

CustomerDeclines(i) ==
    /\ push[i] = "open"
    /\ push' = [push EXCEPT ![i] = "declined"]
    /\ UNCHANGED <<status, quote, rows, request, results, review, ended, aged, crashes>>

(***************************************************************************)
(* Results.  A callback, or a client that polls, only has the payment      *)
(* verified: verifyPayment asks the provider and, for a paid push, reads   *)
(* whether the errand has ended.  The reconcile job does so for the oldest *)
(* pending rows, those past maxAgeHours aside.                             *)
(***************************************************************************)
\* Mutant of ReadResult: the callback's claim is taken for the result.
ReadClaim(i) ==
    /\ rows[i].status = "pending"
    /\ rows[i].ids
    /\ \E claim \in {"paid", "declined"} :
           results' = results \cup
               {[row |-> i, outcome |-> claim, step |-> "record",
                 ended |-> claim = "paid" /\ status \in RefundableTerminalStatuses]}
    /\ UNCHANGED <<status, quote, rows, push, request, review, ended, aged, crashes>>

\* verifyPayment, up to the provider's final answer.
ReadResult(i) ==
    /\ rows[i].status = "pending"
    /\ rows[i].ids
    /\ push[i] \in {"paid", "declined"}
    /\ results' = results \cup
           {[row |-> i, outcome |-> push[i], step |-> "record",
             ended |-> push[i] = "paid" /\ status \in RefundableTerminalStatuses]}
    /\ UNCHANGED <<status, quote, rows, push, request, review, ended, aged, crashes>>

\* A day passes: a pending row, and the ones before it, are past maxAgeHours.
\* Requests and runs do not last that long.
Age(i) ==
    /\ rows[i].status = "pending"
    /\ i > aged
    /\ \A s \in Requests : request[s] = Idle
    /\ results = {}
    /\ aged' = i
    /\ UNCHANGED <<status, quote, rows, push, request, results, review, ended, crashes>>

Pending == {i \in DOMAIN rows : rows[i].status = "pending"}

\* Mutant of Taken: the newest rows are taken.
TakenNewest == {i \in Pending : Cardinality({j \in Pending : j > i}) < ReconcileLimit}

\* resolveTimedOut's list: the oldest pending rows, whatever their age.
Taken == {i \in Pending : Cardinality({j \in Pending : j < i}) < ReconcileLimit}

\* resolveTimedOut, for one row of its list.
Reconcile(i) ==
    /\ i \in Taken
    /\ i > aged
    /\ ReadResult(i)

\* Mutant of ApplyResult: a result for an errand that has ended is dropped.
ApplyResultUnlessEnded(a) ==
    /\ a.step = "record"
    /\ ~a.ended
    /\ rows' = [rows EXCEPT ![a.row].status =
                   IF a.outcome = "paid" THEN "completed" ELSE "failed"]
    /\ results' = (results \ {a}) \cup
           {b \in {[a EXCEPT !.step = "confirm"]} : a.outcome = "paid" /\ rows[a.row].for = Task}
    /\ UNCHANGED <<status, quote, push, request, review, ended, aged, crashes>>

\* applyResult: the row and, on an errand read as ended, the review, in one
\* transaction.  The main payment then goes on to confirm the errand.
ApplyResult(a) ==
    /\ a.step = "record"
    /\ rows' = [rows EXCEPT ![a.row].status =
                   IF a.outcome = "paid" THEN "completed" ELSE "failed"]
    /\ IF a.ended THEN OpenWithin(Completed \cup {a.row}) ELSE UNCHANGED review
    /\ results' = (results \ {a}) \cup
           {b \in {[a EXCEPT !.step = "confirm"]} :
               a.outcome = "paid" /\ ~a.ended /\ rows[a.row].for = Task}
    /\ UNCHANGED <<status, quote, push, request, ended, aged, crashes>>

\* Mutant of ConfirmErrand: an errand that ended meanwhile is left alone.
ConfirmErrandUnlessEnded(a) ==
    /\ a.step = "confirm"
    /\ results' = (results \ {a}) \cup
           {b \in {[a EXCEPT !.step = "transition"]} :
               Legal(status, "PAYMENT_CONFIRMED", "system", NoGuard)}
    /\ UNCHANGED <<status, quote, rows, push, request, review, ended, aged, crashes>>

\* confirmErrandAfterPayment reads the errand: ended meanwhile, the review is
\* opened or refreshed; payable, it goes on to the transition.
ConfirmErrand(a) ==
    /\ a.step = "confirm"
    /\ IF status \in RefundableTerminalStatuses THEN OpenWithin(Completed) ELSE UNCHANGED review
    /\ results' = (results \ {a}) \cup
           {b \in {[a EXCEPT !.step = "transition"]} :
               Legal(status, "PAYMENT_CONFIRMED", "system", NoGuard)}
    /\ UNCHANGED <<status, quote, rows, push, request, ended, aged, crashes>>

\* Mutant of TransitionPaid: an error ends the run before the transition.
TransitionPaidNever(a) ==
    /\ a.step = "transition"
    /\ results' = results \ {a}
    /\ UNCHANGED <<status, quote, rows, push, request, review, ended, aged, crashes>>

\* The transition, checked again under the errand's lock.
TransitionPaid(a) ==
    /\ a.step = "transition"
    /\ status' = IF Legal(status, "PAYMENT_CONFIRMED", "system", NoGuard)
                 THEN "PAYMENT_CONFIRMED" ELSE status
    /\ results' = results \ {a}
    /\ UNCHANGED <<quote, rows, push, request, review, ended, aged, crashes>>

(***************************************************************************)
(* The errand ends, and an admin confirms one paid outside STK.            *)
(***************************************************************************)
AdminConfirm ==
    /\ Legal(status, "PAYMENT_CONFIRMED", "admin", NoGuard)
    /\ status' = "PAYMENT_CONFIRMED"
    /\ UNCHANGED <<quote, rows, push, request, results, review, ended, aged, crashes>>

\* The transition opens the review of what has been paid by then.
End ==
    /\ \/ /\ status = "ACCEPTED"
          /\ Legal(status, "CANCELLED", "customer", NoGuard)
          /\ status' = "CANCELLED"
       \/ /\ status = "PAYMENT_CONFIRMED"
          /\ Legal(status, "EXPIRED", "admin", "admin_expiry")
          /\ status' = "EXPIRED"
    /\ OpenWithin(Completed)
    /\ ended' = TRUE
    /\ UNCHANGED <<quote, rows, push, request, results, aged, crashes>>

\* onStatusChanged, after the commit: the backstop.
HandleEnded ==
    /\ ended
    /\ OpenWithin(Completed)
    /\ ended' = FALSE
    /\ UNCHANGED <<status, quote, rows, push, request, results, aged, crashes>>

\* The API restarts: requests, runs and events are lost, the rows stay.
Crash ==
    /\ crashes < MaxCrashes
    /\ crashes' = crashes + 1
    /\ request' = [s \in Requests |-> Idle]
    /\ results' = {}
    /\ ended' = FALSE
    /\ UNCHANGED <<status, quote, rows, push, review, aged>>
-----------------------------------------------------------------------------
RequestNext(s) ==
    \/ \E k \in Keys \cup {NoKey} : CheckInitiate(s, k)
    \/ InsertPayment(s) \/ PushStk(s) \/ RememberCheckout(s) \/ LosePush(s)
    \/ \E d \in Increases : ApproveIncrease(s, d) \/ CheckRetry(s, d)
    \/ InsertRetry(s)

ResultNext(a) == ApplyResult(a) \/ ConfirmErrand(a) \/ TransitionPaid(a)

Next ==
    \/ QuoteExpires \/ Requote \/ AcceptQuote
    \/ \E s \in Requests : RequestNext(s)
    \/ \E i \in DOMAIN rows : CustomerPays(i) \/ CustomerDeclines(i)
    \/ \E i \in DOMAIN rows : ReadResult(i) \/ Reconcile(i) \/ Age(i)
    \/ \E a \in results : ResultNext(a)
    \/ AdminConfirm \/ End \/ HandleEnded
    \/ Crash

Spec == Init /\ [][Next]_vars

\* The reconcile job repeats and comes to every row of its list that is young
\* enough, and a run that has begun goes on unless the API stops.  Nothing is
\* assumed of clients, customers or callbacks.
Fairness ==
    /\ \A i \in 1..MaxRows : WF_vars(Reconcile(i))
    /\ WF_vars(\E a \in results : ResultNext(a))
    /\ WF_vars(HandleEnded)

FairSpec == Spec /\ Fairness
-----------------------------------------------------------------------------
(***************************************************************************)
(* Properties.                                                             *)
(***************************************************************************)
PaymentRows == [for : Increases \cup {Task}, status : PaymentStatuses, quote : 0..MaxQuotes,
                key : Keys \cup {NoKey}, ids : BOOLEAN]

RequestRows == [step : {"idle", "checked", "retry", "push", "remember"},
                for : Increases \cup {Task}, key : Keys \cup {NoKey}, row : 0..MaxRows]

ResultRows == [row : 1..MaxRows, outcome : {"paid", "declined"}, ended : BOOLEAN,
               step : {"record", "confirm", "transition"}]

\* Every row, request and result has a value the code can write, a request
\* past its insert names a row, and no Idempotency-Key is stored twice.
TypeOK ==
    /\ status \in PayableStatuses
    /\ quote \in [n : 1..MaxQuotes, valid : BOOLEAN, accepted : BOOLEAN]
    /\ rows \in Seq(PaymentRows) /\ Len(rows) <= MaxRows
    /\ push \in Seq({"none", "open", "paid", "declined"}) /\ Len(push) = Len(rows)
    /\ \A i, j \in DOMAIN rows : rows[i].key = rows[j].key => i = j \/ rows[i].key = NoKey
    /\ request \in [Requests -> RequestRows]
    /\ \A s \in Requests : request[s].step \in {"push", "remember"} => request[s].row \in DOMAIN rows
    /\ results \subseteq ResultRows
    /\ \A a \in results : a.row \in DOMAIN rows
    /\ review \subseteq DOMAIN rows
    /\ ended \in BOOLEAN
    /\ aged \in 0..MaxRows
    /\ crashes \in 0..MaxCrashes

\* "A new push only happens after a FAILED result": the customer never has
\* two live or paid charges of the task at the provider, through timeouts,
\* repeated and concurrent initiates, lost answers and restarts.
TaskChargedOnce ==
    \A i, j \in RowsFor(Task) :
        push[i] \in {"open", "paid"} /\ push[j] \in {"open", "paid"} => i = j

\* Row 73: nothing is marked paid, or failed and payable again, on a
\* callback's word: a final row says what the provider says.
ResultsAreTheProviders ==
    \A i \in DOMAIN rows :
        /\ rows[i].status = "completed" => push[i] = "paid"
        /\ rows[i].status = "failed" => push[i] = "declined"

\* Row 72: the payment that is pending or paid was taken against the quote
\* that is still the newest, whatever re-quotes ran beside it.
PaymentOfNewestQuote ==
    \A i \in Active(Task) : rows[i].quote = quote.n

Quiet == results = {} /\ ~ended

\* Rows 37, 102: once nothing is in flight, an ended errand whose charge went
\* through has a refund review that counts it, wherever the end fell between
\* the push, the result and the confirmation; unless the API restarted.
EndedPaidTaskInReview ==
    Quiet /\ crashes = 0 /\ status \in RefundableTerminalStatuses
        => Completed \cap RowsFor(Task) \subseteq review

\* The job's list is taken up by older rows it does not resolve: past
\* maxAgeHours, without checkout ids, or not final at the provider.
Unresolvable(i) == i <= aged \/ ~rows[i].ids \/ push[i] \notin {"paid", "declined"}

Starved(i) ==
    Cardinality({j \in Pending : j < i /\ Unresolvable(j)}) >= ReconcileLimit

\* Row 52: a push the customer paid is recorded, whatever became of its
\* callback and of the errand, and after a restart, once its ids are stored.
\* What stands in its way is its age, or older rows that fill the job's list.
PaidPushesRecorded ==
    \A i \in 1..MaxRows :
        i \in DOMAIN rows /\ rows[i].ids /\ push[i] = "paid"
            ~> i \in Completed \/ i <= aged \/ Starved(i)

\* A paid errand does not stay ACCEPTED, unless the API restarted.
PaidTaskMovesOn ==
    Completed \cap RowsFor(Task) # {} /\ status = "ACCEPTED"
        ~> status # "ACCEPTED" \/ crashes > 0

(***************************************************************************)
(* Claims of the repository that the code does not keep.                   *)
(***************************************************************************)

\* resolveTimedOut: "tries to resolve every payment still pending past the STK
\* timeout (and younger than `maxAgeHours`)."  The oldest 50 pending rows are
\* taken before the old ones among them are skipped.
YoungPaidPushesRecorded ==
    \A i \in 1..MaxRows :
        i \in DOMAIN rows /\ rows[i].ids /\ push[i] = "paid"
            ~> i \in Completed \/ i <= aged

\* retryDifference: "A pending, timed-out or paid difference is returned as
\* is (no second push)."
IncreaseChargedOnce ==
    \A d \in Increases : \A i, j \in RowsFor(d) :
        push[i] \in {"open", "paid"} /\ push[j] \in {"open", "paid"} => i = j

\* applyResult: "A payment that completes after the task was cancelled ...
\* opens its refund review in the same transaction ..., so a failure cannot
\* leave paid legs without a review".
PaidLegsInReview ==
    Quiet /\ status \in RefundableTerminalStatuses => Completed \subseteq review
=============================================================================
