----------------------------- MODULE PayoutRequests -----------------------------
(***************************************************************************)
(* A runner asks to be paid out and ops pay whole lines on the request     *)
(* (runner-payout-requests.service.ts).  The request is made behind an     *)
(* Idempotency-Key in Redis, a reservation and an answer in two commands;  *)
(* the payment reads the lines before it locks them, beside the reviews,   *)
(* holds and payouts of the ledger.  One runner: nothing is shared with    *)
(* another's.                                                              *)
(***************************************************************************)
EXTENDS Naturals, Sequences, FiniteSetsExt

CONSTANTS
    Lines,          \* the runner's payout lines
    MostOf,         \* MostOf[l]: the largest amount line l may be approved for
    Calls,          \* create calls that can run at once
    Keys,           \* Idempotency-Keys the runner's app sends
    NoKey,          \* a call without one
    Asked,          \* amounts it asks for
    MinimumAmount,  \* smallest payout request
    MaxRequests,    \* bound on requests
    MaxLapses       \* bound on keys Redis loses, and on restarts

ASSUME RequestsAssumption ==
    /\ MostOf \in [Lines -> Nat] /\ NoKey \notin Keys
    /\ Asked \subseteq Nat /\ MinimumAmount \in Nat
    /\ MaxRequests \in Nat /\ MaxLapses \in Nat

VARIABLES
    line,       \* line[l]: status, amount, and the request it was paid on
    requests,   \* runner_payout_requests, oldest first
    stored,     \* stored[k]: what Redis holds for the key
    call,       \* call[c]: a create on its way
    paying,     \* a payment that read its lines, holding the request's lock
    answered,   \* requests returned for a replayed key, as asked for
    unreserved, \* keys a call used that it found taken and then gone
    lapses

vars == <<line, requests, stored, call, paying, answered, unreserved, lapses>>

Nothing == [state |-> "none", amount |-> 0, id |-> 0]
Pending(n) == [state |-> "pending", amount |-> n, id |-> 0]
Answer(n, id) == [state |-> "id", amount |-> n, id |-> id]

Idle == [step |-> "idle", key |-> NoKey, amount |-> 0, id |-> 0]
NoPayment == [on |-> 0, lines |-> {}]

Sum(S) == SumFunction([l \in S |-> line[l].amount])
Payable == {l \in Lines : line[l].status = "payable"}
Open == {i \in DOMAIN requests : requests[i].status = "requested"}

Init ==
    /\ line = [l \in Lines |-> [status |-> "on_hold", amount |-> 0, request |-> 0]]
    /\ requests = <<>>
    /\ stored = [k \in Keys |-> Nothing]
    /\ call = [c \in Calls |-> Idle]
    /\ paying = NoPayment
    /\ answered = {}
    /\ unreserved = {}
    /\ lapses = 0

RequestUnchanged == UNCHANGED <<requests, stored, call, paying, answered, unreserved, lapses>>
-----------------------------------------------------------------------------
(* The ledger beside the requests. *)

Approve(l, n) ==
    /\ line[l].status = "on_hold" /\ n \in 1..MostOf[l]
    /\ line' = [line EXCEPT ![l].status = "payable", ![l].amount = n]
    /\ RequestUnchanged

Hold(l) ==
    /\ line[l].status = "payable"
    /\ line' = [line EXCEPT ![l].status = "on_hold", ![l].amount = 0]
    /\ RequestUnchanged

\* markPaidIn: every line locked and payable; the request it is paid on, if any.
PaidOn(S, i) ==
    [l \in Lines |-> IF l \in S THEN [line[l] EXCEPT !.status = "paid", !.request = i] ELSE line[l]]

MarkPaid(S) ==
    /\ S # {} /\ S \subseteq Payable
    /\ line' = PaidOn(S, 0)
    /\ RequestUnchanged
-----------------------------------------------------------------------------
(* create: reserve the key, insert under the runner's lock, store the id.  *)

\* SET NX: the key is this call's, or the call goes on to read it.
Reserve(c, k, n) ==
    /\ call[c] = Idle
    /\ LET next == [Idle EXCEPT !.key = k, !.amount = n] IN
       IF stored[k] = Nothing
       THEN /\ stored' = [stored EXCEPT ![k] = Pending(n)]
            /\ call' = [call EXCEPT ![c] = [next EXCEPT !.step = "create"]]
       ELSE /\ call' = [call EXCEPT ![c] = [next EXCEPT !.step = "read"]]
            /\ UNCHANGED stored
    /\ UNCHANGED <<line, requests, paying, answered, unreserved, lapses>>

\* A call without a key.
Unkeyed(c, n) ==
    /\ call[c] = Idle
    /\ call' = [call EXCEPT ![c] = [Idle EXCEPT !.step = "create", !.amount = n]]
    /\ UNCHANGED <<line, requests, stored, paying, answered, unreserved, lapses>>

\* GET: the request the key made or a refusal (another amount, still running).
\* When the key is gone by now, or reading it or its request fails, the call
\* goes on as if it had reserved the key.
ReadKey(c) ==
    LET k == call[c].key IN
    /\ call[c].step = "read"
    /\ \/ /\ call' = [call EXCEPT ![c].step = "create"]
          /\ unreserved' = unreserved \union {k}
          /\ UNCHANGED answered
       \/ /\ stored[k] # Nothing
          /\ call' = [call EXCEPT ![c] = Idle]
          /\ answered' = IF stored[k].state = "id" /\ stored[k].amount = call[c].amount
                         THEN answered \union {<<k, call[c].amount, stored[k].id>>}
                         ELSE answered
          /\ UNCHANGED unreserved
    /\ UNCHANGED <<line, requests, stored, paying, lapses>>

\* createLocked, under the runner's lock: one open request, at least the
\* minimum, at most the payable lines.
Acceptable(n) == Open = {} /\ n >= MinimumAmount /\ n <= Sum(Payable)

CreateLocked(c) ==
    LET n == call[c].amount IN
    /\ call[c].step = "create"
    /\ IF Acceptable(n)
       THEN /\ Len(requests) < MaxRequests
            /\ requests' = Append(requests, [key |-> call[c].key, amount |-> n,
                                             status |-> "requested", paid |-> 0])
            /\ call' = [call EXCEPT ![c].step = "store", ![c].id = Len(requests) + 1]
       ELSE /\ call' = [call EXCEPT ![c].step = "release"]
            /\ UNCHANGED requests
    /\ UNCHANGED <<line, stored, paying, answered, unreserved, lapses>>

Kept(k, value) == IF k = NoKey THEN stored ELSE [stored EXCEPT ![k] = value]

\* Mutant of Store: the key is released once the request is made.
StoreNothing(c) ==
    /\ call[c].step = "store"
    /\ stored' = Kept(call[c].key, Nothing)
    /\ call' = [call EXCEPT ![c] = Idle]
    /\ UNCHANGED <<line, requests, paying, answered, unreserved, lapses>>

Store(c) ==
    /\ call[c].step = "store"
    /\ stored' = Kept(call[c].key, Answer(call[c].amount, call[c].id))
    /\ call' = [call EXCEPT ![c] = Idle]
    /\ UNCHANGED <<line, requests, paying, answered, unreserved, lapses>>

\* A refused call releases the key, its own or not.
Release(c) ==
    /\ call[c].step = "release"
    /\ stored' = Kept(call[c].key, Nothing)
    /\ call' = [call EXCEPT ![c] = Idle]
    /\ UNCHANGED <<line, requests, paying, answered, unreserved, lapses>>

\* The key's time is over, or Redis lost it or, for a call, is down.
Lapse(k) ==
    /\ lapses < MaxLapses
    /\ stored[k] # Nothing
    /\ stored' = [stored EXCEPT ![k] = Nothing]
    /\ lapses' = lapses + 1
    /\ UNCHANGED <<line, requests, call, paying, answered, unreserved>>

\* A restart between the commit and the stored id, or anywhere else.
Restart ==
    /\ lapses < MaxLapses
    /\ \E c \in Calls : call[c] # Idle
    /\ call' = [c \in Calls |-> Idle]
    /\ paying' = NoPayment
    /\ lapses' = lapses + 1
    /\ UNCHANGED <<line, requests, stored, answered, unreserved>>
-----------------------------------------------------------------------------
(* pay: the request's row locked and open, the lines read without a lock.  *)

ReadLines(i, S) ==
    /\ paying = NoPayment
    /\ i \in Open /\ S # {}
    /\ Sum(S \intersect Payable) <= requests[i].amount
    /\ paying' = [on |-> i, lines |-> S]
    /\ UNCHANGED <<line, requests, stored, call, answered, unreserved, lapses>>

\* The table's CHECK on the paid amount.
CheckAmounts(n, i) == n > 0 /\ n <= requests[i].amount

\* Mutant of PayLines: the table has no CHECK.
PayLinesUnchecked ==
    LET i == paying.on S == paying.lines IN
    /\ paying # NoPayment
    /\ paying' = NoPayment
    /\ IF S \subseteq Payable
       THEN /\ line' = PaidOn(S, i)
            /\ requests' = [requests EXCEPT ![i].status = "paid", ![i].paid = Sum(S)]
       ELSE UNCHANGED <<line, requests>>
    /\ UNCHANGED <<stored, call, answered, unreserved, lapses>>

\* The lines locked: all payable and, by the CHECK, within the request, or the
\* transaction rolls back.
PayLines ==
    LET i == paying.on S == paying.lines IN
    /\ paying # NoPayment
    /\ paying' = NoPayment
    /\ IF S \subseteq Payable /\ CheckAmounts(Sum(S), i)
       THEN /\ line' = PaidOn(S, i)
            /\ requests' = [requests EXCEPT ![i].status = "paid", ![i].paid = Sum(S)]
       ELSE UNCHANGED <<line, requests>>
    /\ UNCHANGED <<stored, call, answered, unreserved, lapses>>

\* reject and cancel, under the request's lock: one status here, both are
\* final and pay nothing.
Close(i) ==
    /\ paying = NoPayment
    /\ i \in Open
    /\ requests' = [requests EXCEPT ![i].status = "closed"]
    /\ UNCHANGED <<line, stored, call, paying, answered, unreserved, lapses>>
-----------------------------------------------------------------------------
Next ==
    \/ \E l \in Lines : Hold(l) \/ \E n \in 1..MostOf[l] : Approve(l, n)
    \/ \E S \in SUBSET Lines : MarkPaid(S)
    \/ \E c \in Calls, k \in Keys, n \in Asked : Reserve(c, k, n)
    \/ \E c \in Calls, n \in Asked : Unkeyed(c, n)
    \/ \E c \in Calls : ReadKey(c) \/ CreateLocked(c) \/ Store(c) \/ Release(c)
    \/ \E k \in Keys : Lapse(k)
    \/ Restart
    \/ \E i \in Open, S \in SUBSET Lines : ReadLines(i, S)
    \/ PayLines
    \/ \E i \in Open : Close(i)

Spec == Init /\ [][Next]_vars
-----------------------------------------------------------------------------
\* A paid request is worth the lines paid on it, at most what was asked for,
\* and no line is paid on another: whatever was approved, held or paid while
\* the payment read its lines (pay, markPaidIn, the CHECKs).
PaidWithinRequest ==
    /\ \A i \in DOMAIN requests :
           LET on == {l \in Lines : line[l].request = i} IN
           IF requests[i].status = "paid"
           THEN on # {} /\ requests[i].paid = Sum(on) /\ requests[i].paid <= requests[i].amount
           ELSE on = {}
    /\ \A l \in Lines : line[l].request # 0 => line[l].status = "paid"

\* A key makes one request, through retries and refusals, unless Redis lost the
\* key, the API restarted, or a call used a key it had not reserved; and a
\* replay is always answered with a request its key made, for the same amount.
KeyMakesOneRequest ==
    /\ \A a \in answered : requests[a[3]].key = a[1] /\ requests[a[3]].amount = a[2]
    /\ lapses = 0 => \A i, j \in DOMAIN requests :
           requests[i].key = requests[j].key /\ requests[i].key \notin unreserved \union {NoKey} => i = j

\* "A replay with the same amount returns the request it created": also for
\* the key a call found taken and then gone.
ReplayMakesNoRequest ==
    lapses = 0 => \A i, j \in DOMAIN requests :
        requests[i].key = requests[j].key /\ requests[i].key # NoKey => i = j
================================================================================
