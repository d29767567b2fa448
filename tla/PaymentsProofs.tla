--------------------------- MODULE PaymentsProofs ---------------------------
(***************************************************************************)
(* Payments of one errand, for any number of concurrent requests, keys,    *)
(* price increases, quotes, payment rows and restarts: the customer is     *)
(* never charged twice for the task, final rows say what the provider      *)
(* says, and the live payment is of the newest quote.                      *)
(*                                                                         *)
(* None of these is inductive alone.  A second charge is ruled out because *)
(* the one row not failed is the only one whose push can be live, which    *)
(* needs every failed row to be declined at the provider; that needs every *)
(* result in flight to be the provider's final one, which needs a push to  *)
(* be sent once, by the request that wrote its row.                        *)
(***************************************************************************)
EXTENDS Payments, SequenceTheorems, TLAPS

PushStates == {"none", "open", "paid", "declined"}

\* A quote expires only when another may follow.
QuoteInv == ~quote.valid => quote.n < MaxQuotes

\* A row waits for its push with one request, which has not sent it; what is
\* retried is a price increase.
RequestInv ==
    /\ \A s \in Requests : request[s].step = "push" => push[request[s].row] = "none"
    /\ \A s, t \in Requests :
           /\ request[s].step = "push"
           /\ request[t].step = "push"
           /\ request[s].row = request[t].row
           => s = t
    /\ \A s \in Requests : request[s].step = "retry" => request[s].for \in Increases

\* A result in flight is the provider's, which does not change any more.
ResultInv == \A a \in results : a.outcome = push[a.row]

\* One payment of the task is not failed.
OneActive == \A i, j \in Active(Task) : i = j

IInv ==
    /\ TypeOK
    /\ QuoteInv
    /\ RequestInv
    /\ ResultInv
    /\ ResultsAreTheProviders
    /\ OneActive
    /\ PaymentOfNewestQuote
-----------------------------------------------------------------------------
\* The first state has no payment and nothing in flight.
LEMMA InitIInv == Init => IInv
<1> SUFFICES ASSUME Init PROVE IInv
    OBVIOUS
<1> USE PaymentsAssumption DEF Init
<1>1. rows \in Seq(PaymentRows) /\ push \in Seq(PushStates) /\ DOMAIN rows = {}
  OBVIOUS
<1>2. TypeOK
  <2>1. quote \in [n : 1..MaxQuotes, valid : BOOLEAN, accepted : BOOLEAN]
    OBVIOUS
  <2>2. Len(rows) = 0 /\ Len(push) = 0 /\ Len(rows) <= MaxRows
    OBVIOUS
  <2>3. request \in [Requests -> RequestRows]
    BY DEF RequestRows, Idle
  <2>4. status \in PayableStatuses /\ results \subseteq ResultRows /\ aged \in 0..MaxRows /\ crashes \in 0..MaxCrashes
    BY DEF PayableStatuses
  <2> QED
    BY <1>1, <2>1, <2>2, <2>3, <2>4 DEF TypeOK, PushStates, Idle
<1>3. QuoteInv /\ RequestInv /\ ResultInv
  BY DEF QuoteInv, RequestInv, ResultInv, Idle
<1>4. ResultsAreTheProviders /\ OneActive /\ PaymentOfNewestQuote
  BY <1>1 DEF ResultsAreTheProviders, OneActive, PaymentOfNewestQuote, Active, RowsFor
<1> QED
  BY <1>2, <1>3, <1>4 DEF IInv

-----------------------------------------------------------------------------
\* What a new payment row leaves behind.
LEMMA InsertRow ==
    ASSUME TypeOK, NEW row \in PaymentRows, Insert(row)
    PROVE  /\ rows' \in Seq(PaymentRows) /\ push' \in Seq(PushStates)
           /\ Len(rows') = Len(rows) + 1 /\ Len(push') = Len(rows') /\ Len(rows') <= MaxRows
           /\ DOMAIN rows = 1..Len(rows) /\ DOMAIN rows' = 1..(Len(rows) + 1)
           /\ \A i \in DOMAIN rows : rows'[i] = rows[i] /\ push'[i] = push[i]
           /\ rows'[Len(rows) + 1] = row /\ push'[Len(rows) + 1] = "none"
<1> USE PaymentsAssumption
<1>1. rows \in Seq(PaymentRows) /\ push \in Seq(PushStates) /\ Len(push) = Len(rows)
  BY DEF TypeOK, PushStates
<1>2. rows' = Append(rows, row) /\ push' = Append(push, "none") /\ Len(rows) < MaxRows
  BY DEF Insert
<1>3. Len(rows) \in Nat
  BY <1>1, LenProperties
<1> QED
  BY <1>1, <1>2, <1>3, AppendProperties, LenProperties DEF PushStates

\* What a change of one row leaves behind.
LEMMA UpdateRow ==
    ASSUME TypeOK, NEW i \in DOMAIN rows, NEW row \in PaymentRows,
           rows' = [rows EXCEPT ![i] = row]
    PROVE  /\ rows' \in Seq(PaymentRows) /\ Len(rows') = Len(rows) /\ DOMAIN rows' = DOMAIN rows
           /\ rows'[i] = row /\ \A j \in DOMAIN rows \ {i} : rows'[j] = rows[j]
BY ExceptSeq, LenProperties DEF TypeOK

\* What a change at the provider leaves behind.
LEMMA UpdatePush ==
    ASSUME TypeOK, NEW i \in DOMAIN rows, NEW p \in PushStates,
           push' = [push EXCEPT ![i] = p]
    PROVE  /\ push' \in Seq(PushStates) /\ Len(push') = Len(rows)
           /\ push'[i] = p /\ \A j \in DOMAIN rows \ {i} : push'[j] = push[j]
<1>1. push \in Seq(PushStates) /\ rows \in Seq(PaymentRows) /\ Len(push) = Len(rows)
  BY DEF TypeOK, PushStates
<1>2. DOMAIN push = DOMAIN rows
  BY <1>1, LenProperties
<1> QED
  BY <1>1, <1>2, ExceptSeq, LenProperties

-----------------------------------------------------------------------------
\* A new row keeps the invariant: pending, with its request about to push, a
\* key of its own and, when it charges the task, the only one not failed.
LEMMA InsertStep ==
    ASSUME IInv, NEW s \in Requests, NEW row \in PaymentRows, NEW r \in RequestRows,
           Insert(row), row.status = "pending", ~KeyUsed(row.key),
           row.for = Task => Active(Task) = {} /\ row.quote = quote.n,
           request' = [request EXCEPT ![s] = r], r.step = "push", r.row = Len(rows) + 1,
           UNCHANGED <<status, quote, results, review, ended, aged, crashes>>
    PROVE  IInv'
<1>1. TypeOK
  BY DEF IInv
<1>2. /\ rows' \in Seq(PaymentRows) /\ push' \in Seq(PushStates)
      /\ Len(rows') = Len(rows) + 1 /\ Len(push') = Len(rows') /\ Len(rows') <= MaxRows
      /\ DOMAIN rows = 1..Len(rows) /\ DOMAIN rows' = 1..(Len(rows) + 1)
      /\ \A i \in DOMAIN rows : rows'[i] = rows[i] /\ push'[i] = push[i]
      /\ rows'[Len(rows) + 1] = row /\ push'[Len(rows) + 1] = "none"
  BY <1>1, InsertRow
<1>3. Len(rows) \in Nat
  BY <1>1, LenProperties DEF TypeOK
<1>4. /\ request' \in [Requests -> RequestRows]
      /\ request'[s] = r /\ \A t \in Requests \ {s} : request'[t] = request[t]
  BY <1>1 DEF TypeOK
<1>5. DOMAIN rows' = DOMAIN rows \cup {Len(rows) + 1} /\ Len(rows) + 1 \notin DOMAIN rows
  BY <1>2, <1>3
<1>6. TypeOK'
  <2>1. \A i, j \in DOMAIN rows' :
            rows'[i].key = rows'[j].key => i = j \/ rows'[i].key = NoKey
    <3>1. \A i \in DOMAIN rows : rows[i].key = row.key => row.key = NoKey
      BY DEF KeyUsed
    <3> QED
      BY <1>1, <1>2, <1>5, <3>1 DEF TypeOK
  <2>2. \A t \in Requests :
            request'[t].step \in {"push", "remember"} => request'[t].row \in DOMAIN rows'
    BY <1>1, <1>4, <1>5 DEF TypeOK
  <2>3. (\A a \in results' : a.row \in DOMAIN rows') /\ review' \subseteq DOMAIN rows'
    BY <1>1, <1>5 DEF TypeOK
  <2> QED
    BY <1>1, <1>2, <1>4, <2>1, <2>2, <2>3 DEF TypeOK, PushStates
<1>7. QuoteInv'
  BY DEF IInv, QuoteInv
<1>8. RequestInv'
  <2>1. \A t \in Requests : request[t].step = "push" => request[t].row \in DOMAIN rows
    BY <1>1 DEF TypeOK
  <2>2. \A t \in Requests : request'[t].step = "push" => push'[request'[t].row] = "none"
    BY <1>2, <1>4, <2>1 DEF IInv, RequestInv
  <2>3. \A t, u \in Requests :
            /\ request'[t].step = "push"
            /\ request'[u].step = "push"
            /\ request'[t].row = request'[u].row
            => t = u
    BY <1>4, <1>5, <2>1 DEF IInv, RequestInv
  <2>4. \A t \in Requests : request'[t].step = "retry" => request'[t].for \in Increases
    BY <1>4 DEF IInv, RequestInv
  <2> QED
    BY <2>2, <2>3, <2>4 DEF RequestInv
<1>9. ResultInv'
  BY <1>1, <1>2 DEF IInv, ResultInv, TypeOK
<1>10. ResultsAreTheProviders'
  BY <1>2, <1>5 DEF IInv, ResultsAreTheProviders
<1>11. Active(Task)' = Active(Task) \cup {i \in {Len(rows) + 1} : row.for = Task}
  BY <1>2, <1>5 DEF Active, RowsFor
<1>12. OneActive' /\ PaymentOfNewestQuote'
  <2>1. CASE row.for = Task
    <3>1. Active(Task)' = {Len(rows) + 1}
      BY <1>11, <2>1
    <3> QED
      BY <1>2, <2>1, <3>1 DEF OneActive, PaymentOfNewestQuote
  <2>2. CASE row.for # Task
    <3>1. Active(Task)' = Active(Task) /\ Active(Task) \subseteq DOMAIN rows
      BY <1>11, <2>2 DEF Active, RowsFor
    <3> QED
      BY <1>2, <3>1 DEF IInv, OneActive, PaymentOfNewestQuote
  <2> QED
    BY <2>1, <2>2
<1> QED
  BY <1>6, <1>7, <1>8, <1>9, <1>10, <1>12 DEF IInv

\* A request that writes nothing, or gives up, keeps the invariant.
LEMMA RequestStep ==
    ASSUME IInv, NEW s \in Requests, NEW r \in RequestRows,
           request' = [request EXCEPT ![s] = r], r.step \notin {"push", "remember"},
           r.step = "retry" => r.for \in Increases,
           UNCHANGED <<status, quote, rows, push, results, review, ended, aged, crashes>>
    PROVE  IInv'
<1>1. TypeOK
  BY DEF IInv
<1>2. /\ request' \in [Requests -> RequestRows]
      /\ request'[s] = r /\ \A t \in Requests \ {s} : request'[t] = request[t]
  BY <1>1 DEF TypeOK
<1>3. TypeOK'
  BY <1>1, <1>2 DEF TypeOK
<1>4. RequestInv'
  BY <1>2 DEF IInv, RequestInv
<1> QED
  BY <1>3, <1>4 DEF IInv, QuoteInv, ResultInv, ResultsAreTheProviders, OneActive,
                    PaymentOfNewestQuote, Active, RowsFor

\* A change at the provider keeps the invariant when the push is not final
\* and, once sent, is no longer any request's to send.
LEMMA PushStep ==
    ASSUME IInv, NEW i \in DOMAIN rows, NEW p \in PushStates,
           push' = [push EXCEPT ![i] = p], push[i] \notin {"paid", "declined"},
           request' \in [Requests -> RequestRows],
           \A s \in Requests : request'[s].row = request[s].row
                /\ (request'[s].step = "push" => request[s].step = "push" /\ request[s].row # i)
                /\ (request'[s].step = "remember" => request[s].step \in {"push", "remember"})
                /\ (request'[s].step = "retry" => request'[s] = request[s]),
           \A a \in results : a.row # i,
           UNCHANGED <<status, quote, rows, results, review, ended, aged, crashes>>
    PROVE  IInv'
<1>1. TypeOK
  BY DEF IInv
<1>2. /\ push' \in Seq(PushStates) /\ Len(push') = Len(rows)
      /\ push'[i] = p /\ \A j \in DOMAIN rows \ {i} : push'[j] = push[j]
  BY <1>1, UpdatePush
<1>3. TypeOK'
  <2>1. \A s \in Requests :
            request'[s].step \in {"push", "remember"} => request'[s].row \in DOMAIN rows'
    BY <1>1 DEF TypeOK
  <2> QED
    BY <1>1, <1>2, <2>1 DEF TypeOK, PushStates
<1>4. RequestInv'
  <2>1. \A s \in Requests : request[s].step = "push" => request[s].row \in DOMAIN rows
    BY <1>1 DEF TypeOK
  <2> QED
    BY <1>2, <2>1 DEF IInv, RequestInv
<1>5. ResultInv'
  BY <1>1, <1>2 DEF IInv, ResultInv, TypeOK
<1>6. ResultsAreTheProviders'
  <2>1. rows[i].status \notin {"completed", "failed"}
    BY DEF IInv, ResultsAreTheProviders
  <2> QED
    BY <1>2, <2>1 DEF IInv, ResultsAreTheProviders
<1> QED
  BY <1>3, <1>4, <1>5, <1>6
     DEF IInv, QuoteInv, OneActive, PaymentOfNewestQuote, Active, RowsFor

\* So does every step that leaves rows, pushes, requests and results alone
\* and the quote of a live payment the newest.
LEMMA ErrandStep ==
    ASSUME IInv, UNCHANGED <<rows, push, request, results, aged, crashes>>,
           status' \in PayableStatuses, ended' \in BOOLEAN, review' \subseteq DOMAIN rows,
           quote' \in [n : 1..MaxQuotes, valid : BOOLEAN, accepted : BOOLEAN],
           ~quote'.valid => quote'.n < MaxQuotes,
           quote'.n = quote.n \/ Active(Task) = {}
    PROVE  IInv'
<1>1. TypeOK'
  BY DEF IInv, TypeOK
<1>2. Active(Task)' = Active(Task)
  BY DEF Active, RowsFor
<1>3. OneActive' /\ PaymentOfNewestQuote'
  BY <1>2 DEF IInv, OneActive, PaymentOfNewestQuote
<1> QED
  BY <1>1, <1>3 DEF IInv, QuoteInv, RequestInv, ResultInv, ResultsAreTheProviders

\* A change of one row keeps the invariant when the row keeps what it is for
\* and follows the provider, and what stays in flight does too.
LEMMA RowStep ==
    ASSUME IInv, NEW i \in DOMAIN rows, NEW row \in PaymentRows,
           rows' = [rows EXCEPT ![i] = row],
           row.for = rows[i].for, row.key = rows[i].key, row.quote = rows[i].quote,
           row.status # "failed" => rows[i].status # "failed",
           row.status = "completed" => push[i] = "paid",
           row.status = "failed" => push[i] = "declined",
           request' \in [Requests -> RequestRows],
           \A s \in Requests : request'[s] = request[s] \/ request'[s].step = "idle",
           results' \subseteq ResultRows,
           \A a \in results' : a.row \in DOMAIN rows /\ a.outcome = push[a.row],
           review' \subseteq DOMAIN rows,
           UNCHANGED <<status, quote, push, ended, aged, crashes>>
    PROVE  IInv'
<1>1. TypeOK
  BY DEF IInv
<1>2. /\ rows' \in Seq(PaymentRows) /\ Len(rows') = Len(rows) /\ DOMAIN rows' = DOMAIN rows
      /\ rows'[i] = row /\ \A j \in DOMAIN rows \ {i} : rows'[j] = rows[j]
  BY <1>1, UpdateRow
<1>3. TypeOK'
  <2>1. \A j, k \in DOMAIN rows' :
            rows'[j].key = rows'[k].key => j = k \/ rows'[j].key = NoKey
    <3>1. \A j \in DOMAIN rows : rows'[j].key = rows[j].key
      BY <1>2
    <3> QED
      BY <1>1, <1>2, <3>1 DEF TypeOK
  <2>2. \A s \in Requests :
            request'[s].step \in {"push", "remember"} => request'[s].row \in DOMAIN rows'
    BY <1>1, <1>2 DEF TypeOK
  <2> QED
    BY <1>1, <1>2, <2>1, <2>2 DEF TypeOK
<1>4. RequestInv'
  <2>1. \A s \in Requests : request'[s].step \in {"push", "retry"} => request'[s] = request[s]
    OBVIOUS
  <2> QED
    BY <2>1 DEF IInv, RequestInv
<1>5. ResultInv'
  BY DEF ResultInv
<1>6. ResultsAreTheProviders'
  BY <1>2 DEF IInv, ResultsAreTheProviders
<1>7. /\ Active(Task)' \subseteq Active(Task)
      /\ \A j \in DOMAIN rows : rows'[j].quote = rows[j].quote
      /\ Active(Task) \subseteq DOMAIN rows
  BY <1>2 DEF Active, RowsFor
<1>8. OneActive' /\ PaymentOfNewestQuote'
  BY <1>7 DEF IInv, OneActive, PaymentOfNewestQuote
<1> QED
  BY <1>3, <1>4, <1>5, <1>6, <1>8 DEF IInv, QuoteInv

\* Steps that leave the rows and the provider alone: what stays in flight
\* must be the provider's, and no request gains a row to push.
LEMMA FlightStep ==
    ASSUME IInv, UNCHANGED <<rows, push, quote>>,
           status' \in PayableStatuses, ended' \in BOOLEAN, aged' \in 0..MaxRows, crashes' \in 0..MaxCrashes,
           review' \subseteq DOMAIN rows,
           request' \in [Requests -> RequestRows],
           \A s \in Requests : request'[s] = request[s] \/ request'[s].step = "idle",
           results' \subseteq ResultRows,
           \A a \in results' : a.row \in DOMAIN rows /\ a.outcome = push[a.row]
    PROVE  IInv'
<1>1. TypeOK'
  BY DEF IInv, TypeOK
<1>2. RequestInv'
  <2>1. \A s \in Requests : request'[s].step \in {"push", "retry"} => request'[s] = request[s]
    OBVIOUS
  <2> QED
    BY <2>1 DEF IInv, RequestInv
<1>3. ResultInv'
  BY DEF ResultInv
<1> QED
  BY <1>1, <1>2, <1>3
     DEF IInv, QuoteInv, ResultsAreTheProviders, OneActive, PaymentOfNewestQuote, Active, RowsFor
-----------------------------------------------------------------------------
\* A request with a row to push.
LEMMA PushValue ==
    ASSUME NEW r \in RequestRows, NEW i \in 0..MaxRows
    PROVE  /\ Pushing(r, i) \in RequestRows
           /\ Pushing(r, i).step = "push" /\ Pushing(r, i).row = i
           /\ Pushing(r, i).for = r.for
<1> DEFINE N == 0..MaxRows
<1>1. r \in [step : {"idle", "checked", "retry", "push", "remember"},
              for : Increases \cup {Task}, key : Keys \cup {NoKey}, row : N] /\ i \in N
  BY DEF RequestRows
<1> HIDE DEF N
<1> QED
  BY <1>1 DEF RequestRows, N, Pushing

\* The other request rows that the steps write.
LEMMA RequestValues ==
    ASSUME NEW r \in RequestRows
    PROVE  /\ [r EXCEPT !.step = "remember"] \in RequestRows
           /\ \A k \in Keys \cup {NoKey} :
                  /\ [r EXCEPT !.step = "checked", !.key = k] \in RequestRows
                  /\ [r EXCEPT !.step = "checked", !.key = k].step = "checked"
           /\ \A d \in Increases :
                  /\ [r EXCEPT !.step = "retry", !.for = d] \in RequestRows
                  /\ [r EXCEPT !.step = "retry", !.for = d].step = "retry"
                  /\ [r EXCEPT !.step = "retry", !.for = d].for = d
<1> DEFINE N == 0..MaxRows
<1>1. r \in [step : {"idle", "checked", "retry", "push", "remember"},
              for : Increases \cup {Task}, key : Keys \cup {NoKey}, row : N]
  BY DEF RequestRows
<1> HIDE DEF N
<1> QED
  BY <1>1 DEF RequestRows, N

\* Requests: a lost race inserts nothing, a won one a row of the newest quote.
LEMMA RequestNextIInv ==
    ASSUME IInv, NEW s \in Requests, RequestNext(s)
    PROVE  IInv'
<1> USE PaymentsAssumption
<1>1. TypeOK /\ request[s] \in RequestRows /\ rows \in Seq(PaymentRows) /\ Len(rows) \in Nat
  BY LenProperties DEF IInv, TypeOK
<1>2. Idle \in RequestRows /\ Idle.step = "idle"
  BY DEF Idle, RequestRows
<1>3. ASSUME NEW k \in Keys \cup {NoKey}, CheckInitiate(s, k) PROVE IInv'
  <2> DEFINE r == [Idle EXCEPT !.step = "checked", !.key = k]
  <2>1. r \in RequestRows /\ r.step = "checked"
    BY <1>2, RequestValues
  <2>2. request' = [request EXCEPT ![s] = r]
    BY <1>3 DEF CheckInitiate
  <2> HIDE DEF r
  <2> QED
    BY <1>3, <2>1, <2>2, RequestStep DEF CheckInitiate
<1>4. CASE InsertPayment(s)
  <2>1. CASE Payable /\ Active(Task) = {} /\ ~KeyUsed(request[s].key)
    <3> DEFINE row == PaymentRow(Task, quote.n, request[s].key)
               r == Pushing(request[s], Len(rows) + 1)
    <3>1. Insert(row) /\ request' = [request EXCEPT ![s] = r]
      BY <1>4, <2>1, <1>1 DEF InsertPayment, IInv, TypeOK
    <3>2. row \in PaymentRows /\ row.status = "pending" /\ row.quote = quote.n
          /\ row.key = request[s].key
      BY <1>1 DEF PaymentRow, PaymentRows, PaymentStatuses, RequestRows, TypeOK
    <3>3. Len(rows) + 1 \in 0..MaxRows
      BY <1>1, <3>1 DEF Insert
    <3>4. r \in RequestRows /\ r.step = "push" /\ r.row = Len(rows) + 1
      BY <1>1, <3>3, PushValue
    <3> HIDE DEF r, row
    <3> QED
      BY <1>4, <2>1, <3>1, <3>2, <3>4, InsertStep DEF InsertPayment
  <2>2. CASE ~(Payable /\ Active(Task) = {} /\ ~KeyUsed(request[s].key))
    BY <1>2, <1>4, <2>2, RequestStep DEF InsertPayment
  <2> QED
    BY <2>1, <2>2
<1>5. CASE PushStk(s)
  <2> DEFINE i == request[s].row
  <2>1. i \in DOMAIN rows /\ push[i] = "none" /\ request[s].step = "push"
    BY <1>1, <1>5 DEF IInv, TypeOK, RequestInv, PushStk
  <2>2. request' \in [Requests -> RequestRows]
    BY <1>1, <1>5 DEF PushStk, TypeOK, RequestRows
  <2>3. \A t \in Requests : request'[t].row = request[t].row
             /\ (request'[t].step = "push" => request[t].step = "push" /\ request[t].row # i)
             /\ (request'[t].step = "remember" => request[t].step \in {"push", "remember"})
             /\ (request'[t].step = "retry" => request'[t] = request[t])
    <3>1. /\ request'[s].step = "remember" /\ request'[s].row = i
          /\ \A t \in Requests \ {s} : request'[t] = request[t]
      BY <1>1, <1>5 DEF PushStk, TypeOK, RequestRows
    <3> QED
      BY <2>1, <3>1 DEF IInv, RequestInv
  <2>4. \A a \in results : a.row # i
    BY <2>1 DEF IInv, ResultInv, TypeOK, ResultRows
  <2>5. push' = [push EXCEPT ![i] = "open"] /\ "open" \in PushStates
    BY <1>5 DEF PushStk, PushStates
  <2> QED
    BY <1>5, <2>1, <2>2, <2>3, <2>4, <2>5, PushStep DEF PushStk
<1>6. CASE RememberCheckout(s)
  <2> DEFINE i == request[s].row
             row == [rows[i] EXCEPT !.ids = TRUE]
  <2>1. i \in DOMAIN rows
    BY <1>1, <1>6 DEF TypeOK, RememberCheckout
  <2>2. rows[i] \in PaymentRows
    BY <1>1, <2>1, ElementOfSeq, LenProperties
  <2>3. row \in PaymentRows /\ row.for = rows[i].for /\ row.key = rows[i].key
        /\ row.quote = rows[i].quote /\ row.status = rows[i].status
    BY <2>2 DEF PaymentRows
  <2>4. rows' = [rows EXCEPT ![i] = row]
    BY <1>6 DEF RememberCheckout
  <2>5. /\ request' \in [Requests -> RequestRows]
        /\ \A t \in Requests : request'[t] = request[t] \/ request'[t].step = "idle"
    BY <1>1, <1>2, <1>6 DEF RememberCheckout, TypeOK
  <2>6. /\ row.status = "completed" => push[i] = "paid"
        /\ row.status = "failed" => push[i] = "declined"
    BY <2>1, <2>3 DEF IInv, ResultsAreTheProviders
  <2>7. UNCHANGED <<status, quote, push, results, review, ended, aged, crashes>>
    BY <1>6 DEF RememberCheckout
  <2>8. /\ results' \subseteq ResultRows /\ review' \subseteq DOMAIN rows
        /\ \A a \in results' : a.row \in DOMAIN rows /\ a.outcome = push[a.row]
    BY <1>1, <2>7 DEF IInv, TypeOK, ResultInv
  <2> HIDE DEF i, row
  <2> QED
    BY <2>1, <2>3, <2>4, <2>5, <2>6, <2>7, <2>8, RowStep
<1>7. CASE LosePush(s)
  BY <1>2, <1>7, RequestStep DEF LosePush
<1>8. ASSUME NEW d \in Increases, ApproveIncrease(s, d) PROVE IInv'
  <2> DEFINE row == PaymentRow(d, 0, NoKey)
             r == Pushing([Idle EXCEPT !.for = d], Len(rows) + 1)
  <2>1. row \in PaymentRows /\ row.status = "pending" /\ row.for # Task /\ row.key = NoKey
    BY DEF PaymentRow, PaymentRows, PaymentStatuses
  <2>2. Len(rows) + 1 \in 0..MaxRows
    BY <1>1, <1>8 DEF ApproveIncrease, Insert
  <2>3. [Idle EXCEPT !.for = d] \in RequestRows
    BY DEF Idle, RequestRows
  <2>4. r \in RequestRows /\ r.step = "push" /\ r.row = Len(rows) + 1
    BY <2>2, <2>3, PushValue
  <2> HIDE DEF r, row
  <2> QED
    BY <1>8, <2>1, <2>4, InsertStep DEF ApproveIncrease, KeyUsed, r, row
<1>9. ASSUME NEW d \in Increases, CheckRetry(s, d) PROVE IInv'
  <2> DEFINE r == [Idle EXCEPT !.step = "retry", !.for = d]
  <2>1. r \in RequestRows /\ r.step = "retry" /\ r.for = d
    BY <1>2, RequestValues
  <2>2. request' = [request EXCEPT ![s] = r]
    BY <1>9 DEF CheckRetry
  <2> HIDE DEF r
  <2> QED
    BY <1>9, <2>1, <2>2, RequestStep DEF CheckRetry
<1>10. CASE InsertRetry(s)
  <2> DEFINE row == PaymentRow(request[s].for, 0, NoKey)
             r == Pushing(request[s], Len(rows) + 1)
  <2>1. Insert(row) /\ request' = [request EXCEPT ![s] = r]
    BY <1>10, <1>1 DEF InsertRetry, IInv, TypeOK
  <2>2. row \in PaymentRows /\ row.status = "pending" /\ row.for # Task /\ row.key = NoKey
    BY <1>10 DEF InsertRetry, IInv, RequestInv, PaymentRow, PaymentRows, PaymentStatuses
  <2>3. Len(rows) + 1 \in 0..MaxRows
    BY <1>1, <2>1 DEF Insert
  <2>4. r \in RequestRows /\ r.step = "push" /\ r.row = Len(rows) + 1
    BY <1>1, <2>3, PushValue
  <2> HIDE DEF r, row
  <2> QED
    BY <1>10, <2>1, <2>2, <2>4, InsertStep DEF InsertRetry, KeyUsed
<1> QED
  BY <1>3, <1>4, <1>5, <1>6, <1>7, <1>8, <1>9, <1>10 DEF RequestNext

\* The provider's and its results' steps: a final row has a final push.
LEMMA ResultNextIInv ==
    ASSUME IInv, NEW a \in results, ResultNext(a)
    PROVE  IInv'
<1>1. TypeOK /\ a \in ResultRows /\ a.row \in DOMAIN rows /\ a.outcome = push[a.row]
  BY DEF IInv, TypeOK, ResultInv
<1>2. \A x \in {"record", "confirm", "transition"} :
          [a EXCEPT !.step = x] \in ResultRows /\ [a EXCEPT !.step = x].row = a.row
          /\ [a EXCEPT !.step = x].outcome = a.outcome
  BY <1>1 DEF ResultRows
<1>3. \A b \in results : b \in ResultRows /\ b.row \in DOMAIN rows /\ b.outcome = push[b.row]
  BY DEF IInv, TypeOK, ResultInv
<1>4. Completed \subseteq DOMAIN rows /\ review \subseteq DOMAIN rows
  BY <1>1 DEF Completed, TypeOK
<1>5. \A s \in Requests : request[s] \in RequestRows
  BY <1>1 DEF TypeOK
<1>6. CASE ApplyResult(a)
  <2> DEFINE i == a.row
             new == IF a.outcome = "paid" THEN "completed" ELSE "failed"
             row == [rows[i] EXCEPT !.status = new]
  <2>1. rows[i] \in PaymentRows
    BY <1>1, ElementOfSeq, LenProperties DEF TypeOK
  <2>2. new \in PaymentStatuses
    BY DEF PaymentStatuses
  <2>3. row \in PaymentRows /\ row.for = rows[i].for /\ row.key = rows[i].key
        /\ row.quote = rows[i].quote /\ row.status = new
    BY <2>1, <2>2 DEF PaymentRows
  <2>4. rows' = [rows EXCEPT ![i] = row]
    BY <1>6 DEF ApplyResult
  <2>5. /\ row.status = "completed" => push[i] = "paid"
        /\ row.status = "failed" => push[i] = "declined"
    BY <1>1, <2>3 DEF ResultRows
  <2>6. row.status # "failed" => rows[i].status # "failed"
    BY <1>1, <2>5, <2>3 DEF IInv, ResultsAreTheProviders
  <2>7. \A b \in results' : b \in ResultRows /\ b.row \in DOMAIN rows /\ b.outcome = push[b.row]
    BY <1>1, <1>2, <1>3, <1>6 DEF ApplyResult
  <2>8. review' \subseteq DOMAIN rows
    BY <1>1, <1>4, <1>6 DEF ApplyResult, OpenWithin
  <2>9. UNCHANGED <<status, quote, push, request, ended, aged, crashes>>
    BY <1>6 DEF ApplyResult
  <2>10. request' \in [Requests -> RequestRows]
    BY <1>1, <2>9 DEF TypeOK
  <2> HIDE DEF i, row, new
  <2>11. i \in DOMAIN rows
    BY <1>1 DEF i
  <2> QED
    BY <2>3, <2>4, <2>5, <2>6, <2>7, <2>8, <2>9, <2>10, <2>11, RowStep
<1>7. CASE ConfirmErrand(a) \/ TransitionPaid(a)
  <2>1. \A b \in results' : b \in ResultRows /\ b.row \in DOMAIN rows /\ b.outcome = push[b.row]
    BY <1>1, <1>2, <1>3, <1>7 DEF ConfirmErrand, TransitionPaid
  <2>2. review' \subseteq DOMAIN rows
    BY <1>4, <1>7 DEF ConfirmErrand, TransitionPaid, OpenWithin
  <2>3. status' \in PayableStatuses
    BY <1>1, <1>7 DEF ConfirmErrand, TransitionPaid, TypeOK, PayableStatuses
  <2>4. UNCHANGED <<quote, rows, push, request, ended, aged, crashes>>
    BY <1>7 DEF ConfirmErrand, TransitionPaid
  <2> QED
    BY <1>1, <2>1, <2>2, <2>3, <2>4, FlightStep DEF TypeOK
<1> QED
  BY <1>6, <1>7 DEF ResultNext

LEMMA ProviderNextIInv ==
    ASSUME IInv, NEW i \in DOMAIN rows,
           \/ CustomerPays(i) \/ CustomerDeclines(i)
           \/ ReadResult(i) \/ Reconcile(i) \/ Age(i)
    PROVE  IInv'
<1>1. TypeOK
  BY DEF IInv
<1>2. CASE CustomerPays(i) \/ CustomerDeclines(i)
  <2>1. push[i] = "open"
    BY <1>2 DEF CustomerPays, CustomerDeclines
  <2>2. \A a \in results : a.row # i
    BY <2>1 DEF IInv, ResultInv, TypeOK, ResultRows
  <2>3. \A s \in Requests : request[s].step = "push" => request[s].row # i
    BY <2>1 DEF IInv, RequestInv
  <2>4. PICK p \in {"paid", "declined"} : push' = [push EXCEPT ![i] = p]
    BY <1>2 DEF CustomerPays, CustomerDeclines
  <2>5. UNCHANGED <<status, quote, rows, request, results, review, ended, aged, crashes>>
    BY <1>2 DEF CustomerPays, CustomerDeclines
  <2> QED
    BY <1>1, <2>1, <2>2, <2>3, <2>4, <2>5, PushStep DEF PushStates, TypeOK
<1>3. CASE ReadResult(i) \/ Reconcile(i)
  <2>0. ReadResult(i)
    BY <1>3 DEF Reconcile
  <2>1. PICK e \in BOOLEAN : results' = results \cup
            {[row |-> i, outcome |-> push[i], step |-> "record", ended |-> e]}
    BY <2>0 DEF ReadResult
  <2>2. i \in 1..MaxRows
    BY <1>1, PaymentsAssumption, LenProperties DEF TypeOK
  <2>3. \A b \in results' : b \in ResultRows /\ b.row \in DOMAIN rows /\ b.outcome = push[b.row]
    BY <1>1, <2>0, <2>1, <2>2 DEF IInv, ReadResult, ResultInv, ResultRows, TypeOK
  <2> QED
    BY <1>1, <2>0, <2>3, FlightStep DEF ReadResult, TypeOK
<1>4. CASE Age(i)
  <2>1. aged' \in 0..MaxRows
    BY <1>1, <1>4, PaymentsAssumption, LenProperties DEF TypeOK, Age
  <2>2. \A a \in results' : a.row \in DOMAIN rows /\ a.outcome = push[a.row]
    BY <1>1, <1>4 DEF Age, IInv, ResultInv, TypeOK
  <2> QED
    BY <1>1, <1>4, <2>1, <2>2, FlightStep DEF Age, TypeOK
<1> QED
  BY <1>2, <1>3, <1>4

\* Quotes, the errand's end and its review: only a re-quote changes the newest
\* quote, and only without a live payment.
LEMMA ErrandNextIInv ==
    ASSUME IInv,
           \/ QuoteExpires \/ Requote \/ AcceptQuote
           \/ AdminConfirm \/ End \/ HandleEnded
    PROVE  IInv'
<1> USE PaymentsAssumption
<1>1. TypeOK /\ Completed \subseteq DOMAIN rows
  BY DEF IInv, Completed
<1>2. quote.n \in 1..MaxQuotes /\ quote.valid \in BOOLEAN /\ quote.accepted \in BOOLEAN
  BY <1>1 DEF TypeOK
<1>3. CASE QuoteExpires
  BY <1>1, <1>2, <1>3, ErrandStep DEF QuoteExpires, TypeOK
<1>4. CASE Requote
  <2>1. quote.n + 1 \in 1..MaxQuotes
    BY <1>2, <1>4 DEF Requote, IInv, QuoteInv
  <2>2. quote' = [n |-> quote.n + 1, valid |-> TRUE, accepted |-> FALSE] /\ Active(Task) = {}
    BY <1>4 DEF Requote
  <2> QED
    BY <1>1, <1>4, <2>1, <2>2, ErrandStep DEF Requote, TypeOK
<1>5. CASE AcceptQuote
  BY <1>1, <1>2, <1>5, ErrandStep DEF AcceptQuote, TypeOK
<1>6. CASE AdminConfirm \/ End \/ HandleEnded
  <2>1. UNCHANGED <<rows, push, request, results, aged, crashes, quote>>
    BY <1>6 DEF AdminConfirm, End, HandleEnded
  <2>2. status' \in PayableStatuses /\ ended' \in BOOLEAN
    BY <1>1, <1>6 DEF AdminConfirm, End, HandleEnded, TypeOK, PayableStatuses
  <2>3. review' \subseteq DOMAIN rows
    BY <1>1, <1>6 DEF AdminConfirm, End, HandleEnded, OpenWithin, TypeOK
  <2> QED
    BY <1>1, <2>1, <2>2, <2>3, ErrandStep DEF IInv, QuoteInv, TypeOK
<1> QED
  BY <1>3, <1>4, <1>5, <1>6

\* A restart drops what is in flight.
LEMMA CrashIInv ==
    ASSUME IInv, Crash
    PROVE  IInv'
<1> USE PaymentsAssumption
<1>1. TypeOK
  BY DEF IInv
<1>2. Idle \in RequestRows /\ Idle.step = "idle"
  BY DEF Idle, RequestRows
<1>3. /\ request' \in [Requests -> RequestRows]
      /\ \A s \in Requests : request'[s].step = "idle"
  BY <1>2 DEF Crash
<1>4. crashes' \in 0..MaxCrashes
  BY <1>1 DEF TypeOK, Crash
<1> QED
  BY <1>1, <1>3, <1>4, FlightStep DEF Crash, TypeOK

\* Every step keeps the invariant.
LEMMA NextIInv == IInv /\ [Next]_vars => IInv'
<1> SUFFICES ASSUME IInv, [Next]_vars PROVE IInv'
    OBVIOUS
<1>1. CASE Next
  BY <1>1, RequestNextIInv, ProviderNextIInv, ResultNextIInv, ErrandNextIInv, CrashIInv DEF Next
<1>2. CASE UNCHANGED vars
  BY <1>2 DEF vars, IInv, TypeOK, QuoteInv, RequestInv, ResultInv, ResultsAreTheProviders,
              OneActive, PaymentOfNewestQuote, Active, RowsFor
<1> QED
  BY <1>1, <1>2

\* A charge at the provider that is live or paid belongs to a row not failed.
LEMMA ChargedOnce == IInv => TaskChargedOnce
<1> SUFFICES ASSUME IInv, NEW i \in RowsFor(Task), NEW j \in RowsFor(Task),
                    push[i] \in {"open", "paid"}, push[j] \in {"open", "paid"}
             PROVE  i = j
    BY DEF TaskChargedOnce
<1>1. \A k \in RowsFor(Task) : push[k] \in {"open", "paid"} => k \in Active(Task)
  BY DEF IInv, ResultsAreTheProviders, Active, RowsFor
<1> QED
  BY <1>1 DEF IInv, OneActive
-----------------------------------------------------------------------------
\* While the API has not restarted, a paid charge of an ended task that the
\* review does not count is on its way to confirmErrandAfterPayment, which
\* opens or refreshes the review.
ReviewInv ==
    crashes = 0 /\ status \in RefundableTerminalStatuses =>
        \A i \in Completed \cap RowsFor(Task) :
            i \in review \/ \E a \in results : a.row = i /\ a.step = "confirm"

\* A step that pays for nothing, takes nothing out of the review and leaves
\* the confirmations on their way.
LEMMA ReviewKept ==
    ASSUME ReviewInv,
           (Completed \cap RowsFor(Task))' \subseteq Completed \cap RowsFor(Task),
           review' = review, crashes' = crashes,
           status' \in RefundableTerminalStatuses => status \in RefundableTerminalStatuses,
           \A a \in results : a.step = "confirm" => a \in results'
    PROVE  ReviewInv'
<1> SUFFICES ASSUME crashes' = 0, status' \in RefundableTerminalStatuses,
                    NEW i \in (Completed \cap RowsFor(Task))'
             PROVE  i \in review' \/ \E a \in results' : a.row = i /\ a.step = "confirm"
    BY DEF ReviewInv
<1> QED
  BY DEF ReviewInv

\* A step that opens the review with every completed payment.
LEMMA ReviewOpened ==
    ASSUME UNCHANGED rows, OpenWithin(Completed)
    PROVE  ReviewInv'
<1>1. Completed \subseteq review'
  BY DEF OpenWithin
<1>2. Completed' = Completed
  BY DEF Completed
<1> QED
  BY <1>1, <1>2 DEF ReviewInv

\* A new payment row is pending.
LEMMA InsertKeepsReview ==
    ASSUME IInv, ReviewInv, NEW row \in PaymentRows, Insert(row), row.status = "pending",
           UNCHANGED <<status, results, review, crashes>>
    PROVE  ReviewInv'
<1>1. /\ DOMAIN rows = 1..Len(rows) /\ DOMAIN rows' = 1..(Len(rows) + 1)
      /\ \A i \in DOMAIN rows : rows'[i] = rows[i]
      /\ rows'[Len(rows) + 1] = row /\ Len(rows) \in Nat
  BY InsertRow, LenProperties DEF IInv, TypeOK
<1>2. (Completed \cap RowsFor(Task))' \subseteq Completed \cap RowsFor(Task)
  BY <1>1 DEF Completed, RowsFor
<1> QED
  BY <1>2, ReviewKept

\* Requests write pending rows and checkout ids, no results and no review.
LEMMA RequestNextReview ==
    ASSUME IInv, ReviewInv, NEW s \in Requests, RequestNext(s)
    PROVE  ReviewInv'
<1>1. TypeOK /\ request[s] \in RequestRows
  BY DEF IInv, TypeOK
<1>2. UNCHANGED <<status, results, review, crashes>>
  BY DEF RequestNext, CheckInitiate, InsertPayment, PushStk, RememberCheckout, LosePush,
         ApproveIncrease, CheckRetry, InsertRetry
<1>3. CASE UNCHANGED rows
  <2>1. (Completed \cap RowsFor(Task))' = Completed \cap RowsFor(Task)
    BY <1>3 DEF Completed, RowsFor
  <2> QED
    BY <1>2, <2>1, ReviewKept
<1>4. CASE RememberCheckout(s)
  <2> DEFINE i == request[s].row
             row == [rows[i] EXCEPT !.ids = TRUE]
  <2>1. i \in DOMAIN rows
    BY <1>1, <1>4 DEF TypeOK, RememberCheckout
  <2>2. rows[i] \in PaymentRows
    BY <1>1, <2>1, ElementOfSeq, LenProperties DEF TypeOK
  <2>3. row \in PaymentRows /\ row.for = rows[i].for /\ row.status = rows[i].status
    BY <2>2 DEF PaymentRows
  <2>4. rows' = [rows EXCEPT ![i] = row]
    BY <1>4 DEF RememberCheckout
  <2> HIDE DEF i, row
  <2>5. /\ DOMAIN rows' = DOMAIN rows /\ rows'[i] = row
        /\ \A j \in DOMAIN rows \ {i} : rows'[j] = rows[j]
    BY <1>1, <2>1, <2>3, <2>4, UpdateRow
  <2>6. (Completed \cap RowsFor(Task))' \subseteq Completed \cap RowsFor(Task)
    BY <2>3, <2>5 DEF Completed, RowsFor
  <2> QED
    BY <1>2, <2>6, ReviewKept
<1>5. ASSUME NEW for \in Increases \cup {Task}, NEW n \in 0..MaxQuotes,
             NEW k \in Keys \cup {NoKey}, Insert(PaymentRow(for, n, k))
      PROVE  ReviewInv'
  <2> DEFINE row == PaymentRow(for, n, k)
  <2>1. row \in PaymentRows /\ row.status = "pending"
    BY DEF PaymentRow, PaymentRows, PaymentStatuses
  <2> HIDE DEF row
  <2> QED
    BY <1>2, <1>5, <2>1, InsertKeepsReview DEF row
<1>6. CASE InsertPayment(s)
  BY <1>1, <1>3, <1>5, <1>6, PaymentsAssumption DEF InsertPayment, TypeOK, RequestRows
<1>7. CASE InsertRetry(s)
  BY <1>1, <1>5, <1>7, PaymentsAssumption DEF InsertRetry, RequestRows
<1>8. CASE \E d \in Increases : ApproveIncrease(s, d)
  BY <1>5, <1>8, PaymentsAssumption DEF ApproveIncrease
<1> QED
  BY <1>3, <1>4, <1>6, <1>7, <1>8 DEF RequestNext, CheckInitiate, PushStk, LosePush, CheckRetry

\* A result that completes a charge of the task writes the review with it or
\* goes on to confirm the errand, and a confirmation finds it ended.
LEMMA ResultNextReview ==
    ASSUME IInv, ReviewInv, NEW a \in results, ResultNext(a)
    PROVE  ReviewInv'
<1>1. TypeOK /\ a \in ResultRows /\ a.row \in DOMAIN rows /\ a.outcome = push[a.row]
  BY DEF IInv, TypeOK, ResultInv
<1>2. [a EXCEPT !.step = "confirm"].step = "confirm" /\ [a EXCEPT !.step = "confirm"].row = a.row
  BY <1>1 DEF ResultRows
<1>3. CASE ApplyResult(a)
  <2> DEFINE i == a.row
             new == IF a.outcome = "paid" THEN "completed" ELSE "failed"
             row == [rows[i] EXCEPT !.status = new]
             c == [a EXCEPT !.step = "confirm"]
  <2>1. rows[i] \in PaymentRows
    BY <1>1, ElementOfSeq, LenProperties DEF TypeOK
  <2>2. row \in PaymentRows /\ row.for = rows[i].for /\ row.status = new
    BY <2>1 DEF PaymentRows, PaymentStatuses
  <2>3. rows' = [rows EXCEPT ![i] = row]
    BY <1>3 DEF ApplyResult
  <2>4. /\ i \in DOMAIN rows
        /\ a.ended => OpenWithin(Completed \cup {i})
        /\ ~a.ended => review' = review
        /\ \A b \in results : b.step = "confirm" => b \in results'
        /\ a.outcome = "paid" /\ ~a.ended /\ rows[i].for = Task => c \in results'
    BY <1>1, <1>3 DEF ApplyResult
  <2>5. c.step = "confirm" /\ c.row = i
    BY <1>2
  <2>6. UNCHANGED <<status, crashes>>
    BY <1>3 DEF ApplyResult
  <2>7. new = "completed" => a.outcome = "paid"
    OBVIOUS
  <2> HIDE DEF i, row, new, c
  <2>8. /\ DOMAIN rows' = DOMAIN rows /\ rows'[i] = row
        /\ \A j \in DOMAIN rows \ {i} : rows'[j] = rows[j]
    BY <1>1, <2>2, <2>3, <2>4, UpdateRow
  <2>9. \A j \in (Completed \cap RowsFor(Task))' :
            \/ j \in Completed \cap RowsFor(Task)
            \/ j = i /\ a.outcome = "paid" /\ rows[i].for = Task
    BY <2>2, <2>4, <2>7, <2>8 DEF Completed, RowsFor
  <2>10. CASE a.ended
    <3>1. Completed \cup {i} \subseteq review'
      BY <2>4, <2>10 DEF OpenWithin
    <3> QED
      BY <2>9, <3>1 DEF ReviewInv
  <2>11. CASE ~a.ended
    BY <2>4, <2>5, <2>6, <2>9, <2>11 DEF ReviewInv
  <2> QED
    BY <2>10, <2>11
<1>4. CASE ConfirmErrand(a)
  <2>1. UNCHANGED <<rows, status, crashes>>
    BY <1>4 DEF ConfirmErrand
  <2>2. CASE status \in RefundableTerminalStatuses
    BY <1>4, <2>1, <2>2, ReviewOpened DEF ConfirmErrand
  <2>3. CASE status \notin RefundableTerminalStatuses
    BY <2>1, <2>3 DEF ReviewInv
  <2> QED
    BY <2>2, <2>3
<1>5. CASE TransitionPaid(a)
  <2>1. (Completed \cap RowsFor(Task))' = Completed \cap RowsFor(Task)
    BY <1>5 DEF TransitionPaid, Completed, RowsFor
  <2>2. /\ \A b \in results : b.step = "confirm" => b \in results'
        /\ review' = review /\ crashes' = crashes
        /\ status' \in RefundableTerminalStatuses => status \in RefundableTerminalStatuses
    BY <1>5 DEF TransitionPaid, RefundableTerminalStatuses
  <2> QED
    BY <2>1, <2>2, ReviewKept
<1> QED
  BY <1>3, <1>4, <1>5 DEF ResultNext

\* Every step keeps it beside the first invariant: the end itself opens the
\* review with what has been paid by then, and a restart ends the promise.
LEMMA NextReview == IInv /\ ReviewInv /\ [Next]_vars => ReviewInv'
<1> SUFFICES ASSUME IInv, ReviewInv, [Next]_vars PROVE ReviewInv'
    OBVIOUS
<1>1. CASE \E s \in Requests : RequestNext(s)
  BY <1>1, RequestNextReview
<1>2. CASE \E a \in results : ResultNext(a)
  BY <1>2, ResultNextReview
<1>3. CASE End \/ HandleEnded
  BY <1>3, ReviewOpened DEF End, HandleEnded
<1>4. CASE Crash
  <2>1. crashes \in Nat /\ crashes' = crashes + 1
    BY <1>4, PaymentsAssumption DEF Crash, IInv, TypeOK
  <2> QED
    BY <2>1 DEF ReviewInv
<1>5. CASE \/ QuoteExpires \/ Requote \/ AcceptQuote \/ AdminConfirm \/ UNCHANGED vars
           \/ \E i \in DOMAIN rows : CustomerPays(i) \/ CustomerDeclines(i)
           \/ \E i \in DOMAIN rows : ReadResult(i) \/ Reconcile(i) \/ Age(i)
  <2>1. rows' = rows /\ review' = review /\ crashes' = crashes
    BY <1>5 DEF QuoteExpires, Requote, AcceptQuote, AdminConfirm, vars,
                CustomerPays, CustomerDeclines, ReadResult, Reconcile, Age
  <2>2. results \subseteq results'
    BY <1>5 DEF QuoteExpires, Requote, AcceptQuote, AdminConfirm, vars,
                CustomerPays, CustomerDeclines, ReadResult, Reconcile, Age
  <2>3. status' = status \/ status' = "PAYMENT_CONFIRMED"
    BY <1>5 DEF QuoteExpires, Requote, AcceptQuote, AdminConfirm, vars,
                CustomerPays, CustomerDeclines, ReadResult, Reconcile, Age
  <2>4. (Completed \cap RowsFor(Task))' = Completed \cap RowsFor(Task)
    BY <2>1 DEF Completed, RowsFor
  <2> QED
    BY <2>1, <2>2, <2>3, <2>4, ReviewKept DEF RefundableTerminalStatuses
<1> QED
  BY <1>1, <1>2, <1>3, <1>4, <1>5 DEF Next

-----------------------------------------------------------------------------
\* The inductive invariant holds in every reachable state.
THEOREM PaymentsInvariant == Spec => []IInv
<1>1. Init => IInv
  BY InitIInv
<1>2. IInv /\ [Next]_vars => IInv'
  BY NextIInv
<1> QED
  BY <1>1, <1>2, PTL DEF Spec

\* Every row, request and result is one the code can write, and no
\* Idempotency-Key is stored with two payments.
THEOREM PaymentsTypeCorrect == Spec => []TypeOK
<1>1. IInv => TypeOK
  BY DEF IInv
<1> QED
  BY <1>1, PaymentsInvariant, PTL

\* The customer never has two live or paid charges of the task at the
\* provider, whatever requests, answers and restarts were interleaved.
THEOREM PaymentsTaskChargedOnce == Spec => []TaskChargedOnce
<1>1. IInv => TaskChargedOnce
  BY ChargedOnce
<1> QED
  BY <1>1, PaymentsInvariant, PTL

\* A payment recorded completed was paid at the provider, one recorded failed
\* was declined there.
THEOREM PaymentsResultsAreTheProviders == Spec => []ResultsAreTheProviders
<1>1. IInv => ResultsAreTheProviders
  BY DEF IInv
<1> QED
  BY <1>1, PaymentsInvariant, PTL

\* The pending or completed payment of the task was taken against the quote
\* that is still the errand's newest.
THEOREM PaymentsNewestQuote == Spec => []PaymentOfNewestQuote
<1>1. IInv => PaymentOfNewestQuote
  BY DEF IInv
<1> QED
  BY <1>1, PaymentsInvariant, PTL

\* Once nothing is in flight, an ended errand whose charge went through has a
\* refund review that counts the charge, unless the API restarted.
THEOREM PaymentsEndedInReview == Spec => []EndedPaidTaskInReview
<1>1. Init => ReviewInv
  BY DEF Init, ReviewInv, RefundableTerminalStatuses
<1>2. IInv /\ ReviewInv /\ [Next]_vars => ReviewInv'
  BY NextReview
<1>3. ReviewInv => EndedPaidTaskInReview
  BY DEF ReviewInv, EndedPaidTaskInReview, Quiet
<1> QED
  BY <1>1, <1>2, <1>3, PaymentsInvariant, PTL DEF Spec
=============================================================================
