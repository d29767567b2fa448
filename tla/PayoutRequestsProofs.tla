------------------------- MODULE PayoutRequestsProofs -------------------------
(***************************************************************************)
(* Proofs about what an Idempotency-Key promises.                          *)
(*                                                                         *)
(* First PayoutRequests, for any lines, calls, keys and amounts, and any   *)
(* number of requests: what a key answers, and what a paid request is      *)
(* worth.  A sum is used only as a function of the amounts it adds up:     *)
(* lines that keep theirs keep their sum.                                  *)
(*                                                                         *)
(* Then OfflineRequests, for any number of actions, calls and faults: the  *)
(* queue on the phone keeps what it was given, and what it replays takes   *)
(* effect once.  An action's fate says where it is: in memory, on the      *)
(* disk, in which of the writes on their way (PhoneInv); a call's step     *)
(* says what it holds: a key, a status it moved on, an effect (ServerInv). *)
(***************************************************************************)
EXTENDS IdempotentCalls, PayoutRequests, SequenceTheorems, WellFoundedInduction, TLAPS

RequestRows(paid) ==
    [key : Keys \union {NoKey}, amount : Asked, status : {"requested", "paid", "closed"}, paid : paid]

CallRows ==
    [step : {"idle", "read", "create", "store", "release"}, key : Keys \union {NoKey},
     amount : Asked \union {0}, id : Nat]

\* What was paid is a sum over lines; the key and the amount are what matter here.
RowsOK ==
    /\ \E paid : requests \in Seq(RequestRows(paid))
    /\ call \in [Calls -> CallRows]
    /\ \A c \in Calls : call[c].step # "idle" => call[c].amount \in Asked
    /\ \A c \in Calls : call[c].step = "read" => call[c].key \in Keys
    /\ DOMAIN stored = Keys
    /\ lapses \in Nat

\* An id that is stored for a key, about to be, or was answered for it names
\* a request of that key and amount.
Names(table, id, k, n) == id \in DOMAIN table /\ table[id].key = k /\ table[id].amount = n

IdsOK ==
    /\ \A k \in Keys : stored[k].state = "id" => Names(requests, stored[k].id, k, stored[k].amount)
    /\ \A c \in Calls : call[c].step = "store" => Names(requests, call[c].id, call[c].key, call[c].amount)
    /\ \A a \in answered : Names(requests, a[3], a[1], a[2])

\* The keys no call used without having reserved them.
ReservedKeys == Keys \ unreserved
Holds(c, k) == call[c].key = k /\ call[c].step \in {"create", "store", "release"}

\* A key has one holder, while it is pending; its request was made by the holder
\* that stores it, or is the one stored.
HolderInv ==
    lapses = 0 => \A k \in ReservedKeys :
        /\ \A c \in Calls : Holds(c, k) => stored[k].state = "pending"
        /\ \A c, d \in Calls : Holds(c, k) /\ Holds(d, k) => c = d
        /\ \A i \in DOMAIN requests : requests[i].key = k =>
               \/ stored[k].state = "id"
               \/ \E c \in Calls : Holds(c, k) /\ call[c].step = "store"
        /\ \A i, j \in DOMAIN requests : requests[i].key = k /\ requests[j].key = k => i = j

IInv == RowsOK /\ IdsOK /\ HolderInv
-----------------------------------------------------------------------------
\* The requests are a table; keys and amounts are never rewritten.
LEMMA RequestsAre ==
    ASSUME RowsOK
    PROVE  /\ Len(requests) \in Nat /\ DOMAIN requests = 1..Len(requests)
           /\ \A i \in DOMAIN requests : requests[i].key \in Keys \union {NoKey}
<1>1. PICK paid : requests \in Seq(RequestRows(paid))
  BY DEF RowsOK
<1>2. /\ Len(requests) \in Nat /\ DOMAIN requests = 1..Len(requests)
      /\ \A i \in DOMAIN requests : requests[i] \in RequestRows(paid)
  BY <1>1, LenProperties, ElementOfSeq
<1> QED
  BY <1>2 DEF RequestRows

\* A step that rewrites no key or amount of a request and nothing of the calls.
LEMMA LedgerStep ==
    ASSUME IInv, UNCHANGED <<stored, call, answered, unreserved, lapses>>,
           \E paid : requests' \in Seq(RequestRows(paid)),
           DOMAIN requests' = DOMAIN requests,
           \A i \in DOMAIN requests :
               requests'[i].key = requests[i].key /\ requests'[i].amount = requests[i].amount
    PROVE  IInv'
<1>1. RowsOK'
  BY DEF IInv, RowsOK
<1>2. \A id, k, n : Names(requests', id, k, n) <=> Names(requests, id, k, n)
  BY DEF Names
<1>3. IdsOK'
  BY <1>2 DEF IInv, IdsOK
<1>4. HolderInv'
  BY DEF IInv, HolderInv, Holds, ReservedKeys
<1> QED
  BY <1>1, <1>3, <1>4 DEF IInv

\* One request rewritten, its key and amount kept.
LEMMA RowRewritten ==
    ASSUME RowsOK, NEW i \in DOMAIN requests, NEW row,
           \A paid : requests[i] \in RequestRows(paid) =>
               /\ \E p : row \in RequestRows(paid \union {p})
               /\ row.key = requests[i].key /\ row.amount = requests[i].amount,
           requests' = [requests EXCEPT ![i] = row]
    PROVE  /\ \E paid : requests' \in Seq(RequestRows(paid))
           /\ DOMAIN requests' = DOMAIN requests
           /\ \A j \in DOMAIN requests :
                  requests'[j].key = requests[j].key /\ requests'[j].amount = requests[j].amount
<1>1. PICK paid : requests \in Seq(RequestRows(paid))
  BY DEF RowsOK
<1>2. /\ Len(requests) \in Nat /\ DOMAIN requests = 1..Len(requests)
      /\ \A j \in DOMAIN requests : requests[j] \in RequestRows(paid)
  BY <1>1, LenProperties, ElementOfSeq
<1>3. /\ row.key = requests[i].key /\ row.amount = requests[i].amount
      /\ \E p : row \in RequestRows(paid \union {p})
  BY <1>2
<1>4. PICK p : row \in RequestRows(paid \union {p})
  BY <1>3
<1>5. RequestRows(paid) \subseteq RequestRows(paid \union {p})
  BY DEF RequestRows
<1>6. requests \in Seq(RequestRows(paid \union {p}))
  BY <1>1, <1>5, SeqMonotonic
<1>7. requests' \in Seq(RequestRows(paid \union {p}))
  BY <1>2, <1>4, <1>6, ExceptSeq
<1> QED
  BY <1>2, <1>3, <1>7

LEMMA CallMoved ==
    ASSUME NEW r \in CallRows, NEW step, NEW id
    PROVE  [r EXCEPT !.step = step, !.id = id]
           = [step |-> step, key |-> r.key, amount |-> r.amount, id |-> id]
<1> DEFINE row(s, i) == [step |-> s, key |-> r.key, amount |-> r.amount, id |-> i]
<1>1. r = row(r.step, r.id)
  BY DEF CallRows
<1>2. [row(r.step, r.id) EXCEPT !.step = step] = row(step, r.id)
  OBVIOUS
<1>3. [row(step, r.id) EXCEPT !.id = id] = row(step, id)
  OBVIOUS
<1> QED
  BY <1>1, <1>2, <1>3

\* A call moves on and holds the reserved keys it held; the requests and the
\* keys stay.
LEMMA CallStep ==
    ASSUME IInv, NEW c \in Calls, NEW row \in CallRows,
           call' = [call EXCEPT ![c] = row],
           row.step # "idle" => row.amount \in Asked,
           row.step = "read" => row.key \in Keys,
           row.step = "store" => Names(requests, row.id, row.key, row.amount),
           unreserved \subseteq unreserved',
           \A k \in Keys \ unreserved' :
               /\ row.key = k /\ row.step \in {"create", "store", "release"} <=> Holds(c, k)
               /\ Holds(c, k) => (row.step = "store" <=> call[c].step = "store"),
           UNCHANGED <<requests, stored, lapses>>,
           \A a \in answered' \ answered : Names(requests, a[3], a[1], a[2])
    PROVE  IInv'
<1> USE DEF IInv
<1>1. /\ call' \in [Calls -> CallRows] /\ call'[c] = row
      /\ \A d \in Calls \ {c} : call'[d] = call[d]
  BY DEF RowsOK
<1>2. RowsOK'
  BY <1>1 DEF RowsOK
<1>3. \A id, k, n : Names(requests', id, k, n) <=> Names(requests, id, k, n)
  BY DEF Names
<1>4. IdsOK'
  BY <1>1, <1>3 DEF IdsOK
<1>5. \A d \in Calls, k \in Keys \ unreserved' :
          /\ Holds(d, k)' <=> Holds(d, k)
          /\ Holds(d, k) => (call'[d].step = "store" <=> call[d].step = "store")
  BY <1>1 DEF Holds
<1>6. HolderInv'
  BY <1>5 DEF HolderInv, ReservedKeys
<1> QED
  BY <1>2, <1>4, <1>6
-----------------------------------------------------------------------------
LEMMA InitIInv == Init => IInv
<1> SUFFICES ASSUME Init PROVE IInv
    OBVIOUS
<1>1. requests \in Seq(RequestRows({})) /\ DOMAIN requests = {}
  BY DEF Init
<1>2. \A c \in Calls : call[c] = Idle
  BY DEF Init
<1>3. RowsOK
  BY <1>1, <1>2 DEF Init, RowsOK, CallRows, Idle
<1>4. IdsOK
  BY <1>2 DEF Init, IdsOK, Idle, Nothing
<1>5. HolderInv
  BY <1>1, <1>2 DEF HolderInv, Holds, Idle
<1> QED
  BY <1>3, <1>4, <1>5 DEF IInv

\* SET NX finds the key free: no call holds it, no request is made for it.
LEMMA ReserveStep ==
    ASSUME IInv, NEW c \in Calls, NEW k \in Keys, NEW n \in Asked, Reserve(c, k, n)
    PROVE  IInv'
<1> USE DEF IInv
<1> DEFINE next(step) == [step |-> step, key |-> k, amount |-> n, id |-> 0]
<1>1. CASE stored[k] # Nothing
  <2>1. call' = [call EXCEPT ![c] = next("read")] /\ call[c] = Idle
    BY <1>1 DEF Reserve, Idle
  <2>2. next("read") \in CallRows /\ call[c].step = "idle"
    BY <2>1 DEF CallRows, Idle
  <2>3. UNCHANGED <<requests, stored, answered, unreserved, lapses>>
    BY <1>1 DEF Reserve
  <2> QED
    BY <2>1, <2>2, <2>3, CallStep DEF Holds
<1>2. CASE stored[k] = Nothing
  <2>1. /\ call' = [call EXCEPT ![c] = next("create")] /\ call[c].step = "idle"
        /\ stored' = [stored EXCEPT ![k] = Pending(n)]
        /\ UNCHANGED <<requests, answered, unreserved, lapses>>
    <3>1. call[c] = Idle /\ UNCHANGED <<requests, answered, unreserved, lapses>>
      BY DEF Reserve
    <3>2. stored' = [stored EXCEPT ![k] = Pending(n)]
      BY <1>2 DEF Reserve
    <3>3. call' = [call EXCEPT ![c] = next("create")]
      BY <1>2 DEF Reserve, Idle
    <3> QED
      BY <3>1, <3>2, <3>3 DEF Idle
  <2>2. /\ next("create") \in CallRows /\ next("create").step = "create"
        /\ next("create").key = k /\ next("create").amount = n
    BY DEF CallRows
  <2>3. /\ call' \in [Calls -> CallRows] /\ call'[c] = next("create")
        /\ \A d \in Calls \ {c} : call'[d] = call[d]
    BY <2>1, <2>2 DEF RowsOK
  <2>4. /\ DOMAIN stored' = Keys /\ stored'[k].state = "pending"
        /\ \A m \in Keys \ {k} : stored'[m] = stored[m]
    BY <2>1 DEF RowsOK, Pending
  <2>5. RowsOK'
    BY <2>1, <2>2, <2>3, <2>4 DEF RowsOK
  <2>6. \A id, m, q : Names(requests', id, m, q) <=> Names(requests, id, m, q)
    BY <2>1 DEF Names
  <2>7. IdsOK'
    BY <2>1, <2>2, <2>3, <2>4, <2>6 DEF IdsOK
  <2>8. HolderInv'
    <3> SUFFICES ASSUME lapses = 0, NEW m \in ReservedKeys
                 PROVE  /\ \A d \in Calls : Holds(d, m)' => stored'[m].state = "pending"
                        /\ \A d, e \in Calls : Holds(d, m)' /\ Holds(e, m)' => d = e
                        /\ \A i \in DOMAIN requests : requests[i].key = m =>
                               \/ stored'[m].state = "id"
                               \/ \E d \in Calls : Holds(d, m)' /\ call'[d].step = "store"
                        /\ \A i, j \in DOMAIN requests :
                               requests[i].key = m /\ requests[j].key = m => i = j
      BY <2>1 DEF HolderInv, ReservedKeys
    <3>1. /\ \A d \in Calls : Holds(d, m) => stored[m].state = "pending"
          /\ \A d, e \in Calls : Holds(d, m) /\ Holds(e, m) => d = e
          /\ \A i \in DOMAIN requests : requests[i].key = m =>
                 \/ stored[m].state = "id"
                 \/ \E d \in Calls : Holds(d, m) /\ call[d].step = "store"
          /\ \A i, j \in DOMAIN requests : requests[i].key = m /\ requests[j].key = m => i = j
      BY DEF HolderInv
    <3>2. CASE m = k
      <4>1. stored[k].state = "none"
        BY <1>2 DEF Nothing
      <4>2. \A d \in Calls : ~Holds(d, k)
        BY <3>1, <3>2, <4>1
      <4>3. \A d \in Calls : Holds(d, k)' => d = c
        BY <2>3, <4>2 DEF Holds
      <4>4. \A i \in DOMAIN requests : requests[i].key # k
        BY <3>1, <3>2, <4>1, <4>2
      <4> QED
        BY <2>4, <3>1, <3>2, <4>3, <4>4
    <3>3. CASE m # k
      <4>1. \A d \in Calls : Holds(d, m)' <=> Holds(d, m)
        BY <2>1, <2>2, <2>3, <3>3 DEF Holds
      <4>2. \A d \in Calls : Holds(d, m) => call'[d] = call[d]
        BY <2>1, <2>3 DEF Holds
      <4>3. stored'[m] = stored[m]
        BY <2>4, <3>3 DEF ReservedKeys
      <4> QED
        BY <3>1, <4>1, <4>2, <4>3
    <3> QED
      BY <3>2, <3>3
  <2> QED
    BY <2>5, <2>7, <2>8
<1> QED
  BY <1>1, <1>2

\* The insert: the call holds its key, so the key had no request before.
LEMMA CreateStep ==
    ASSUME IInv, NEW c \in Calls, CreateLocked(c)
    PROVE  IInv'
<1> USE DEF IInv
<1>0. call[c] \in CallRows /\ call[c].step = "create" /\ call[c].amount \in Asked
  BY DEF CreateLocked, RowsOK
<1>1. CASE ~Acceptable(call[c].amount)
  <2>1. call' = [call EXCEPT ![c] = [call[c] EXCEPT !.step = "release"]]
    BY <1>1 DEF CreateLocked
  <2> DEFINE row == [call[c] EXCEPT !.step = "release"]
  <2>2. /\ row \in CallRows /\ row.step = "release" /\ row.key = call[c].key
        /\ row.amount = call[c].amount
    BY <1>0 DEF CallRows
  <2>3. UNCHANGED <<requests, stored, answered, unreserved, lapses>>
    BY <1>1 DEF CreateLocked
  <2>4. call' = [call EXCEPT ![c] = row]
    BY <2>1
  <2> HIDE DEF row
  <2>5. \A k \in Keys \ unreserved' :
            /\ row.key = k /\ row.step \in {"create", "store", "release"} <=> Holds(c, k)
            /\ Holds(c, k) => (row.step = "store" <=> call[c].step = "store")
    BY <1>0, <2>2 DEF Holds
  <2>6. row.amount \in Asked /\ row.step # "read" /\ row.step # "store"
    BY <1>0, <2>2
  <2>7. unreserved \subseteq unreserved' /\ answered' \ answered = {}
        /\ UNCHANGED <<requests, stored, lapses>>
    BY <2>3
  <2> QED
    BY <2>2, <2>4, <2>5, <2>6, <2>7, CallStep
<1>2. CASE Acceptable(call[c].amount)
  <2> DEFINE n == call[c].amount  k == call[c].key  new == Len(requests) + 1
             row == [key |-> k, amount |-> n, status |-> "requested", paid |-> 0]
             next == [step |-> "store", key |-> k, amount |-> n, id |-> new]
  <2>1. /\ requests' = Append(requests, row) /\ call' = [call EXCEPT ![c] = next]
        /\ UNCHANGED <<stored, answered, unreserved, lapses>>
    <3>1. [call[c] EXCEPT !.step = "store", !.id = new] = next
      BY <1>0, CallMoved
    <3>2. /\ requests' = Append(requests, row)
          /\ call' = [call EXCEPT ![c] = [call[c] EXCEPT !.step = "store", !.id = new]]
          /\ UNCHANGED <<stored, answered, unreserved, lapses>>
      BY <1>2 DEF CreateLocked
    <3> QED
      BY <3>1, <3>2
  <2>2. Len(requests) \in Nat /\ DOMAIN requests = 1..Len(requests)
    BY RequestsAre
  <2>3. next = [step |-> "store", key |-> k, amount |-> n, id |-> new] /\ next \in CallRows
    BY <1>0, <2>2 DEF CallRows
  <2>4. /\ call' \in [Calls -> CallRows] /\ call'[c] = next
        /\ \A d \in Calls \ {c} : call'[d] = call[d]
    BY <2>1, <2>3 DEF RowsOK
  <2>5. PICK paid : requests \in Seq(RequestRows(paid))
    BY DEF RowsOK
  <2>6. requests \in Seq(RequestRows(paid \union {0})) /\ row \in RequestRows(paid \union {0})
    <3>1. RequestRows(paid) \subseteq RequestRows(paid \union {0})
      BY DEF RequestRows
    <3>2. row \in RequestRows(paid \union {0})
      BY <1>0 DEF RequestRows, CallRows
    <3> QED
      BY <2>5, <3>1, <3>2, SeqMonotonic
  <2>7. /\ requests' \in Seq(RequestRows(paid \union {0})) /\ Len(requests') = new
        /\ requests'[new] = row /\ \A i \in 1..Len(requests) : requests'[i] = requests[i]
    BY <2>1, <2>6, AppendProperties
  <2>8. DOMAIN requests' = DOMAIN requests \union {new} /\ new \notin DOMAIN requests
    BY <2>2, <2>7, LenProperties
  <2>9. RowsOK'
    BY <1>0, <2>1, <2>3, <2>4, <2>7 DEF RowsOK
  <2>10. /\ \A id, m, q : Names(requests, id, m, q) => Names(requests', id, m, q)
         /\ Names(requests', new, k, n)
    <3>1. ASSUME NEW id, NEW m, NEW q, Names(requests, id, m, q) PROVE Names(requests', id, m, q)
      BY <2>2, <2>7, <2>8, <3>1 DEF Names
    <3>2. Names(requests', new, k, n)
      BY <2>7, <2>8 DEF Names
    <3> QED
      BY <3>1, <3>2
  <2>11. IdsOK'
    <3>1. \A m \in Keys : stored'[m].state = "id" => Names(requests', stored'[m].id, m, stored'[m].amount)
      BY <2>1, <2>10 DEF IdsOK
    <3>2. \A d \in Calls : call'[d].step = "store" => Names(requests', call'[d].id, call'[d].key, call'[d].amount)
      BY <2>4, <2>10 DEF IdsOK
    <3>3. \A a \in answered' : Names(requests', a[3], a[1], a[2])
      BY <2>1, <2>10 DEF IdsOK
    <3> QED
      BY <3>1, <3>2, <3>3 DEF IdsOK
  <2>12. HolderInv'
    <3> SUFFICES ASSUME lapses = 0, NEW m \in ReservedKeys
                 PROVE  /\ \A d \in Calls : Holds(d, m)' => stored[m].state = "pending"
                        /\ \A d, e \in Calls : Holds(d, m)' /\ Holds(e, m)' => d = e
                        /\ \A i \in DOMAIN requests' : requests'[i].key = m =>
                               \/ stored[m].state = "id"
                               \/ \E d \in Calls : Holds(d, m)' /\ call'[d].step = "store"
                        /\ \A i, j \in DOMAIN requests' :
                               requests'[i].key = m /\ requests'[j].key = m => i = j
      BY <2>1 DEF HolderInv, ReservedKeys
    <3>1. /\ \A d \in Calls : Holds(d, m) => stored[m].state = "pending"
          /\ \A d, e \in Calls : Holds(d, m) /\ Holds(e, m) => d = e
          /\ \A i \in DOMAIN requests : requests[i].key = m =>
                 \/ stored[m].state = "id"
                 \/ \E d \in Calls : Holds(d, m) /\ call[d].step = "store"
          /\ \A i, j \in DOMAIN requests : requests[i].key = m /\ requests[j].key = m => i = j
      BY DEF HolderInv
    <3>2. \A d \in Calls : Holds(d, m)' <=> Holds(d, m)
      BY <1>0, <2>3, <2>4 DEF Holds
    <3>3. CASE m = k
      <4>1. Holds(c, k)
        BY <1>0 DEF Holds
      <4>2. \A i \in DOMAIN requests : requests[i].key # k
        BY <1>0, <3>1, <3>3, <4>1
      <4>3. \A i \in DOMAIN requests' : requests'[i].key = k => i = new
        BY <2>2, <2>7, <2>8, <4>2
      <4>4. Holds(c, m)' /\ call'[c].step = "store"
        BY <2>4, <3>3 DEF Holds
      <4> QED
        BY <3>1, <3>2, <3>3, <4>3, <4>4
    <3>4. CASE m # k
      <4>1. \A i \in DOMAIN requests' : requests'[i].key = m => i \in DOMAIN requests /\ requests[i].key = m
        BY <2>2, <2>7, <2>8, <3>4
      <4>2. \A d \in Calls : Holds(d, m) => call'[d] = call[d]
        BY <2>4, <3>4 DEF Holds
      <4> QED
        BY <3>1, <3>2, <4>1, <4>2
    <3> QED
      BY <3>3, <3>4
  <2> QED
    BY <2>9, <2>11, <2>12
<1> QED
  BY <1>1, <1>2

\* The holder ends: it stores the id of the key's request, or there is none.
LEMMA EndStep ==
    ASSUME IInv, NEW c \in Calls, Store(c) \/ Release(c)
    PROVE  IInv'
<1> USE DEF IInv
<1> DEFINE k == call[c].key
           value == IF call[c].step = "store" THEN Answer(call[c].amount, call[c].id) ELSE Nothing
<1>1. /\ call[c].step \in {"store", "release"} /\ call' = [call EXCEPT ![c] = Idle]
      /\ stored' = Kept(k, value)
      /\ UNCHANGED <<requests, answered, unreserved, lapses>>
  BY DEF Store, Release
<1>2. /\ call' \in [Calls -> CallRows] /\ call'[c] = Idle
      /\ \A d \in Calls \ {c} : call'[d] = call[d]
  BY <1>1 DEF RowsOK, Idle, CallRows
<1>3. /\ DOMAIN stored' = Keys
      /\ k \in Keys => stored'[k] = value
      /\ \A m \in Keys : m # k => stored'[m] = stored[m]
  BY <1>1, RequestsAssumption DEF Kept, RowsOK
<1>4. RowsOK'
  BY <1>1, <1>2, <1>3 DEF RowsOK, Idle
<1>5. \A id, m, n : Names(requests', id, m, n) <=> Names(requests, id, m, n)
  BY <1>1 DEF Names
<1>6. IdsOK'
  BY <1>1, <1>2, <1>3, <1>5 DEF IdsOK, Idle, Nothing, Answer
<1>7. HolderInv'
  <2> SUFFICES ASSUME lapses = 0, NEW m \in ReservedKeys
               PROVE  /\ \A d \in Calls : Holds(d, m)' => stored'[m].state = "pending"
                      /\ \A d, e \in Calls : Holds(d, m)' /\ Holds(e, m)' => d = e
                      /\ \A i \in DOMAIN requests : requests[i].key = m =>
                             \/ stored'[m].state = "id"
                             \/ \E d \in Calls : Holds(d, m)' /\ call'[d].step = "store"
                      /\ \A i, j \in DOMAIN requests :
                             requests[i].key = m /\ requests[j].key = m => i = j
    BY <1>1 DEF HolderInv, ReservedKeys
  <2>1. /\ \A d \in Calls : Holds(d, m) => stored[m].state = "pending"
        /\ \A d, e \in Calls : Holds(d, m) /\ Holds(e, m) => d = e
        /\ \A i \in DOMAIN requests : requests[i].key = m =>
               \/ stored[m].state = "id"
               \/ \E d \in Calls : Holds(d, m) /\ call[d].step = "store"
        /\ \A i, j \in DOMAIN requests : requests[i].key = m /\ requests[j].key = m => i = j
    BY DEF HolderInv
  <2>2. \A d \in Calls : Holds(d, m)' <=> Holds(d, m) /\ d # c
    BY <1>1, <1>2 DEF Holds, Idle
  <2>3. CASE m = k
    <3>1. Holds(c, m)
      BY <1>1, <2>3 DEF Holds
    <3>2. stored'[m] = value
      BY <1>3, <2>3 DEF ReservedKeys
    <3>3. \A d \in Calls : ~Holds(d, m)'
      BY <2>1, <2>2, <3>1
    <3>4. CASE call[c].step = "store"
      BY <2>1, <3>2, <3>3, <3>4 DEF Answer
    <3>5. CASE call[c].step = "release"
      <4>1. \A i \in DOMAIN requests : requests[i].key # m
        BY <2>1, <3>1, <3>5
      <4> QED
        BY <2>1, <3>3, <4>1
    <3> QED
      BY <1>1, <3>4, <3>5
  <2>4. CASE m # k
    <3>1. stored'[m] = stored[m]
      BY <1>3, <2>4 DEF ReservedKeys
    <3>2. \A d \in Calls : Holds(d, m) => d # c /\ call'[d] = call[d]
      BY <1>2, <2>4 DEF Holds
    <3> QED
      BY <2>1, <2>2, <3>1, <3>2
  <2> QED
    BY <2>3, <2>4
<1> QED
  BY <1>4, <1>6, <1>7

LEMMA UnkeyedStep ==
    ASSUME IInv, NEW c \in Calls, NEW n \in Asked, Unkeyed(c, n)
    PROVE  IInv'
<1> DEFINE row == [step |-> "create", key |-> NoKey, amount |-> n, id |-> 0]
<1>1. call' = [call EXCEPT ![c] = row] /\ call[c].step = "idle" /\ row \in CallRows
  <2>1. call' = [call EXCEPT ![c] = row]
    <3> DEFINE created(m) == [step |-> "create", key |-> NoKey, amount |-> m, id |-> 0]
    <3>1. [Idle EXCEPT !.step = "create"] = created(0)
      BY DEF Idle
    <3>2. [created(0) EXCEPT !.amount = n] = row
      OBVIOUS
    <3>3. [Idle EXCEPT !.step = "create", !.amount = n] = row
      BY <3>1, <3>2
    <3> QED
      BY <3>3 DEF Unkeyed
  <2>2. call[c].step = "idle" /\ row \in CallRows
    BY DEF Unkeyed, Idle, CallRows
  <2> QED
    BY <2>1, <2>2
<1>2. UNCHANGED <<requests, stored, answered, unreserved, lapses>>
  BY DEF Unkeyed
<1>3. \A k \in Keys : ~Holds(c, k) /\ row.key # k
  BY <1>1, RequestsAssumption DEF Holds
<1> QED
  BY <1>1, <1>2, <1>3, CallStep, ZenonT(30)

\* GET: the id is of the key's request; a key a call goes on with unread is
\* reserved no more.
LEMMA ReadKeyStep ==
    ASSUME IInv, NEW c \in Calls, ReadKey(c)
    PROVE  IInv'
<1> DEFINE k == call[c].key
<1>1. /\ call[c] \in CallRows /\ call[c].step = "read" /\ k \in Keys /\ call[c].amount \in Asked
      /\ UNCHANGED <<requests, stored, lapses>>
  BY DEF ReadKey, IInv, RowsOK
<1>2. \A m \in Keys : ~Holds(c, m)
  BY <1>1 DEF Holds
<1> DEFINE row == [call[c] EXCEPT !.step = "create"]
           new == IF stored[k].state = "id" /\ stored[k].amount = call[c].amount
                  THEN answered \union {<<k, call[c].amount, stored[k].id>>} ELSE answered
<1>3. CASE /\ call' = [call EXCEPT ![c] = row] /\ UNCHANGED answered
           /\ unreserved' = unreserved \union {k}
  <2>1. /\ call' = [call EXCEPT ![c] = row] /\ UNCHANGED answered
        /\ unreserved' = unreserved \union {k}
    BY <1>3
  <2>2. /\ row \in CallRows /\ row.step = "create" /\ row.key = k
        /\ row.amount = call[c].amount
    BY <1>1 DEF CallRows
  <2> HIDE DEF row
  <2> QED
    BY <1>1, <1>2, <2>1, <2>2, CallStep
<1>4. CASE /\ call' = [call EXCEPT ![c] = Idle] /\ answered' = new /\ UNCHANGED unreserved
  <2>1. call' = [call EXCEPT ![c] = Idle] /\ UNCHANGED unreserved
    BY <1>4
  <2>2. Idle \in CallRows /\ Idle.step = "idle"
    BY DEF CallRows, Idle
  <2>3. \A a \in answered' \ answered : Names(requests, a[3], a[1], a[2])
    <3>1. CASE stored[k].state = "id" /\ stored[k].amount = call[c].amount
      <4>1. answered' = answered \union {<<k, call[c].amount, stored[k].id>>}
        BY <1>4, <3>1
      <4>2. Names(requests, stored[k].id, k, call[c].amount)
        BY <1>1, <3>1 DEF IInv, IdsOK
      <4> QED
        BY <4>1, <4>2
    <3>2. CASE ~(stored[k].state = "id" /\ stored[k].amount = call[c].amount)
      BY <1>4, <3>2
    <3> QED
      BY <3>1, <3>2
  <2> QED
    BY <1>1, <1>2, <2>1, <2>2, <2>3, CallStep
<1> QED
  BY <1>3, <1>4 DEF ReadKey

\* The payment and the end of a request rewrite its status and what it paid.
LEMMA StatusWritten ==
    ASSUME RowsOK, NEW i \in DOMAIN requests, NEW new \in {"paid", "closed"}, NEW sum,
           requests' = [requests EXCEPT ![i].status = new, ![i].paid = sum]
    PROVE  /\ \E paid : requests' \in Seq(RequestRows(paid))
           /\ DOMAIN requests' = DOMAIN requests
           /\ \A j \in DOMAIN requests :
                  requests'[j].key = requests[j].key /\ requests'[j].amount = requests[j].amount
<1> DEFINE row(p) == [key |-> requests[i].key, amount |-> requests[i].amount, status |-> new, paid |-> p]
<1>1. ASSUME NEW paid, requests[i] \in RequestRows(paid)
      PROVE  /\ row(sum) \in RequestRows(paid \union {sum})
             /\ [requests[i] EXCEPT !.status = new, !.paid = sum] = row(sum)
  <2>1. requests[i] = [key |-> requests[i].key, amount |-> requests[i].amount,
                       status |-> requests[i].status, paid |-> requests[i].paid]
    BY <1>1 DEF RequestRows
  <2>2. [requests[i] EXCEPT !.status = new] = row(requests[i].paid)
    BY <2>1
  <2>3. [row(requests[i].paid) EXCEPT !.paid = sum] = row(sum)
    OBVIOUS
  <2>4. row(sum) \in RequestRows(paid \union {sum})
    BY <1>1 DEF RequestRows
  <2> QED
    BY <2>2, <2>3, <2>4
<1>2. PICK paid : requests \in Seq(RequestRows(paid))
  BY DEF RowsOK
<1>3. requests[i] \in RequestRows(paid)
  BY <1>2, ElementOfSeq, LenProperties
<1>4. requests' = [requests EXCEPT ![i] = row(sum)]
  BY <1>1, <1>3
<1> QED
  BY <1>1, <1>4, RowRewritten

LEMMA NextIInv == IInv /\ [Next]_vars => IInv'
<1> SUFFICES ASSUME IInv, [Next]_vars PROVE IInv'
    OBVIOUS
<1>0. RowsOK /\ \E paid : requests \in Seq(RequestRows(paid))
  BY DEF IInv, RowsOK
<1>1. CASE UNCHANGED <<requests, stored, call, answered, unreserved, lapses>>
  BY <1>0, <1>1, LedgerStep
<1>2. ASSUME NEW l \in Lines, Hold(l) \/ \E n \in 1..MostOf[l] : Approve(l, n) PROVE IInv'
  BY <1>1, <1>2 DEF Hold, Approve, RequestUnchanged
<1>3. ASSUME NEW S \in SUBSET Lines, MarkPaid(S) PROVE IInv'
  BY <1>1, <1>3 DEF MarkPaid, RequestUnchanged
<1>4. ASSUME NEW i \in Open, NEW S \in SUBSET Lines, ReadLines(i, S) PROVE IInv'
  BY <1>1, <1>4 DEF ReadLines
<1>5. CASE PayLines
  <2> DEFINE i == paying.on
  <2>1. UNCHANGED <<stored, call, answered, unreserved, lapses>>
    BY <1>5 DEF PayLines
  <2>2. CASE requests' = requests
    BY <1>1, <2>1, <2>2
  <2>3. CASE requests' = [requests EXCEPT ![i].status = "paid", ![i].paid = Sum(paying.lines)]
    <3>1. CASE i \in DOMAIN requests
      BY <1>0, <2>1, <2>3, <3>1, StatusWritten, LedgerStep
    <3>2. CASE i \notin DOMAIN requests
      <4>1. requests' = requests
        BY <1>0, <2>3, <3>2
      <4> QED
        BY <2>2, <4>1
    <3> QED
      BY <3>1, <3>2
  <2> QED
    BY <1>5, <2>2, <2>3 DEF PayLines
<1>6. ASSUME NEW i \in Open, Close(i) PROVE IInv'
  <2>1. /\ i \in DOMAIN requests /\ requests' = [requests EXCEPT ![i].status = "closed"]
        /\ UNCHANGED <<stored, call, answered, unreserved, lapses>>
    BY <1>6 DEF Close, Open
  <2>2. \A paid : requests[i] \in RequestRows(paid) =>
            LET row == [requests[i] EXCEPT !.status = "closed"] IN
            /\ \E p : row \in RequestRows(paid \union {p})
            /\ row.key = requests[i].key /\ row.amount = requests[i].amount
    BY DEF RequestRows
  <2> QED
    BY <1>0, <2>1, <2>2, RowRewritten, LedgerStep
<1>7. ASSUME NEW k \in Keys, Lapse(k) PROVE IInv'
  <2>1. /\ DOMAIN stored' = Keys /\ lapses' \in Nat /\ lapses' # 0
        /\ \A m \in Keys : stored'[m] = stored[m] \/ stored'[m] = Nothing
        /\ UNCHANGED <<requests, call, answered, unreserved>>
    BY <1>0, <1>7 DEF Lapse, RowsOK
  <2>2. RowsOK' /\ HolderInv'
    BY <1>0, <2>1 DEF RowsOK, HolderInv
  <2>3. IdsOK'
    BY <2>1 DEF IInv, IdsOK, Names, Nothing
  <2> QED
    BY <2>2, <2>3 DEF IInv
<1>8. CASE Restart
  <2>1. /\ \A c \in Calls : call'[c] = Idle
        /\ call' \in [Calls -> CallRows] /\ lapses' \in Nat /\ lapses' # 0
        /\ UNCHANGED <<requests, stored, answered, unreserved>>
    BY <1>0, <1>8 DEF Restart, RowsOK, Idle, CallRows
  <2>2. RowsOK' /\ HolderInv'
    BY <1>0, <2>1 DEF RowsOK, HolderInv, Idle
  <2>3. IdsOK'
    BY <2>1 DEF IInv, IdsOK, Names, Idle
  <2> QED
    BY <2>2, <2>3 DEF IInv
<1>9. CASE UNCHANGED vars
  BY <1>1, <1>9 DEF vars
<1> QED
  BY <1>2, <1>3, <1>4, <1>5, <1>6, <1>7, <1>8, <1>9, ReserveStep, UnkeyedStep, ReadKeyStep,
     CreateStep, EndStep DEF Next

-----------------------------------------------------------------------------
LineRows == [status : {"on_hold", "payable", "paid"}, amount : Nat, request : Nat]

\* Every request the payment may write holds no line yet, and a line that is
\* not paid is on no request.
PaidInv ==
    /\ line \in [Lines -> LineRows]
    /\ \A l \in Lines : line[l].request = 0 \/ line[l].request \in DOMAIN requests
    /\ paying # NoPayment => paying.on \in Open /\ paying.lines # {} /\ paying.lines \subseteq Lines
    /\ PaidWithinRequest

On(i) == {l \in Lines : line[l].request = i}

\* What PaidWithinRequest says of request i.
WorthOf(i) ==
    IF requests[i].status = "paid"
    THEN On(i) # {} /\ requests[i].paid = Sum(On(i)) /\ requests[i].paid <= requests[i].amount
    ELSE On(i) = {}

LEMMA PaidWithin ==
    PaidWithinRequest <=> /\ \A i \in DOMAIN requests : WorthOf(i)
                          /\ \A l \in Lines : line[l].request # 0 => line[l].status = "paid"
BY DEF PaidWithinRequest, WorthOf, On

\* The lines of a request that keep their amounts keep their sum.
LEMMA SameSum ==
    ASSUME NEW S, \A l \in S : line'[l].amount = line[l].amount
    PROVE  [l \in S |-> line'[l].amount] = [l \in S |-> line[l].amount]
OBVIOUS

\* A request keeps what it is worth with its row, its lines and their amounts.
LEMMA WorthKept ==
    ASSUME NEW i, WorthOf(i),
           requests'[i].status = requests[i].status \/ {requests'[i].status, requests[i].status} \subseteq {"requested", "closed"},
           requests'[i].paid = requests[i].paid, requests'[i].amount = requests[i].amount,
           \A l \in Lines : line'[l].request = i <=> line[l].request = i,
           \A l \in On(i) : line'[l].amount = line[l].amount
    PROVE  WorthOf(i)'
<1>1. On(i)' = On(i)
  BY DEF On
<1>2. Sum(On(i))' = Sum(On(i))
  BY <1>1, SameSum DEF Sum
<1> QED
  BY <1>1, <1>2 DEF WorthOf

\* The ledger beside the requests: lines move between review and payout, on no
\* request before and after.
LEMMA LedgerPaid ==
    ASSUME RowsOK, PaidInv, line' \in [Lines -> LineRows], UNCHANGED <<requests, paying>>,
           \A l \in Lines : \/ line'[l] = line[l]
                            \/ line[l].request = 0 /\ line'[l].request = 0
    PROVE  PaidInv'
<1>1. 0 \notin DOMAIN requests
  BY RequestsAre
<1>2. \A i \in DOMAIN requests : WorthOf(i)'
  <2> SUFFICES ASSUME NEW i \in DOMAIN requests PROVE WorthOf(i)'
      OBVIOUS
  <2>1. WorthOf(i) /\ \A l \in On(i) : line'[l] = line[l]
    BY <1>1, PaidWithin DEF PaidInv, On
  <2>2. \A l \in Lines : line'[l].request = i <=> line[l].request = i
    BY <1>1
  <2> QED
    BY <2>1, <2>2, WorthKept
<1>3. \A l \in Lines : line'[l].request # 0 => line'[l].status = "paid"
  BY PaidWithin DEF PaidInv
<1>4. PaidWithinRequest'
  BY <1>2, <1>3 DEF PaidWithinRequest, WorthOf, On, Sum
<1> QED
  BY <1>4 DEF PaidInv, Open

\* A step of the requests beside the ledger: rows are added, requested, and a
\* requested row may close.
LEMMA RequestsPaid ==
    ASSUME RowsOK, PaidInv, line' = line, DOMAIN requests \subseteq DOMAIN requests', 0 \notin DOMAIN requests',
           \A i \in DOMAIN requests :
               \/ requests'[i] = requests[i]
               \/ /\ requests[i].status = "requested" /\ requests'[i].status = "closed"
                  /\ requests'[i].paid = requests[i].paid /\ requests'[i].amount = requests[i].amount,
           \A i \in DOMAIN requests' \ DOMAIN requests : requests'[i].status = "requested",
           \/ paying' = NoPayment
           \/ /\ paying'.on \in DOMAIN requests /\ requests'[paying'.on].status = "requested"
              /\ paying'.lines # {} /\ paying'.lines \subseteq Lines
    PROVE  PaidInv'
<1>1. ASSUME NEW i \in DOMAIN requests PROVE WorthOf(i)'
  <2>1. WorthOf(i)
    BY PaidWithin DEF PaidInv
  <2> QED
    BY <2>1, WorthKept
<1>2. ASSUME NEW i \in DOMAIN requests' \ DOMAIN requests PROVE WorthOf(i)'
  <2>1. \A l \in Lines : line[l].request # i
    BY <1>2 DEF PaidInv
  <2>2. On(i)' = {}
    BY <2>1 DEF On
  <2>3. requests'[i].status = "requested"
    BY <1>2
  <2> QED
    BY <2>2, <2>3 DEF WorthOf
<1>3. PaidWithinRequest'
  <2>1. \A i \in DOMAIN requests' : WorthOf(i)'
    BY <1>1, <1>2
  <2>2. \A l \in Lines : line'[l].request # 0 => line'[l].status = "paid"
    BY PaidWithin DEF PaidInv
  <2> QED
    BY <2>1, <2>2 DEF PaidWithinRequest, WorthOf, On, Sum
<1>4. paying' # NoPayment => paying'.on \in Open' /\ paying'.lines # {} /\ paying'.lines \subseteq Lines
  BY DEF Open
<1>5. line' \in [Lines -> LineRows] /\ \A l \in Lines : line'[l].request = 0 \/ line'[l].request \in DOMAIN requests'
  BY DEF PaidInv
<1> QED
  BY <1>3, <1>4, <1>5 DEF PaidInv

\* The payment: the lines it locks are payable, so on no request, and the
\* request it holds is still requested, so no line is on it.
LEMMA PayPaid ==
    ASSUME RowsOK, PaidInv, PayLines
    PROVE  PaidInv'
<1>0. PICK i, S : i = paying.on /\ S = paying.lines
  OBVIOUS
<1>1. /\ i \in DOMAIN requests /\ requests[i].status = "requested" /\ S # {} /\ S \subseteq Lines
      /\ i # 0 /\ 0 \notin DOMAIN requests /\ paying' = NoPayment
  BY <1>0, RequestsAre DEF PaidInv, Open, PayLines
<1>2. CASE UNCHANGED <<line, requests>>
  BY <1>1, <1>2, RequestsPaid
<1>3. CASE S \subseteq Payable /\ CheckAmounts(Sum(S), i)
  <2>1. /\ line' = PaidOn(S, i) /\ S \subseteq Payable /\ Sum(S) <= requests[i].amount
        /\ requests' = [requests EXCEPT ![i].status = "paid", ![i].paid = Sum(S)]
    BY <1>0, <1>3 DEF PayLines, CheckAmounts
  <2>2. \A l \in S : line[l].request = 0 /\ line[l] \in LineRows
    BY <1>1, <2>1 DEF PaidInv, Payable, PaidWithinRequest
  <2>3. /\ line' \in [Lines -> LineRows]
        /\ \A l \in Lines : line'[l].amount = line[l].amount
        /\ \A l \in Lines : line'[l].request = IF l \in S THEN i ELSE line[l].request
        /\ \A l \in Lines : line'[l].status = IF l \in S THEN "paid" ELSE line[l].status
    <3>1. \A l \in S : [line[l] EXCEPT !.status = "paid", !.request = i]
                       = [status |-> "paid", amount |-> line[l].amount, request |-> i]
      <4> SUFFICES ASSUME NEW l \in S
                   PROVE  [line[l] EXCEPT !.status = "paid", !.request = i]
                          = [status |-> "paid", amount |-> line[l].amount, request |-> i]
          OBVIOUS
      <4> DEFINE row(s, r) == [status |-> s, amount |-> line[l].amount, request |-> r]
      <4>1. line[l] = row(line[l].status, line[l].request)
        BY <2>2 DEF LineRows
      <4>2. [row(line[l].status, line[l].request) EXCEPT !.status = "paid"] = row("paid", line[l].request)
        OBVIOUS
      <4>3. [row("paid", line[l].request) EXCEPT !.request = i] = row("paid", i)
        OBVIOUS
      <4> QED
        BY <4>1, <4>2, <4>3
    <3>2. i \in Nat
      BY <1>1, RequestsAre
    <3>3. line' = [l \in Lines |->
              IF l \in S THEN [status |-> "paid", amount |-> line[l].amount, request |-> i] ELSE line[l]]
      BY <2>1, <3>1 DEF PaidOn
    <3> QED
      BY <3>2, <3>3 DEF PaidInv, LineRows
  <2>4. /\ DOMAIN requests' = DOMAIN requests
        /\ \A j \in DOMAIN requests \ {i} : requests'[j] = requests[j]
        /\ \A j \in DOMAIN requests : requests'[j].amount = requests[j].amount
        /\ requests'[i].status = "paid" /\ requests'[i].paid = Sum(S)
    <3>1. PICK table : requests \in Seq(RequestRows(table))
      BY DEF RowsOK
    <3>2. requests[i] \in RequestRows(table)
      BY <1>1, <3>1, ElementOfSeq, LenProperties
    <3> DEFINE row(s, p) == [key |-> requests[i].key, amount |-> requests[i].amount, status |-> s, paid |-> p]
    <3>3. requests[i] = row(requests[i].status, requests[i].paid)
      BY <3>2 DEF RequestRows
    <3>4. [row(requests[i].status, requests[i].paid) EXCEPT !.status = "paid"] = row("paid", requests[i].paid)
      OBVIOUS
    <3>5. [row("paid", requests[i].paid) EXCEPT !.paid = Sum(S)] = row("paid", Sum(S))
      OBVIOUS
    <3>6. requests' = [requests EXCEPT ![i] = row("paid", Sum(S))]
      BY <1>1, <2>1, <3>3, <3>4, <3>5
    <3> QED
      BY <1>1, <3>6
  <2>5. On(i)' = S
    <3>1. \A l \in Lines : line[l].request # i
      BY <1>1, PaidWithin DEF PaidInv, WorthOf, On
    <3> QED
      BY <1>1, <2>3, <3>1 DEF On
  <2>6. WorthOf(i)'
    <3>1. Sum(On(i))' = Sum(S)
      <4>1. \A l \in S : line'[l].amount = line[l].amount
        BY <1>1, <2>3
      <4>2. Sum(On(i))' = SumFunction([l \in On(i)' |-> line'[l].amount])
        BY DEF Sum
      <4>3. Sum(S) = SumFunction([l \in S |-> line[l].amount])
        BY DEF Sum
      <4> QED
        BY <2>5, <4>1, <4>2, <4>3, SameSum
    <3> QED
      BY <1>1, <2>1, <2>4, <2>5, <3>1 DEF WorthOf
  <2>7. ASSUME NEW j \in DOMAIN requests, j # i PROVE WorthOf(j)'
    <3>1. WorthOf(j) /\ j # 0
      BY <1>1, PaidWithin DEF PaidInv
    <3>2. \A l \in Lines : line'[l].request = j <=> line[l].request = j
      BY <2>2, <2>3, <2>7, <3>1
    <3>3. \A l \in On(j) : line'[l].amount = line[l].amount
      BY <2>3 DEF On
    <3> QED
      BY <2>4, <2>7, <3>1, <3>2, <3>3, WorthKept
  <2>8. \A l \in Lines : line'[l].request # 0 => line'[l].status = "paid"
    BY <2>3, PaidWithin DEF PaidInv
  <2>9. PaidWithinRequest'
    <3>1. \A j \in DOMAIN requests' : WorthOf(j)'
      BY <2>4, <2>6, <2>7
    <3> QED
      BY <2>8, <3>1 DEF PaidWithinRequest, WorthOf, On, Sum
  <2>10. \A l \in Lines : line'[l].request = 0 \/ line'[l].request \in DOMAIN requests'
    BY <1>1, <2>3, <2>4 DEF PaidInv
  <2> QED
    BY <1>1, <2>3, <2>9, <2>10 DEF PaidInv
<1> QED
  BY <1>0, <1>2, <1>3 DEF PayLines

LEMMA NextPaid == RowsOK /\ PaidInv /\ [Next]_vars => PaidInv'
<1> SUFFICES ASSUME RowsOK, PaidInv, [Next]_vars PROVE PaidInv'
    OBVIOUS
<1>0. /\ Len(requests) \in Nat /\ DOMAIN requests = 1..Len(requests) /\ 0 \notin DOMAIN requests
      /\ \A l \in Lines : line[l].request # 0 => line[l].status = "paid"
  BY RequestsAre DEF PaidInv, PaidWithinRequest
<1>1. ASSUME NEW l \in Lines, Hold(l) \/ \E n \in 1..MostOf[l] : Approve(l, n) PROVE PaidInv'
  <2>1. PICK n \in Nat, new \in {"on_hold", "payable"} :
            line' = [line EXCEPT ![l].status = new, ![l].amount = n]
    BY <1>1, RequestsAssumption DEF Hold, Approve
  <2>2. line[l].status # "paid" /\ UNCHANGED <<requests, paying>>
    BY <1>1 DEF Hold, Approve, RequestUnchanged
  <2> DEFINE row(s, m) == [status |-> s, amount |-> m, request |-> line[l].request]
  <2>3. line[l] = row(line[l].status, line[l].amount) /\ line[l].request = 0
    BY <1>0, <2>2 DEF PaidInv, LineRows
  <2>4. [row(line[l].status, line[l].amount) EXCEPT !.status = new] = row(new, line[l].amount)
    OBVIOUS
  <2>5. [row(new, line[l].amount) EXCEPT !.amount = n] = row(new, n)
    OBVIOUS
  <2>6. line' = [line EXCEPT ![l] = row(new, n)]
    BY <2>1, <2>3, <2>4, <2>5
  <2>7. row(new, n) \in LineRows /\ row(new, n).request = 0
    BY <2>3 DEF LineRows
  <2> HIDE DEF row
  <2>8. line' \in [Lines -> LineRows] /\ \A m \in Lines : line'[m] = line[m] \/ (m = l /\ line'[m].request = 0)
    BY <2>6, <2>7 DEF PaidInv
  <2> QED
    BY <2>2, <2>3, <2>8, LedgerPaid
<1>2. ASSUME NEW S \in SUBSET Lines, MarkPaid(S) PROVE PaidInv'
  <2>1. line' = PaidOn(S, 0) /\ S \subseteq Payable /\ UNCHANGED <<requests, paying>>
    BY <1>2 DEF MarkPaid, RequestUnchanged
  <2>2. \A l \in S : line[l] \in LineRows /\ line[l].request = 0
    BY <1>0, <2>1 DEF Payable, PaidInv
  <2>3. \A l \in S : [line[l] EXCEPT !.status = "paid", !.request = 0]
                     = [status |-> "paid", amount |-> line[l].amount, request |-> 0]
    <3> SUFFICES ASSUME NEW l \in S
                 PROVE  [line[l] EXCEPT !.status = "paid", !.request = 0]
                        = [status |-> "paid", amount |-> line[l].amount, request |-> 0]
        OBVIOUS
    <3> DEFINE row(s) == [status |-> s, amount |-> line[l].amount, request |-> 0]
    <3>1. line[l] = row(line[l].status)
      BY <2>2 DEF LineRows
    <3>2. [row(line[l].status) EXCEPT !.status = "paid"] = row("paid")
      OBVIOUS
    <3>3. [row("paid") EXCEPT !.request = 0] = row("paid")
      OBVIOUS
    <3> QED
      BY <3>1, <3>2, <3>3
  <2>4. line' = [l \in Lines |->
            IF l \in S THEN [status |-> "paid", amount |-> line[l].amount, request |-> 0] ELSE line[l]]
    BY <2>1, <2>3 DEF PaidOn
  <2>5. line' \in [Lines -> LineRows] /\ \A l \in S : line'[l].request = 0
    BY <2>2, <2>4 DEF PaidInv, LineRows
  <2>6. \A l \in Lines : line'[l] = line[l] \/ l \in S
    BY <2>4
  <2> QED
    BY <2>1, <2>2, <2>5, <2>6, LedgerPaid
<1>3. ASSUME UNCHANGED line, UNCHANGED requests, paying' = paying \/ paying' = NoPayment PROVE PaidInv'
  BY <1>0, <1>3, RequestsPaid DEF PaidInv, Open
<1>4. ASSUME NEW c \in Calls, CreateLocked(c) PROVE PaidInv'
  <2>1. line' = line /\ paying' = paying
    BY <1>4 DEF CreateLocked
  <2>2. CASE requests' = requests
    BY <1>3, <2>1, <2>2
  <2>3. CASE requests' # requests
    <3> DEFINE row == [key |-> call[c].key, amount |-> call[c].amount, status |-> "requested", paid |-> 0]
    <3>1. requests' = Append(requests, row) /\ row.status = "requested"
      BY <1>4, <2>3 DEF CreateLocked
    <3> HIDE DEF row
    <3>2. /\ DOMAIN requests' = 1..(Len(requests) + 1)
          /\ requests'[Len(requests) + 1] = row
          /\ \A i \in DOMAIN requests : requests'[i] = requests[i]
      <4>1. PICK table : requests \in Seq(RequestRows(table))
        BY DEF RowsOK
      <4>2. requests \in Seq(RequestRows(table) \union {row})
        BY <4>1, SeqMonotonic
      <4> QED
        BY <1>0, <3>1, <4>2, AppendProperties, LenProperties
    <3>3. \A i \in DOMAIN requests' : i \in DOMAIN requests \/ i = Len(requests) + 1
      BY <1>0, <3>2
    <3> QED
      BY <1>0, <2>1, <3>1, <3>2, <3>3, RequestsPaid DEF PaidInv, Open
  <2> QED
    BY <2>2, <2>3
<1>5. ASSUME NEW i \in Open, NEW S \in SUBSET Lines, ReadLines(i, S) PROVE PaidInv'
  <2>1. paying' = [on |-> i, lines |-> S] /\ S # {} /\ UNCHANGED <<line, requests>>
    BY <1>5 DEF ReadLines
  <2> QED
    BY <1>0, <2>1, RequestsPaid DEF Open
<1>6. ASSUME NEW i \in Open, Close(i) PROVE PaidInv'
  <2>1. /\ requests' = [requests EXCEPT ![i].status = "closed"] /\ i \in DOMAIN requests
        /\ requests[i].status = "requested"
        /\ UNCHANGED <<line, paying>> /\ paying = NoPayment
    BY <1>6 DEF Close, Open
  <2>2. PICK table : requests \in Seq(RequestRows(table))
    BY DEF RowsOK
  <2>3. requests[i] \in RequestRows(table)
    BY <2>1, <2>2, ElementOfSeq, LenProperties
  <2>4. /\ DOMAIN requests' = DOMAIN requests
        /\ \A j \in DOMAIN requests \ {i} : requests'[j] = requests[j]
        /\ requests'[i].status = "closed" /\ requests'[i].paid = requests[i].paid
        /\ requests'[i].amount = requests[i].amount
    BY <2>1, <2>3 DEF RequestRows
  <2> QED
    BY <1>0, <2>1, <2>4, RequestsPaid
<1>7. ASSUME NEW c \in Calls, ReadKey(c) \/ Store(c) \/ Release(c) PROVE PaidInv'
  BY <1>3, <1>7 DEF ReadKey, Store, Release
<1>8. ASSUME NEW c \in Calls, NEW n \in Asked, Unkeyed(c, n) \/ \E k \in Keys : Reserve(c, k, n)
      PROVE  PaidInv'
  BY <1>3, <1>8 DEF Unkeyed, Reserve
<1>9. CASE Restart \/ \E k \in Keys : Lapse(k)
  BY <1>3, <1>9 DEF Restart, Lapse
<1>10. CASE UNCHANGED vars
  BY <1>3, <1>10 DEF vars
<1> QED
  BY <1>1, <1>2, <1>4, <1>5, <1>6, <1>7, <1>8, <1>9, <1>10, PayPaid DEF Next

\* A key makes one request, and a replay is answered with it, however calls,
\* retries and refusals interleave.
THEOREM KeyMakesOneRequestThm == Spec => []KeyMakesOneRequest
<1>1. IInv => KeyMakesOneRequest
  <2> SUFFICES ASSUME IInv PROVE KeyMakesOneRequest
      OBVIOUS
  <2>1. \A a \in answered : requests[a[3]].key = a[1] /\ requests[a[3]].amount = a[2]
    BY DEF IInv, IdsOK, Names
  <2>2. \A i \in DOMAIN requests : requests[i].key \in Keys \union {NoKey}
    BY RequestsAre DEF IInv
  <2>3. lapses = 0 => \A i, j \in DOMAIN requests :
            requests[i].key = requests[j].key /\ requests[i].key \notin unreserved \union {NoKey} => i = j
    BY <2>2 DEF IInv, HolderInv, ReservedKeys
  <2> QED
    BY <2>1, <2>3 DEF KeyMakesOneRequest
<1> QED
  BY <1>1, InitIInv, NextIInv, PTL DEF Spec

\* A paid request is worth the lines paid on it, at most what was asked for,
\* and no line is paid on another request, whatever was approved, held or paid
\* while the payment read its lines.
THEOREM PaidWithinRequestThm == Spec => []PaidWithinRequest
<1>1. Init => PaidInv
  <2> SUFFICES ASSUME Init PROVE PaidInv
      OBVIOUS
  <2>1. line \in [Lines -> LineRows] /\ DOMAIN requests = {}
    BY DEF Init, LineRows
  <2>2. PaidWithinRequest
    BY <2>1 DEF Init, PaidWithinRequest
  <2> QED
    BY <2>1, <2>2 DEF Init, PaidInv
<1>2. IInv => RowsOK
  BY DEF IInv
<1>3. PaidInv => PaidWithinRequest
  BY DEF PaidInv
<1> QED
  BY <1>1, <1>2, <1>3, InitIInv, NextIInv, NextPaid, PTL DEF Spec

-----------------------------------------------------------------------------
(* Proofs about OfflineRequests, the other half of what a key promises: the *)
(* queue on the phone and the calls it replays, for any number of actions,  *)
(* calls and faults.  What has to hold is said by OfflineQueue and          *)
(* IdempotentCalls, extended here; the steps of both together are an        *)
(* instance (Offline), for payout requests have actions of the same names.  *)

Offline == INSTANCE OfflineRequests

(* Sequences: what is in one after an append, and without some values. *)

\* What holds of 0 and of a number when of the one before it, holds up to n.
LEMMA UpTo ==
    ASSUME NEW n \in Nat, NEW T, T \subseteq 0..n, 0 \in T,
           \A k \in 1..n : k - 1 \in T => k \in T
    PROVE  T = 0..n
<1>1. SUFFICES ASSUME (0..n) \ T # {}
               PROVE  FALSE
  OBVIOUS
<1>2. (0..n) \ T \subseteq Nat
  OBVIOUS
<1>3. PICK d \in (0..n) \ T : \A y \in (0..n) \ T : ~(<<y, d>> \in OpToRel(<, Nat))
  BY <1>1, <1>2, NatLessThanWellFounded, WFMin
<1>4. d \in 0..n /\ d # 0
  BY <1>3
<1>7. d \in 1..n /\ d - 1 \in 0..n /\ d - 1 \in Nat /\ d - 1 < d /\ d \in Nat
  BY <1>4
<1>5. <<d - 1, d>> \in OpToRel(<, Nat)
  BY <1>7 DEF OpToRel
<1>6. d - 1 \in T
  BY <1>3, <1>5, <1>7
<1> QED
  BY <1>3, <1>6, <1>7

\* The values of a sequence.
LEMMA RangeOf ==
    ASSUME NEW X, NEW s \in Seq(X)
    PROVE  /\ Offline!Range(s) = {s[i] : i \in 1..Len(s)} /\ Offline!Range(s) \subseteq X
           /\ Len(s) \in Nat /\ DOMAIN s = 1..Len(s)
BY LenProperties, ElementOfSeq DEF Offline!Range

\* Appending adds one value.
LEMMA RangeAppend ==
    ASSUME NEW X, NEW s \in Seq(X), NEW x \in X
    PROVE  /\ Append(s, x) \in Seq(X)
           /\ Offline!Range(Append(s, x)) = Offline!Range(s) \cup {x}
<1>1. PICK r : r = Append(s, x)
  OBVIOUS
<1>2. PICK n \in Nat : n = Len(s) /\ DOMAIN s = 1..n
  BY LenProperties
<1>3. /\ r \in Seq(X) /\ Len(r) = n + 1 /\ r[n + 1] = x
      /\ \A i \in 1..n : r[i] = s[i]
  BY <1>1, <1>2, AppendProperties
<1>4. DOMAIN r = 1..(n + 1)
  BY <1>3, LenProperties
<1>5. \A i \in 1..(n + 1) : i \in 1..n \/ i = n + 1
  BY <1>2
<1>6. \A i \in 1..n : i \in 1..(n + 1)
  BY <1>2
<1>7. n + 1 \in 1..(n + 1)
  BY <1>2
<1> QED
  BY <1>1, <1>2, <1>3, <1>4, <1>5, <1>6, <1>7 DEF Offline!Range

\* The oldest and the rest.
LEMMA RangeHead ==
    ASSUME NEW X, NEW s \in Seq(X), s # <<>>
    PROVE  /\ Head(s) \in Offline!Range(s) /\ Head(s) = s[1] /\ 1 \in DOMAIN s
           /\ Tail(s) \in Seq(X) /\ Len(Tail(s)) = Len(s) - 1 /\ Len(s) \in Nat
           /\ \A i \in DOMAIN Tail(s) : Tail(s)[i] = s[i + 1] /\ i + 1 \in DOMAIN s
<1>1. PICK n \in Nat : n = Len(s) /\ DOMAIN s = 1..n
  BY LenProperties
<1>2. n # 0
  BY <1>1, EmptySeq
<1>3. Head(s) = s[1]
  OBVIOUS
<1>4. /\ Tail(s) \in Seq(X) /\ Len(Tail(s)) = n - 1
      /\ \A i \in 1..(n - 1) : Tail(s)[i] = s[i + 1]
  BY <1>1, HeadTailProperties
<1>5. DOMAIN Tail(s) = 1..(n - 1)
  BY <1>4, LenProperties
<1>6. \A i \in 1..(n - 1) : i + 1 \in 1..n
  BY <1>1
<1> QED
  BY <1>1, <1>2, <1>3, <1>4, <1>5, <1>6 DEF Offline!Range

\* What is left of a sequence without some values.
LEMMA WithoutValues ==
    ASSUME NEW X, NEW s \in Seq(X), NEW S
    PROVE  /\ Offline!Without(s, S) \in Seq(X)
           /\ Offline!Range(Offline!Without(s, S)) = Offline!Range(s) \ S
<1>1. PICK n \in Nat : n = Len(s) /\ DOMAIN s = 1..n
  BY LenProperties
<1>2. \A k \in 1..n : s[k] \in X
  BY <1>1, ElementOfSeq
<1> DEFINE Value(g, k) == IF k = 0 THEN <<>>
                          ELSE IF s[k] \in S THEN g[k - 1] ELSE Append(g[k - 1], s[k])
           Good(g, m) == \A k \in 0..m : g[k] = Value(g, k)
           Up(m) == \E g \in [0..m -> Seq(X)] : Good(g, m)
           T == {m \in 0..n : Up(m)}
<1>3. T = 0..n
  <2>1. 0 \in T
    <3>1. PICK g : g = [k \in 0..0 |-> <<>>]
      OBVIOUS
    <3>2. g \in [0..0 -> Seq(X)] /\ g[0] = <<>>
      BY <3>1, EmptySeq
    <3>3. Good(g, 0)
      BY <3>2
    <3> QED
      BY <1>1, <3>2, <3>3
  <2>2. ASSUME NEW m \in 1..n, m - 1 \in T
        PROVE  m \in T
    <3>1. PICK g \in [0..(m - 1) -> Seq(X)] : Good(g, m - 1)
      BY <2>2
    <3>2. PICK h : h = [k \in 0..m |-> IF k = m THEN Value(g, m) ELSE g[k]]
      OBVIOUS
    <3>3. \A k \in 0..m : k = m \/ (k \in 0..(m - 1) /\ k # m)
      BY <2>2
    <3>4. m - 1 \in 0..(m - 1) /\ m # 0 /\ m \in 0..m /\ m - 1 \in 0..m /\ m - 1 # m /\ s[m] \in X
      BY <1>2, <2>2
    <3>5. Value(g, m) \in Seq(X)
      BY <3>1, <3>4, AppendProperties
    <3>6. h \in [0..m -> Seq(X)]
      BY <3>1, <3>2, <3>3, <3>5
    <3>7. ASSUME NEW k \in 0..m
          PROVE  h[k] = Value(h, k)
      <4>1. CASE k = m
        BY <3>2, <3>4, <4>1
      <4>2. CASE k \in 0..(m - 1) /\ k # m
        <5>1. h[k] = g[k] /\ g[k] = Value(g, k)
          BY <3>1, <3>2, <3>7, <4>2
        <5>2. k # 0 => k - 1 \in 0..m /\ k - 1 # m
          BY <3>7, <4>2, <2>2
        <5> QED
          BY <3>2, <5>1, <5>2
      <4> QED
        BY <3>3, <4>1, <4>2
    <3>8. Good(h, m)
      BY <3>7
    <3>9. m \in 0..n
      BY <2>2
    <3> HIDE DEF Good
    <3> QED
      BY <3>6, <3>8, <3>9
  <2>3. T \subseteq 0..n
    OBVIOUS
  <2> HIDE DEF T
  <2> QED
    BY <2>1, <2>2, <2>3, UpTo
<1>4. PICK g \in [0..n -> Seq(X)] : Good(g, n)
  <2>1. n \in T
    BY <1>1, <1>3
  <2> HIDE DEF Good
  <2> QED
    BY <2>1
<1>5. g = [k \in 0..n |-> Value(g, k)]
  BY <1>4
<1>6. \E f : f = [k \in 0..n |-> Value(f, k)]
  BY <1>5
<1>7. PICK f : /\ f = [k \in 0..n |-> Value(f, k)]
               /\ Offline!Without(s, S) = f[n]
  BY <1>1, <1>6 DEF Offline!Without
<1> DEFINE Part(k) == {s[i] : i \in 1..k} \ S
           R == {k \in 0..n : f[k] \in Seq(X) /\ Offline!Range(f[k]) = Part(k)}
<1>8. 0 \in R
  <2>1. f[0] = <<>> /\ 0 \in 0..n
    BY <1>1, <1>7
  <2>2. <<>> \in Seq(X) /\ Offline!Range(<<>>) = {} /\ Part(0) = {}
    BY EmptySeq DEF Offline!Range
  <2> QED
    BY <2>1, <2>2
<1>9. ASSUME NEW k \in 1..n, k - 1 \in R
      PROVE  k \in R
  <2>1. PICK p : p = f[k - 1]
    OBVIOUS
  <2>2. p \in Seq(X) /\ Offline!Range(p) = Part(k - 1) /\ s[k] \in X
    BY <1>2, <1>9, <2>1
  <2>3. f[k] = IF s[k] \in S THEN p ELSE Append(p, s[k])
    <3>1. k \in 0..n /\ k # 0
      BY <1>9
    <3>2. f[k] = Value(f, k)
      BY <1>7, <3>1
    <3> QED
      BY <2>1, <3>1, <3>2
  <2>4. Part(k) = IF s[k] \in S THEN Part(k - 1) ELSE Part(k - 1) \cup {s[k]}
    <3>1. \A i \in 1..k : i \in 1..(k - 1) \/ i = k
      BY <1>9
    <3>2. \A i \in 1..(k - 1) : i \in 1..k
      BY <1>9
    <3>3. k \in 1..k
      BY <1>9
    <3> QED
      BY <3>1, <3>2, <3>3
  <2> HIDE DEF Part
  <2>5. f[k] \in Seq(X) /\ Offline!Range(f[k]) = Part(k)
    <3>1. CASE s[k] \in S
      BY <2>2, <2>3, <2>4, <3>1
    <3>2. CASE s[k] \notin S
      BY <2>2, <2>3, <2>4, <3>2, RangeAppend
    <3> QED
      BY <3>1, <3>2
  <2>6. k \in 0..n
    BY <1>9
  <2> QED
    BY <2>5, <2>6
<1>10. R = 0..n
  <2>1. R \subseteq 0..n
    OBVIOUS
  <2> HIDE DEF R
  <2> QED
    BY <1>8, <1>9, <2>1, UpTo
<1>11. f[n] \in Seq(X) /\ Offline!Range(f[n]) = Part(n)
  <2>1. n \in R
    <3> HIDE DEF R
    <3>1. n \in 0..n
      BY <1>1
    <3> QED
      BY <1>10, <3>1
  <2> HIDE DEF Part
  <2> QED
    BY <2>1
<1>12. Offline!Range(s) = {s[i] : i \in 1..n}
  BY <1>1 DEF Offline!Range
<1> QED
  BY <1>7, <1>11, <1>12

-----------------------------------------------------------------------------
(* The phone: where an action is, by its fate. *)

\* The rows of OfflineQueue.
Fates == {"none", "queued", "kept", "leaving", "gone"}
WriteRows == [snap : Seq(Offline!Actions), by : {"enqueue", "replay", "retry", "clear"},
              ids : SUBSET Offline!Actions]
ReplayRows == [step : {"wait", "persist", "settle"}, action : Offline!Actions, generation : Nat,
               request : Requests, settle : SUBSET Offline!Actions]
LoadRows == [generation : Nat, after : Nat, got : {None} \cup Seq(Seq(Offline!Actions))]
MadeRows == [kind : Offline!Kinds, to : 0..2]

\* None is told apart from a replay.
LEMMA OfflineConstants == MaxActions \in Nat /\ None \notin ReplayRows
BY QueueAssumption, ReplayAssumption DEF ReplayRows, Actions, Offline!Actions

Known == 1..Len(made)
Photo(a) == made[a].kind = "photo"

\* What the phone's parts hold; a fate is of an action made.
PhoneTypes ==
    /\ disk \in Seq(Offline!Actions) /\ pending \in Seq(Offline!Actions)
    /\ writes \in Seq(WriteRows)
    /\ made \in Seq(MadeRows) /\ Len(made) <= MaxActions
    /\ fate \in [Offline!Actions -> Fates]
    /\ \A a \in Offline!Actions : fate[a] = "none" <=> a \notin Known
    /\ generation \in Nat
    /\ replay # None => replay \in ReplayRows /\ replay.generation <= generation
    /\ load # None => load \in LoadRows /\ load.generation <= generation

\* The queue is in memory while it is read, and a read is of the disk as it is.
ReadInv ==
    /\ read => ~closed /\ load = None /\ signedIn
    /\ ~read => pending = <<>>
    /\ load # None /\ load.generation = generation =>
           /\ signedIn /\ load.after = Len(writes)
           /\ load.got # None => writes = <<>> /\ load.got = <<disk>>

\* A replay under way in this generation is of an action still queued; what it
\* cleans up after has left.
ReplayInv ==
    /\ replay # None /\ replay.generation = generation =>
           /\ read
           /\ replay.step = "wait" => replay.action \in Offline!Range(pending)
    /\ replay # None => fate[replay.action] # "none"
    /\ replay # None /\ replay.step = "settle" => \A a \in replay.settle : fate[a] = "gone"

\* The write a replay waits for is the one on its way.
ReplayWriteInv ==
    \A p \in DOMAIN writes : writes[p].by \in {"replay", "retry"} =>
        /\ replay # None /\ replay.step = "persist"
        /\ writes[p].by = "replay" => writes[p].ids = replay.settle
        /\ \A q \in DOMAIN writes : writes[q].by \in {"replay", "retry"} => p = q

\* In the snapshots of the write p and of all after it, and in none of them.
InAll(a, p) == \A q \in DOMAIN writes : q >= p => a \in Offline!Range(writes[q].snap)
InNone(a, p) == \A q \in DOMAIN writes : q >= p => a \notin Offline!Range(writes[q].snap)

\* Where an action's fate says it is.
NoneAt(a) ==
    a \notin Offline!Range(pending) /\ a \notin Offline!Range(disk) /\ InNone(a, 1)
KeptAt(a) ==
    /\ a \in Offline!Range(disk) /\ InAll(a, 1)
    /\ read => a \in Offline!Range(pending)
QueuedAt(a) ==
    /\ read /\ a \in Offline!Range(pending)
    /\ \E p \in DOMAIN writes : writes[p].by = "enqueue" /\ a \in writes[p].ids
LeavingAt(a) ==
    /\ a \notin Offline!Range(pending)
    /\ \E p \in DOMAIN writes : writes[p].by \in {"replay", "clear"} /\ a \in writes[p].ids

FateInv ==
    \A a \in Offline!Actions :
        /\ fate[a] \in {"queued", "kept", "leaving"} /\ Photo(a) => a \in files
        /\ fate[a] = "kept" => KeptAt(a)
        /\ fate[a] = "queued" => QueuedAt(a)
        /\ fate[a] = "leaving" => LeavingAt(a)
        /\ fate[a] \in {"none", "gone"} => NoneAt(a)

\* What a write on its way does when it lands.
EnqueueWrite(p) ==
    writes[p].by = "enqueue" =>
        \A a \in writes[p].ids : fate[a] # "none" /\ (fate[a] = "queued" => InAll(a, p))
LeavingWrite(p) ==
    writes[p].by \in {"replay", "clear"} =>
        /\ \A a \in writes[p].ids : fate[a] = "leaving" /\ InNone(a, p)
        /\ \A q \in DOMAIN writes : writes[q].by \in {"replay", "clear"} /\ p # q =>
               writes[p].ids \cap writes[q].ids = {}
ClearWrite(p) ==
    writes[p].by = "clear" =>
        /\ p = Len(writes) /\ ~signedIn /\ ~read
        /\ \A a \in Offline!Actions : fate[a] \notin {"queued", "kept"}

WriteInv == \A p \in DOMAIN writes : EnqueueWrite(p) /\ LeavingWrite(p) /\ ClearWrite(p)

PhoneInv == PhoneTypes /\ ReadInv /\ ReplayInv /\ ReplayWriteInv /\ FateInv /\ WriteInv
-----------------------------------------------------------------------------
\* Nothing is queued, on its way or under way when the app is installed.
LEMMA PhoneInit ==
    ASSUME Offline!InitPhone
    PROVE  PhoneInv
<1> USE DEF Offline!InitPhone, Offline!Actions
<1>1. DOMAIN writes = {} /\ Len(made) = 0 /\ Known = {}
  BY EmptySeq DEF Known
<1>2. Offline!Range(<<>>) = {}
  BY DEF Offline!Range
<1>3. PhoneTypes
  BY <1>1, EmptySeq, OfflineConstants DEF PhoneTypes, Fates
<1>4. ReadInv /\ ReplayInv /\ ReplayWriteInv /\ WriteInv
  BY <1>1 DEF ReadInv, ReplayInv, ReplayWriteInv, WriteInv
<1>5. FateInv
  BY <1>1, <1>2 DEF FateInv, NoneAt, InNone
<1> QED
  BY <1>3, <1>4, <1>5 DEF PhoneInv

\* Facts about the sequences: their indexes, and the actions made.
LEMMA Indexes ==
    ASSUME PhoneTypes
    PROVE  /\ Len(writes) \in Nat /\ DOMAIN writes = 1..Len(writes)
           /\ Len(made) \in Nat /\ DOMAIN made = Known /\ Known \subseteq Offline!Actions
           /\ \A p \in DOMAIN writes : writes[p] \in WriteRows
           /\ \A a \in Known : made[a] \in MadeRows
BY LenProperties, ElementOfSeq, OfflineConstants DEF PhoneTypes, Known, Offline!Actions

\* A write joins the ones on their way.
LEMMA WritesGrow ==
    ASSUME writes \in Seq(WriteRows), NEW row \in WriteRows, writes' = Append(writes, row)
    PROVE  /\ writes' \in Seq(WriteRows) /\ Len(writes') = Len(writes) + 1
           /\ Len(writes) \in Nat /\ DOMAIN writes = 1..Len(writes)
           /\ DOMAIN writes' = DOMAIN writes \cup {Len(writes) + 1}
           /\ Len(writes) + 1 \notin DOMAIN writes
           /\ \A p \in DOMAIN writes : writes'[p] = writes[p]
           /\ writes'[Len(writes) + 1] = row
<1>1. PICK n \in Nat : n = Len(writes) /\ DOMAIN writes = 1..n
  BY LenProperties
<1>2. PICK w : w = writes'
  OBVIOUS
<1>3. /\ w \in Seq(WriteRows) /\ Len(w) = n + 1 /\ w[n + 1] = row
      /\ \A i \in 1..n : w[i] = writes[i]
  BY <1>1, <1>2, AppendProperties
<1>4. DOMAIN w = 1..(n + 1)
  BY <1>3, LenProperties
<1>5. 1..(n + 1) = (1..n) \cup {n + 1} /\ n + 1 \notin 1..n
  BY <1>1
<1> QED
  BY <1>1, <1>2, <1>3, <1>4, <1>5

\* What holds an action before holds it after, if the new write does.
LEMMA AllGrow ==
    ASSUME writes \in Seq(WriteRows), NEW row \in WriteRows, writes' = Append(writes, row)
    PROVE  /\ \A a, p : InAll(a, p) /\ a \in Offline!Range(row.snap) => InAll(a, p)'
           /\ \A a, p : InNone(a, p) /\ a \notin Offline!Range(row.snap) => InNone(a, p)'
BY WritesGrow DEF InAll, InNone

\* The newest write alone.
LEMMA NewestWrite ==
    ASSUME writes \in Seq(WriteRows), NEW row \in WriteRows, writes' = Append(writes, row),
           NEW n, n = Len(writes) + 1
    PROVE  /\ \A a : a \in Offline!Range(row.snap) => InAll(a, n)'
           /\ \A a : a \notin Offline!Range(row.snap) => InNone(a, n)'
<1>1. \A q \in DOMAIN writes' : q >= n => q = n
  BY WritesGrow
<1>2. writes'[n] = row
  BY WritesGrow
<1> QED
  BY <1>1, <1>2 DEF InAll, InNone

\* The oldest write lands: the others move up.
LEMMA WritesShift ==
    ASSUME writes \in Seq(WriteRows), writes # <<>>, writes' = Tail(writes)
    PROVE  /\ writes' \in Seq(WriteRows) /\ Len(writes') = Len(writes) - 1 /\ Len(writes) \in Nat
           /\ 1 \in DOMAIN writes /\ Head(writes) = writes[1] /\ Head(writes) \in WriteRows
           /\ \A p \in DOMAIN writes' : p + 1 \in DOMAIN writes /\ writes'[p] = writes[p + 1]
           /\ \A p \in DOMAIN writes : p = 1 \/ p - 1 \in DOMAIN writes'
           /\ \A p \in DOMAIN writes \cup DOMAIN writes' : p \in Nat /\ p >= 1
           /\ \A a : InAll(a, 1) => a \in Offline!Range(Head(writes).snap) /\ InAll(a, 1)'
           /\ \A a : InNone(a, 1) => a \notin Offline!Range(Head(writes).snap) /\ InNone(a, 1)'
           /\ \A a : \A p \in DOMAIN writes' : InAll(a, p + 1) => InAll(a, p)'
           /\ \A a : \A p \in DOMAIN writes' : InNone(a, p + 1) => InNone(a, p)'
<1>1. PICK n \in Nat : n = Len(writes) /\ DOMAIN writes = 1..n
  BY LenProperties
<1>2. PICK w : w = writes'
  OBVIOUS
<1>3. /\ w \in Seq(WriteRows) /\ Len(w) = n - 1 /\ n # 0
      /\ \A p \in DOMAIN w : w[p] = writes[p + 1]
      /\ 1 \in DOMAIN writes /\ Head(writes) = writes[1] /\ Head(writes) \in WriteRows
  BY <1>1, <1>2, RangeHead, HeadTailProperties, EmptySeq
<1>4. DOMAIN w = 1..(n - 1)
  BY <1>3, LenProperties
<1>5. /\ \A p \in 1..(n - 1) : p + 1 \in 1..n
      /\ \A p \in 1..n : p = 1 \/ p - 1 \in 1..(n - 1)
      /\ \A p \in (1..n) \cup (1..(n - 1)) : p \in Nat /\ p >= 1
  BY <1>1
<1>6. /\ \A a : InAll(a, 1) => a \in Offline!Range(Head(writes).snap) /\ InAll(a, 1)'
      /\ \A a : InNone(a, 1) => a \notin Offline!Range(Head(writes).snap) /\ InNone(a, 1)'
  BY <1>1, <1>2, <1>3, <1>4, <1>5 DEF InAll, InNone
<1>7. ASSUME NEW p \in DOMAIN w, NEW q \in DOMAIN w, q >= p
      PROVE  q + 1 >= p + 1
  BY <1>4, <1>7
<1>8. /\ \A a : \A p \in DOMAIN w : InAll(a, p + 1) => InAll(a, p)'
      /\ \A a : \A p \in DOMAIN w : InNone(a, p + 1) => InNone(a, p)'
  BY <1>1, <1>2, <1>3, <1>4, <1>5, <1>7 DEF InAll, InNone
<1>9. /\ \A a : \A p \in DOMAIN writes' : InAll(a, p + 1) => InAll(a, p)'
      /\ \A a : \A p \in DOMAIN writes' : InNone(a, p + 1) => InNone(a, p)'
  BY <1>2, <1>8
<1>10. /\ \A p \in DOMAIN writes' : p + 1 \in DOMAIN writes /\ writes'[p] = writes[p + 1]
       /\ \A p \in DOMAIN writes : p = 1 \/ p - 1 \in DOMAIN writes'
       /\ \A p \in DOMAIN writes \cup DOMAIN writes' : p \in Nat /\ p >= 1
  BY <1>1, <1>2, <1>3, <1>4, <1>5
<1>11. /\ writes' \in Seq(WriteRows) /\ Len(writes') = Len(writes) - 1 /\ Len(writes) \in Nat
       /\ 1 \in DOMAIN writes /\ Head(writes) = writes[1] /\ Head(writes) \in WriteRows
  BY <1>1, <1>2, <1>3
<1> QED
  BY <1>6, <1>9, <1>10, <1>11

-----------------------------------------------------------------------------
(* The phone's steps: reading the queue, enqueueing. *)

\* What an action leaves alone keeps what is said of it.
LEMMA FateFrame ==
    ASSUME FateInv, UNCHANGED <<disk, pending, writes, read, files, made, fate>>
    PROVE  FateInv'
BY DEF FateInv, KeptAt, QueuedAt, LeavingAt, NoneAt, InAll, InNone, Photo

\* What WriteInv says depends on these alone...
LEMMA WriteFrame ==
    ASSUME WriteInv, UNCHANGED <<writes, read, signedIn, fate>>
    PROVE  WriteInv'
BY DEF WriteInv, EnqueueWrite, LeavingWrite, ClearWrite, InAll, InNone

\* ...and ReplayWriteInv on these.
LEMMA ReplayWriteFrame ==
    ASSUME ReplayWriteInv, UNCHANGED <<writes, replay>>
    PROVE  ReplayWriteInv'
BY DEF ReplayWriteInv

\* Before a replay waits for its write, and after, no write is one's.
LEMMA NoReplayWrite ==
    ASSUME ReplayWriteInv, replay = None \/ replay.step # "persist", writes' = writes
    PROVE  ReplayWriteInv'
BY DEF ReplayWriteInv

\* A read of the store leaves the queue as it is until it is over.
LEMMA LoadSteps ==
    ASSUME PhoneInv,
           Offline!StartLoad \/ Offline!ReadStore \/ Offline!ReadFails
    PROVE  PhoneInv'
<1> USE DEF PhoneInv
<1>1. /\ UNCHANGED <<disk, pending, writes, read, generation, replay, files, signedIn, made, fate>>
      /\ ~read
  BY DEF Offline!StartLoad, Offline!ReadStore, Offline!ReadFails, ReadInv
<1>2. load' # None => load' \in LoadRows /\ load'.generation <= generation
  <2>1. CASE Offline!StartLoad
    <3>1. load' = [generation |-> generation, after |-> Len(writes), got |-> None]
      BY <2>1 DEF Offline!StartLoad
    <3>2. Len(writes) \in Nat /\ generation \in Nat /\ generation <= generation
      BY Indexes DEF PhoneTypes
    <3> QED
      BY <3>1, <3>2 DEF LoadRows
  <2>2. CASE Offline!ReadStore
    <3>1. load # None /\ load' = [load EXCEPT !.got = <<disk>>] /\ load \in LoadRows
      BY <2>2 DEF Offline!ReadStore, PhoneTypes
    <3>2. <<disk>> \in Seq(Seq(Offline!Actions))
      BY DEF PhoneTypes
    <3> QED
      BY <3>1, <3>2 DEF LoadRows, PhoneTypes
  <2>3. CASE Offline!ReadFails
    BY <2>3 DEF Offline!ReadFails
  <2> QED
    BY <2>1, <2>2, <2>3
<1>3. PhoneTypes'
  BY <1>1, <1>2 DEF PhoneTypes, Known
<1>4. ReadInv'
  <2>1. CASE Offline!StartLoad
    BY <1>1, <2>1 DEF Offline!StartLoad, ReadInv
  <2>2. CASE Offline!ReadStore
    <3>1. /\ load # None /\ load' = [load EXCEPT !.got = <<disk>>] /\ load \in LoadRows
          /\ load.after = 0
      BY <2>2 DEF Offline!ReadStore, PhoneTypes
    <3>2. load'.generation = load.generation /\ load'.after = load.after /\ load'.got = <<disk>>
      BY <3>1 DEF LoadRows
    <3>3. Len(writes) = 0 => writes = <<>>
      BY EmptySeq DEF PhoneTypes
    <3> QED
      BY <1>1, <3>1, <3>2, <3>3 DEF ReadInv
  <2>3. CASE Offline!ReadFails
    BY <1>1, <2>3 DEF Offline!ReadFails, ReadInv
  <2> QED
    BY <2>1, <2>2, <2>3
<1>5. ReplayInv'
  BY <1>1 DEF ReplayInv
<1> QED
  BY <1>1, <1>3, <1>4, <1>5, FateFrame, WriteFrame, ReplayWriteFrame

\* What a good read brings back is what is durable.
LEMMA FinishLoadStep ==
    ASSUME PhoneInv, Offline!FinishLoad
    PROVE  PhoneInv'
<1> USE DEF PhoneInv
<1>1. /\ load # None /\ load.got # None /\ load' = None /\ ~read
      /\ UNCHANGED <<disk, writes, generation, replay, signedIn, made, fate>>
  BY DEF Offline!FinishLoad, ReadInv
<1>2. CASE ~Offline!Loads
  <2>1. UNCHANGED <<pending, read, closed, files>>
    BY <1>2 DEF Offline!FinishLoad
  <2>2. PhoneTypes' /\ ReadInv' /\ ReplayInv'
    BY <1>1, <2>1 DEF PhoneTypes, ReadInv, ReplayInv, Known
  <2> QED
    BY <1>1, <2>1, <2>2, FateFrame, WriteFrame, ReplayWriteFrame
<1>3. CASE Offline!Loads
  <2>1. /\ signedIn /\ writes = <<>> /\ load.got = <<disk>>
    BY <1>1, <1>3 DEF Offline!Loads, ReadInv
  <2>2. /\ pending' = disk /\ read' = TRUE /\ closed' = FALSE
        /\ files' = files \cap Offline!Range(disk)
    BY <1>3, <2>1 DEF Offline!FinishLoad
  <2>3. DOMAIN writes = {}
    BY <2>1
  <2>4. PhoneTypes'
    BY <1>1, <2>2 DEF PhoneTypes, Known
  <2>5. ReadInv' /\ ReplayInv' /\ ReplayWriteInv' /\ WriteInv'
    BY <1>1, <2>1, <2>2, <2>3 DEF ReadInv, ReplayInv, ReplayWriteInv, WriteInv
  <2>6. FateInv'
    BY <1>1, <2>2, <2>3 DEF FateInv, KeptAt, QueuedAt, LeavingAt, NoneAt, InAll, InNone, Photo
  <2> QED
    BY <2>4, <2>5, <2>6
<1> QED
  BY <1>2, <1>3

\* What is queued is durable only when its write lands.
LEMMA EnqueueStep ==
    ASSUME PhoneInv, NEW action \in MadeRows, Offline!Enqueue(action)
    PROVE  PhoneInv' /\ made' = Append(made, action) /\ Len(made) + 1 \in Offline!Actions
<1> USE DEF PhoneInv
<1>1. PICK a : a = Len(made) + 1
  OBVIOUS
<1>2. PICK q : q = pending'
  OBVIOUS
<1>3. PICK row : row = [snap |-> q, by |-> "enqueue", ids |-> {a}]
  OBVIOUS
<1>4. /\ a \in Offline!Actions /\ read /\ signedIn /\ ~closed /\ load = None
      /\ made' = Append(made, action)
      /\ q = Append(pending, a)
      /\ writes' = Append(writes, row)
      /\ fate' = [fate EXCEPT ![a] = "queued"]
      /\ files' = IF action.kind = "photo" THEN files \cup {a} ELSE files
      /\ UNCHANGED <<disk, load, read, closed, generation, replay, signedIn>>
  BY <1>1, <1>2, <1>3 DEF Offline!Enqueue, Offline!Ready, Offline!IsOpen, Offline!Persist
<1>5. /\ q \in Seq(Offline!Actions) /\ Offline!Range(q) = Offline!Range(pending) \cup {a}
      /\ row \in WriteRows
  BY <1>3, <1>4, RangeAppend DEF PhoneTypes, WriteRows
<1>6. PICK m \in Nat : m = Len(made)
  BY Indexes
<1>7. /\ made' \in Seq(MadeRows) /\ Len(made') = m + 1 /\ made'[a] = action
      /\ \A b \in Known : made'[b] = made[b]
  BY <1>1, <1>4, <1>6, AppendProperties DEF PhoneTypes, Known
<1>8. a \notin Known /\ Known' = Known \cup {a} /\ m + 1 <= MaxActions
  BY <1>1, <1>4, <1>6, <1>7, OfflineConstants DEF Known, Offline!Actions
<1>9. fate[a] = "none" /\ fate'[a] = "queued" /\ \A b \in Offline!Actions : b # a => fate'[b] = fate[b]
  BY <1>4, <1>8 DEF PhoneTypes
<1>10. PhoneTypes'
  <2>1. fate' \in [Offline!Actions -> Fates]
    BY <1>4 DEF PhoneTypes, Fates
  <2>2. writes' \in Seq(WriteRows)
    BY <1>4, <1>5, WritesGrow DEF PhoneTypes
  <2>3. \A b \in Offline!Actions : fate'[b] = "none" <=> b \notin Known'
    BY <1>8, <1>9 DEF PhoneTypes
  <2> QED
    BY <1>2, <1>4, <1>5, <1>7, <1>8, <2>1, <2>2, <2>3 DEF PhoneTypes
<1>11. ReadInv'
  BY <1>4 DEF ReadInv
<1>12. ReplayInv'
  <2>1. replay # None => replay \in ReplayRows
    BY DEF PhoneTypes
  <2>2. replay # None => fate'[replay.action] # "none"
    BY <1>9, <2>1 DEF ReplayInv, ReplayRows
  <2>3. replay # None /\ replay.step = "settle" => \A b \in replay.settle : fate'[b] = "gone"
    BY <1>9, <2>1 DEF ReplayInv, ReplayRows
  <2> QED
    BY <1>2, <1>4, <1>5, <2>2, <2>3 DEF ReplayInv
<1>13. PICK n \in Nat : n = Len(writes) + 1
  BY Indexes
<1>14. /\ DOMAIN writes' = DOMAIN writes \cup {n} /\ n \notin DOMAIN writes
       /\ \A p \in DOMAIN writes : writes'[p] = writes[p]
       /\ writes'[n] = row /\ row.by = "enqueue" /\ row.ids = {a} /\ row.snap = q
  BY <1>3, <1>4, <1>5, <1>13, WritesGrow DEF PhoneTypes
<1>15. ReplayWriteInv'
  BY <1>4, <1>14 DEF ReplayWriteInv
<1>16. /\ \A b, p : InAll(b, p) /\ b \in Offline!Range(q) => InAll(b, p)'
       /\ \A b, p : InNone(b, p) /\ b \notin Offline!Range(q) => InNone(b, p)'
       /\ a \in Offline!Range(q) /\ InAll(a, n)'
  BY <1>4, <1>5, <1>13, <1>14, AllGrow, NewestWrite DEF PhoneTypes
<1>17. FateInv'
  <2> SUFFICES ASSUME NEW b \in Offline!Actions
               PROVE  /\ fate'[b] \in {"queued", "kept", "leaving"} /\ Photo(b)' => b \in files'
                      /\ fate'[b] = "kept" => KeptAt(b)'
                      /\ fate'[b] = "queued" => QueuedAt(b)'
                      /\ fate'[b] = "leaving" => LeavingAt(b)'
                      /\ fate'[b] \in {"none", "gone"} => NoneAt(b)'
    BY DEF FateInv
  <2>1. CASE b = a
    <3>1. QueuedAt(b)'
      BY <1>2, <1>4, <1>14, <1>16, <2>1 DEF QueuedAt
    <3>2. Photo(b)' => b \in files'
      BY <1>4, <1>7, <2>1 DEF Photo
    <3> QED
      BY <1>9, <2>1, <3>1, <3>2
  <2>2. CASE b # a
    <3>1. fate'[b] = fate[b]
      BY <1>9, <2>2
    <3>2. fate[b] # "none" /\ Photo(b)' => Photo(b)
      BY <1>7 DEF Photo, PhoneTypes
    <3>3. fate[b] \in {"queued", "kept", "leaving"} /\ Photo(b)' => b \in files'
      BY <1>4, <3>2 DEF FateInv
    <3>4. fate[b] = "kept" => KeptAt(b)'
      BY <1>2, <1>4, <1>5, <1>16 DEF FateInv, KeptAt
    <3>5. fate[b] = "queued" => QueuedAt(b)'
      BY <1>2, <1>4, <1>5, <1>14 DEF FateInv, QueuedAt
    <3>6. fate[b] = "leaving" => LeavingAt(b)'
      BY <1>2, <1>5, <1>14, <2>2 DEF FateInv, LeavingAt
    <3>7. fate[b] \in {"none", "gone"} => NoneAt(b)'
      BY <1>2, <1>4, <1>5, <1>16, <2>2 DEF FateInv, NoneAt
    <3> QED
      BY <3>1, <3>3, <3>4, <3>5, <3>6, <3>7
  <2> QED
    BY <2>1, <2>2
<1>18. WriteInv'
  <2> SUFFICES ASSUME NEW p \in DOMAIN writes'
               PROVE  (EnqueueWrite(p) /\ LeavingWrite(p) /\ ClearWrite(p))'
    BY DEF WriteInv
  <2>1. CASE p = n
    BY <1>9, <1>14, <1>16, <2>1 DEF EnqueueWrite, LeavingWrite, ClearWrite
  <2>2. CASE p \in DOMAIN writes
    <3>1. writes'[p] = writes[p] /\ EnqueueWrite(p) /\ LeavingWrite(p) /\ ClearWrite(p)
          /\ writes[p] \in WriteRows
      BY <1>14, <2>2, Indexes DEF WriteInv
    <3>2. \A b \in writes[p].ids : b \in Offline!Actions
      BY <3>1 DEF WriteRows
    <3>3. writes[p].by # "clear"
      BY <1>4, <3>1 DEF ClearWrite
    <3>4. writes[p].by \in {"replay", "clear"} =>
             \A b \in writes[p].ids : fate'[b] = "leaving" /\ InNone(b, p)'
      BY <1>5, <1>9, <1>16, <3>1, <3>2 DEF LeavingWrite, FateInv, LeavingAt
    <3>5. LeavingWrite(p)'
      BY <1>14, <3>1, <3>4 DEF LeavingWrite
    <3>6. EnqueueWrite(p)'
      BY <1>5, <1>9, <1>16, <3>1, <3>2 DEF EnqueueWrite, FateInv, QueuedAt
    <3> QED
      BY <3>1, <3>3, <3>5, <3>6 DEF ClearWrite
  <2> QED
    BY <1>14, <2>1, <2>2
<1> QED
  BY <1>1, <1>4, <1>10, <1>11, <1>12, <1>15, <1>17, <1>18

-----------------------------------------------------------------------------
(* The phone's steps: a write lands. *)

\* Marking actions changes the fate of those alone.
LEMMA MarkFacts ==
    ASSUME fate \in [Offline!Actions -> Fates], NEW S, NEW to \in Fates, Offline!Mark(S, to)
    PROVE  /\ fate' \in [Offline!Actions -> Fates]
           /\ \A a \in Offline!Actions : fate'[a] = IF a \in S THEN to ELSE fate[a]
BY DEF Offline!Mark

\* The writes left after the oldest: what each says of its actions holds on,
\* when those leave only with their own write.
LEMMA ShiftedWrites ==
    ASSUME PhoneTypes, WriteInv, writes # <<>>, writes' = Tail(writes),
           UNCHANGED <<signedIn, read>>,
           \A a \in Offline!Actions : fate[a] # "none" => fate'[a] # "none",
           \A a \in Offline!Actions : fate'[a] = "queued" => fate[a] = "queued",
           \A a \in Offline!Actions : fate'[a] = "kept" => fate[a] \in {"queued", "kept"},
           \A a \in Offline!Actions : fate[a] = "leaving" =>
               \/ fate'[a] = "leaving"
               \/ writes[1].by \in {"replay", "clear"} /\ a \in writes[1].ids
    PROVE  WriteInv'
<1> SUFFICES ASSUME NEW p \in DOMAIN writes'
             PROVE  (EnqueueWrite(p) /\ LeavingWrite(p) /\ ClearWrite(p))'
  BY DEF WriteInv
<1>1. /\ p + 1 \in DOMAIN writes /\ writes'[p] = writes[p + 1] /\ p \in Nat /\ p >= 1 /\ p + 1 # 1
      /\ 1 \in DOMAIN writes /\ Len(writes') = Len(writes) - 1 /\ Len(writes) \in Nat
      /\ \A a : InAll(a, p + 1) => InAll(a, p)'
      /\ \A a : InNone(a, p + 1) => InNone(a, p)'
      /\ \A q \in DOMAIN writes' : q + 1 \in DOMAIN writes /\ writes'[q] = writes[q + 1] /\ q \in Nat
  BY WritesShift DEF PhoneTypes
<1>2. EnqueueWrite(p + 1) /\ LeavingWrite(p + 1) /\ ClearWrite(p + 1) /\ LeavingWrite(1)
  BY <1>1 DEF WriteInv
<1>3. writes[p + 1] \in WriteRows /\ writes[1] \in WriteRows
  BY <1>1, Indexes
<1>4. /\ \A a \in writes[p + 1].ids : a \in Offline!Actions
      /\ writes[p + 1].by \in {"enqueue", "replay", "retry", "clear"}
  BY <1>3 DEF WriteRows
<1>5. EnqueueWrite(p)'
  BY <1>1, <1>2, <1>4 DEF EnqueueWrite
<1>6. LeavingWrite(p)'
  <2>1. SUFFICES ASSUME writes[p + 1].by \in {"replay", "clear"}
                 PROVE  /\ \A a \in writes[p + 1].ids : fate'[a] = "leaving" /\ InNone(a, p)'
                        /\ \A q \in DOMAIN writes' : writes'[q].by \in {"replay", "clear"} /\ p # q =>
                               writes[p + 1].ids \cap writes'[q].ids = {}
    BY <1>1 DEF LeavingWrite
  <2>2. ASSUME NEW a \in writes[p + 1].ids
        PROVE  fate'[a] = "leaving" /\ InNone(a, p)'
    <3>1. fate[a] = "leaving" /\ InNone(a, p + 1) /\ a \in Offline!Actions
      BY <1>2, <1>4, <2>1, <2>2 DEF LeavingWrite
    <3>2. ~(writes[1].by \in {"replay", "clear"} /\ a \in writes[1].ids)
      BY <1>1, <1>2, <2>1, <2>2 DEF LeavingWrite
    <3> QED
      BY <1>1, <3>1, <3>2
  <2>3. ASSUME NEW q \in DOMAIN writes', writes'[q].by \in {"replay", "clear"}, p # q
        PROVE  writes[p + 1].ids \cap writes'[q].ids = {}
    <3>1. p + 1 # q + 1 /\ q + 1 \in DOMAIN writes /\ writes'[q] = writes[q + 1]
      BY <1>1, <2>3
    <3> QED
      BY <1>2, <2>1, <2>3, <3>1 DEF LeavingWrite
  <2> QED
    BY <2>2, <2>3
<1>7. ClearWrite(p)'
  <2>1. SUFFICES ASSUME writes[p + 1].by = "clear"
                 PROVE  /\ p = Len(writes') /\ ~signedIn' /\ ~read'
                        /\ \A a \in Offline!Actions : fate'[a] \notin {"queued", "kept"}
    BY <1>1 DEF ClearWrite
  <2>2. /\ p + 1 = Len(writes) /\ ~signedIn /\ ~read
        /\ \A a \in Offline!Actions : fate[a] \notin {"queued", "kept"}
    BY <1>2, <2>1 DEF ClearWrite
  <2> QED
    BY <1>1, <2>2
<1> QED
  BY <1>5, <1>6, <1>7

\* The oldest write lands.
LEMMA FlushStep ==
    ASSUME PhoneInv, Offline!Flush
    PROVE  PhoneInv'
<1> USE DEF PhoneInv
<1>1. PICK w : w = Head(writes)
  OBVIOUS
<1>2. /\ writes # <<>> /\ disk' = w.snap /\ writes' = Tail(writes)
      /\ load' = IF load # None /\ load.after > 0 THEN [load EXCEPT !.after = @ - 1] ELSE load
      /\ UNCHANGED <<pending, read, closed, generation, signedIn, made>>
  BY <1>1 DEF Offline!Flush
<1>3. /\ writes' \in Seq(WriteRows) /\ Len(writes') = Len(writes) - 1 /\ Len(writes) \in Nat
      /\ 1 \in DOMAIN writes /\ w = writes[1] /\ w \in WriteRows
      /\ \A p \in DOMAIN writes' : p + 1 \in DOMAIN writes /\ writes'[p] = writes[p + 1]
      /\ \A p \in DOMAIN writes : p = 1 \/ p - 1 \in DOMAIN writes'
      /\ \A p \in DOMAIN writes \cup DOMAIN writes' : p \in Nat /\ p >= 1
      /\ \A a : InAll(a, 1) => a \in Offline!Range(w.snap) /\ InAll(a, 1)'
      /\ \A a : InNone(a, 1) => a \notin Offline!Range(w.snap) /\ InNone(a, 1)'
  BY <1>1, <1>2, WritesShift DEF PhoneTypes
<1>4. /\ w.snap \in Seq(Offline!Actions) /\ w.ids \subseteq Offline!Actions
      /\ w.by \in {"enqueue", "replay", "retry", "clear"}
  BY <1>3 DEF WriteRows
<1>5. EnqueueWrite(1) /\ LeavingWrite(1) /\ ClearWrite(1)
  BY <1>3 DEF WriteInv
<1>6. /\ load' # None => load' \in LoadRows /\ load'.generation <= generation
      /\ ReadInv'
  <2>1. CASE load = None
    BY <1>2, <2>1 DEF ReadInv
  <2>2. CASE load # None /\ ~(load.after > 0)
    <3>1. load' = load /\ load \in LoadRows /\ load.generation <= generation
      BY <1>2, <2>2 DEF PhoneTypes
    <3>2. load.generation # generation
      BY <1>2, <1>3, <2>2, <3>1 DEF ReadInv, LoadRows, PhoneTypes
    <3> QED
      BY <1>2, <2>2, <3>1, <3>2 DEF ReadInv
  <2>3. CASE load # None /\ load.after > 0
    <3>1. load' = [load EXCEPT !.after = load.after - 1] /\ load \in LoadRows
          /\ load.generation <= generation
      BY <1>2, <2>3 DEF PhoneTypes
    <3>2. load.after - 1 \in Nat
      BY <2>3, <3>1 DEF LoadRows
    <3>3. /\ load' \in LoadRows /\ load'.generation = load.generation
          /\ load'.after = load.after - 1 /\ load'.got = load.got
      BY <3>1, <3>2 DEF LoadRows
    <3>4. load.generation = generation => load.got = None /\ signedIn /\ load.after = Len(writes)
      BY <1>2, <2>3 DEF ReadInv
    <3>5. ~read
      BY <2>3 DEF ReadInv
    <3> QED
      BY <1>2, <1>3, <2>3, <3>1, <3>3, <3>4, <3>5 DEF ReadInv
  <2> QED
    BY <2>1, <2>2, <2>3
<1>7. CASE w.by = "enqueue"
  <2>1. PICK S : S = {a \in w.ids : fate[a] = "queued"}
    OBVIOUS
  <2>2. /\ UNCHANGED <<files, replay>>
        /\ Offline!Mark(S, "kept")
    BY <1>1, <1>7, <2>1 DEF Offline!Flush
  <2>3. /\ fate' \in [Offline!Actions -> Fates]
        /\ \A a \in Offline!Actions : fate'[a] = IF a \in S THEN "kept" ELSE fate[a]
    BY <2>2, MarkFacts DEF PhoneTypes, Fates
  <2>4. \A a \in S : fate[a] = "queued" /\ InAll(a, 1) /\ a \in w.ids
    BY <1>3, <1>5, <1>7, <2>1 DEF EnqueueWrite
  <2>5. PhoneTypes'
    <3>1. \A a \in Offline!Actions : fate'[a] = "none" <=> fate[a] = "none"
      BY <2>3, <2>4
    <3> QED
      BY <1>2, <1>3, <1>4, <1>6, <2>2, <2>3, <3>1 DEF PhoneTypes, Known
  <2>6. ReplayInv'
    <3>1. replay # None => replay \in ReplayRows
      BY DEF PhoneTypes
    <3>2. replay # None => fate'[replay.action] # "none"
      BY <2>3, <3>1 DEF ReplayInv, ReplayRows
    <3>3. replay # None /\ replay.step = "settle" => \A a \in replay.settle : fate'[a] = "gone"
      BY <2>3, <2>4, <3>1 DEF ReplayInv, ReplayRows
    <3> QED
      BY <1>2, <2>2, <3>2, <3>3 DEF ReplayInv
  <2>7. ReplayWriteInv'
    <3> SUFFICES ASSUME NEW p \in DOMAIN writes', writes'[p].by \in {"replay", "retry"}
                 PROVE  /\ replay # None /\ replay.step = "persist"
                        /\ writes'[p].by = "replay" => writes'[p].ids = replay.settle
                        /\ \A q \in DOMAIN writes' : writes'[q].by \in {"replay", "retry"} => p = q
      BY <2>2 DEF ReplayWriteInv
    <3>1. /\ p + 1 \in DOMAIN writes /\ writes'[p] = writes[p + 1] /\ p \in Nat
          /\ \A q \in DOMAIN writes' : q + 1 \in DOMAIN writes /\ writes'[q] = writes[q + 1] /\ q \in Nat
      BY <1>3
    <3>2. /\ replay # None /\ replay.step = "persist"
          /\ writes[p + 1].by = "replay" => writes[p + 1].ids = replay.settle
          /\ \A q \in DOMAIN writes : writes[q].by \in {"replay", "retry"} => p + 1 = q
      BY <3>1 DEF ReplayWriteInv
    <3>3. ASSUME NEW q \in DOMAIN writes', writes'[q].by \in {"replay", "retry"}
          PROVE  p = q
      BY <3>1, <3>2, <3>3
    <3> QED
      BY <3>1, <3>2, <3>3
  <2>8. WriteInv'
    BY <1>2, <2>3, <2>4, ShiftedWrites
  <2>9. FateInv'
    <3> SUFFICES ASSUME NEW a \in Offline!Actions
                 PROVE  /\ fate'[a] \in {"queued", "kept", "leaving"} /\ Photo(a)' => a \in files'
                        /\ fate'[a] = "kept" => KeptAt(a)'
                        /\ fate'[a] = "queued" => QueuedAt(a)'
                        /\ fate'[a] = "leaving" => LeavingAt(a)'
                        /\ fate'[a] \in {"none", "gone"} => NoneAt(a)'
      BY DEF FateInv
    <3>1. fate'[a] \in {"queued", "kept", "leaving"} /\ Photo(a)' => a \in files'
      BY <1>2, <2>2, <2>3, <2>4 DEF FateInv, Photo
    <3>2. fate'[a] = "kept" => KeptAt(a)'
      <4>1. CASE a \in S
        BY <1>2, <1>3, <2>4, <4>1 DEF FateInv, KeptAt, QueuedAt
      <4>2. CASE a \notin S
        BY <1>2, <1>3, <2>3, <4>2 DEF FateInv, KeptAt
      <4> QED
        BY <4>1, <4>2
    <3>3. fate'[a] = "queued" => QueuedAt(a)'
      <4>1. SUFFICES ASSUME fate'[a] = "queued"
                     PROVE  QueuedAt(a)'
        OBVIOUS
      <4>2. fate[a] = "queued" /\ a \notin S /\ QueuedAt(a)
        BY <2>3, <4>1 DEF FateInv
      <4>3. PICK p \in DOMAIN writes : writes[p].by = "enqueue" /\ a \in writes[p].ids
        BY <4>2 DEF QueuedAt
      <4>4. p # 1
        BY <1>3, <2>1, <4>2, <4>3
      <4>5. p - 1 \in DOMAIN writes' /\ writes'[p - 1] = writes[p]
        BY <1>3, <4>4
      <4> QED
        BY <1>2, <4>2, <4>3, <4>5 DEF QueuedAt
    <3>4. fate'[a] = "leaving" => LeavingAt(a)'
      <4>1. SUFFICES ASSUME fate'[a] = "leaving"
                     PROVE  LeavingAt(a)'
        OBVIOUS
      <4>2. LeavingAt(a)
        BY <2>3, <4>1 DEF FateInv
      <4>3. PICK p \in DOMAIN writes : writes[p].by \in {"replay", "clear"} /\ a \in writes[p].ids
        BY <4>2 DEF LeavingAt
      <4>4. p # 1
        BY <1>3, <1>7, <4>3
      <4>5. p - 1 \in DOMAIN writes' /\ writes'[p - 1] = writes[p]
        BY <1>3, <4>4
      <4> QED
        BY <1>2, <4>2, <4>3, <4>5 DEF LeavingAt
    <3>5. fate'[a] \in {"none", "gone"} => NoneAt(a)'
      BY <1>2, <1>3, <2>3 DEF FateInv, NoneAt
    <3> QED
      BY <3>1, <3>2, <3>3, <3>4, <3>5
  <2> QED
    BY <1>6, <2>5, <2>6, <2>7, <2>8, <2>9
<1>8. CASE w.by \in {"replay", "clear"}
  <2>1. Offline!Mark(w.ids, "gone")
    BY <1>1, <1>8 DEF Offline!Flush
  <2>2. /\ fate' \in [Offline!Actions -> Fates]
        /\ \A a \in Offline!Actions : fate'[a] = IF a \in w.ids THEN "gone" ELSE fate[a]
    BY <2>1, MarkFacts DEF PhoneTypes, Fates
  <2>3. \A a \in w.ids : fate[a] = "leaving" /\ InNone(a, 1)
    BY <1>3, <1>5, <1>8 DEF LeavingWrite
  <2>4. WriteInv'
    BY <1>2, <1>3, <1>4, <1>8, <2>2, <2>3, ShiftedWrites
  <2>5. /\ \A a \in Offline!Actions : fate'[a] = "kept" => KeptAt(a)'
        /\ \A a \in Offline!Actions : fate'[a] \in {"none", "gone"} => NoneAt(a)'
    <3> SUFFICES ASSUME NEW a \in Offline!Actions
                 PROVE  /\ fate'[a] = "kept" => KeptAt(a)'
                        /\ fate'[a] \in {"none", "gone"} => NoneAt(a)'
      OBVIOUS
    <3>1. fate'[a] = "kept" => KeptAt(a)'
      BY <1>2, <1>3, <2>2 DEF FateInv, KeptAt
    <3>2. CASE a \in w.ids
      BY <1>2, <1>3, <2>2, <2>3, <3>2 DEF FateInv, LeavingAt, NoneAt
    <3>3. CASE a \notin w.ids
      BY <1>2, <1>3, <2>2, <3>1, <3>3 DEF FateInv, NoneAt
    <3> QED
      BY <2>2, <3>1, <3>2, <3>3
  <2>6. \A a \in Offline!Actions : fate'[a] = "queued" => QueuedAt(a)'
    <3> SUFFICES ASSUME NEW a \in Offline!Actions, fate'[a] = "queued"
                 PROVE  QueuedAt(a)'
      OBVIOUS
    <3>1. QueuedAt(a)
      BY <2>2 DEF FateInv
    <3>2. PICK p \in DOMAIN writes : writes[p].by = "enqueue" /\ a \in writes[p].ids
      BY <3>1 DEF QueuedAt
    <3>3. p - 1 \in DOMAIN writes' /\ writes'[p - 1] = writes[p]
      BY <1>3, <1>8, <3>2
    <3> QED
      BY <1>2, <3>1, <3>2, <3>3 DEF QueuedAt
  <2>7. \A a \in Offline!Actions : fate'[a] = "leaving" => LeavingAt(a)'
    <3> SUFFICES ASSUME NEW a \in Offline!Actions, fate'[a] = "leaving"
                 PROVE  LeavingAt(a)'
      OBVIOUS
    <3>1. LeavingAt(a) /\ a \notin w.ids
      BY <2>2 DEF FateInv
    <3>2. PICK p \in DOMAIN writes : writes[p].by \in {"replay", "clear"} /\ a \in writes[p].ids
      BY <3>1 DEF LeavingAt
    <3>3. p - 1 \in DOMAIN writes' /\ writes'[p - 1] = writes[p]
      BY <1>3, <3>1, <3>2
    <3> QED
      BY <1>2, <3>1, <3>2, <3>3 DEF LeavingAt
  <2>8. \A a \in Offline!Actions : fate'[a] = "none" <=> fate[a] = "none"
    BY <2>2, <2>3
  <2>9. CASE w.by = "replay"
    <3>1. UNCHANGED files /\ replay' = [replay EXCEPT !.step = "settle"]
      BY <1>1, <2>9 DEF Offline!Flush
    <3>2. /\ replay # None /\ replay.step = "persist" /\ w.ids = replay.settle
          /\ \A q \in DOMAIN writes : writes[q].by \in {"replay", "retry"} => 1 = q
      BY <1>3, <2>9 DEF ReplayWriteInv
    <3>3. replay \in ReplayRows /\ replay.generation <= generation
      BY <3>2 DEF PhoneTypes
    <3>4. /\ replay' \in ReplayRows /\ replay'.step = "settle" /\ replay'.action = replay.action
          /\ replay'.generation = replay.generation /\ replay'.settle = replay.settle
      BY <3>1, <3>3 DEF ReplayRows
    <3>5. PhoneTypes'
      BY <1>2, <1>3, <1>4, <1>6, <2>2, <2>8, <3>3, <3>4 DEF PhoneTypes, Known
    <3>6. ReplayInv'
      <4>1. fate'[replay.action] # "none"
        BY <2>8, <3>2, <3>3 DEF ReplayInv, ReplayRows
      <4>2. \A a \in replay.settle : fate'[a] = "gone"
        BY <1>4, <2>2, <3>2
      <4> QED
        BY <1>2, <3>2, <3>4, <4>1, <4>2 DEF ReplayInv
    <3>7. \A p \in DOMAIN writes' : writes'[p].by \notin {"replay", "retry"}
      <4> SUFFICES ASSUME NEW p \in DOMAIN writes', writes'[p].by \in {"replay", "retry"}
                   PROVE  FALSE
        OBVIOUS
      <4>1. p + 1 \in DOMAIN writes /\ writes'[p] = writes[p + 1] /\ p \in Nat /\ p >= 1
        BY <1>3
      <4> QED
        BY <3>2, <4>1
    <3>8. ReplayWriteInv'
      BY <3>7 DEF ReplayWriteInv
    <3>9. \A a \in Offline!Actions :
             fate'[a] \in {"queued", "kept", "leaving"} /\ Photo(a)' => a \in files'
      BY <1>2, <2>2, <3>1 DEF FateInv, Photo
    <3>10. FateInv'
      BY <2>5, <2>6, <2>7, <3>9 DEF FateInv
    <3> QED
      BY <1>6, <2>4, <3>5, <3>6, <3>8, <3>10
  <2>10. CASE w.by = "clear"
    <3>1. files' = {} /\ UNCHANGED replay
      BY <1>1, <2>10 DEF Offline!Flush
    <3>2. /\ Len(writes) = 1 /\ ~signedIn /\ ~read
          /\ \A a \in Offline!Actions : fate[a] \notin {"queued", "kept"}
      BY <1>3, <1>5, <2>10 DEF ClearWrite
    <3>3. DOMAIN writes' = {}
      BY <1>3, <3>2, LenProperties
    <3>4. PhoneTypes'
      BY <1>2, <1>3, <1>4, <1>6, <2>2, <2>8, <3>1 DEF PhoneTypes, Known
    <3>5. ReplayInv'
      <4>1. replay # None => replay \in ReplayRows
        BY DEF PhoneTypes
      <4>2. replay # None => fate'[replay.action] # "none"
        BY <2>8, <4>1 DEF ReplayInv, ReplayRows
      <4>3. replay # None /\ replay.step = "settle" => \A a \in replay.settle : fate'[a] = "gone"
        BY <2>2, <4>1 DEF ReplayInv, ReplayRows
      <4> QED
        BY <1>2, <3>1, <4>2, <4>3 DEF ReplayInv
    <3>6. ReplayWriteInv'
      BY <3>3 DEF ReplayWriteInv
    <3>7. \A a \in Offline!Actions : fate'[a] \notin {"queued", "kept", "leaving"}
      BY <2>2, <2>7, <3>2, <3>3 DEF LeavingAt
    <3>8. FateInv'
      BY <2>5, <3>7 DEF FateInv
    <3> QED
      BY <1>6, <2>4, <3>4, <3>5, <3>6, <3>8
  <2> QED
    BY <1>8, <2>9, <2>10
<1>9. CASE w.by = "retry"
  <2>1. replay' = None /\ UNCHANGED <<fate, files>>
    BY <1>1, <1>9 DEF Offline!Flush
  <2>2. PhoneTypes'
    BY <1>2, <1>3, <1>4, <1>6, <2>1 DEF PhoneTypes, Known
  <2>3. ReplayInv'
    BY <2>1 DEF ReplayInv
  <2>4. \A p \in DOMAIN writes' : writes'[p].by \notin {"replay", "retry"}
    <3> SUFFICES ASSUME NEW p \in DOMAIN writes', writes'[p].by \in {"replay", "retry"}
                 PROVE  FALSE
      OBVIOUS
    <3>1. p + 1 \in DOMAIN writes /\ writes'[p] = writes[p + 1] /\ p \in Nat /\ p >= 1
      BY <1>3
    <3> QED
      BY <1>3, <1>9, <3>1 DEF ReplayWriteInv
  <2>5. ReplayWriteInv'
    BY <2>4 DEF ReplayWriteInv
  <2>6. WriteInv'
    BY <1>2, <2>1, ShiftedWrites
  <2>7. FateInv'
    <3> SUFFICES ASSUME NEW a \in Offline!Actions
                 PROVE  /\ fate[a] \in {"queued", "kept", "leaving"} /\ Photo(a)' => a \in files
                        /\ fate[a] = "kept" => KeptAt(a)'
                        /\ fate[a] = "queued" => QueuedAt(a)'
                        /\ fate[a] = "leaving" => LeavingAt(a)'
                        /\ fate[a] \in {"none", "gone"} => NoneAt(a)'
      BY <2>1 DEF FateInv
    <3>1. fate[a] \in {"queued", "kept", "leaving"} /\ Photo(a)' => a \in files
      BY <1>2 DEF FateInv, Photo
    <3>2. fate[a] = "kept" => KeptAt(a)'
      BY <1>2, <1>3 DEF FateInv, KeptAt
    <3>3. fate[a] = "queued" => QueuedAt(a)'
      <4>1. SUFFICES ASSUME QueuedAt(a)
                     PROVE  QueuedAt(a)'
        BY DEF FateInv
      <4>2. PICK p \in DOMAIN writes : writes[p].by = "enqueue" /\ a \in writes[p].ids
        BY <4>1 DEF QueuedAt
      <4>3. p - 1 \in DOMAIN writes' /\ writes'[p - 1] = writes[p]
        BY <1>3, <1>9, <4>2
      <4> QED
        BY <1>2, <4>1, <4>2, <4>3 DEF QueuedAt
    <3>4. fate[a] = "leaving" => LeavingAt(a)'
      <4>1. SUFFICES ASSUME LeavingAt(a)
                     PROVE  LeavingAt(a)'
        BY DEF FateInv
      <4>2. PICK p \in DOMAIN writes : writes[p].by \in {"replay", "clear"} /\ a \in writes[p].ids
        BY <4>1 DEF LeavingAt
      <4>3. p - 1 \in DOMAIN writes' /\ writes'[p - 1] = writes[p]
        BY <1>3, <1>9, <4>2
      <4> QED
        BY <1>2, <4>1, <4>2, <4>3 DEF LeavingAt
    <3>5. fate[a] \in {"none", "gone"} => NoneAt(a)'
      BY <1>2, <1>3 DEF FateInv, NoneAt
    <3> QED
      BY <3>1, <3>2, <3>3, <3>4, <3>5
  <2> QED
    BY <1>6, <2>2, <2>3, <2>5, <2>6, <2>7
<1> QED
  BY <1>4, <1>7, <1>8, <1>9

-----------------------------------------------------------------------------
(* The phone's steps: logging out and in, a kill, sending, cleaning up. *)

\* Logging out: nothing read or replayed before it counts after it.
LEMMA ClearStep ==
    ASSUME PhoneInv, Offline!Clear
    PROVE  PhoneInv'
<1> USE DEF PhoneInv
<1>1. PICK S : S = {a \in Offline!Actions : fate[a] \in {"queued", "kept"}}
  OBVIOUS
<1>2. PICK row : row = [snap |-> <<>>, by |-> "clear", ids |-> S]
  OBVIOUS
<1>3. /\ signedIn /\ signedIn' = FALSE /\ closed' = TRUE /\ read' = FALSE
      /\ generation' = generation + 1 /\ pending' = <<>>
      /\ writes' = Append(writes, row) /\ Offline!Mark(S, "leaving")
      /\ UNCHANGED <<disk, load, replay, files, made>>
  BY <1>1, <1>2 DEF Offline!Clear, Offline!Persist
<1>4. row \in WriteRows /\ Offline!Range(row.snap) = {} /\ <<>> \in Seq(Offline!Actions)
  BY <1>1, <1>2, EmptySeq DEF WriteRows, Offline!Range
<1>5. /\ fate' \in [Offline!Actions -> Fates]
      /\ \A a \in Offline!Actions : fate'[a] = IF a \in S THEN "leaving" ELSE fate[a]
  BY <1>3, MarkFacts DEF PhoneTypes, Fates
<1>6. PICK n \in Nat : n = Len(writes) + 1
  BY Indexes
<1>7. /\ writes' \in Seq(WriteRows) /\ Len(writes') = n
      /\ DOMAIN writes' = DOMAIN writes \cup {n} /\ n \notin DOMAIN writes
      /\ \A p \in DOMAIN writes : writes'[p] = writes[p]
      /\ writes'[n] = row /\ row.by = "clear" /\ row.ids = S /\ row.snap = <<>>
  BY <1>2, <1>3, <1>4, <1>6, WritesGrow DEF PhoneTypes
<1>8. /\ \A b, p : InNone(b, p) => InNone(b, p)'
      /\ \A b : InNone(b, n)'
  BY <1>3, <1>4, <1>6, AllGrow, NewestWrite DEF PhoneTypes
<1>9. \A a \in Offline!Actions : fate'[a] = "none" <=> fate[a] = "none"
  BY <1>1, <1>5
<1>10. PhoneTypes'
  <2>1. \A x : x \in ReplayRows /\ x.generation <= generation => x.generation <= generation + 1
    BY DEF PhoneTypes, ReplayRows
  <2>2. \A x : x \in LoadRows /\ x.generation <= generation => x.generation <= generation + 1
    BY DEF PhoneTypes, LoadRows
  <2> QED
    BY <1>3, <1>4, <1>5, <1>7, <1>9, <2>1, <2>2 DEF PhoneTypes, Known
<1>11. ReadInv'
  BY <1>3 DEF ReadInv, PhoneTypes, LoadRows
<1>12. ReplayInv'
  <2>1. replay # None => replay \in ReplayRows /\ replay.generation # generation'
    BY <1>3 DEF PhoneTypes, ReplayRows
  <2>2. replay # None => fate'[replay.action] # "none"
    BY <1>9, <2>1 DEF ReplayInv, ReplayRows
  <2>3. replay # None /\ replay.step = "settle" => \A b \in replay.settle : fate'[b] = "gone"
    BY <1>1, <1>5, <2>1 DEF ReplayInv, ReplayRows
  <2> QED
    BY <1>3, <2>1, <2>2, <2>3 DEF ReplayInv
<1>13. ReplayWriteInv'
  BY <1>3, <1>7 DEF ReplayWriteInv
<1>14. \A p \in DOMAIN writes : writes[p].by # "clear"
  BY <1>3 DEF WriteInv, ClearWrite
<1>15. FateInv'
  <2> SUFFICES ASSUME NEW a \in Offline!Actions
               PROVE  /\ fate'[a] \in {"queued", "kept", "leaving"} /\ Photo(a)' => a \in files'
                      /\ fate'[a] \notin {"queued", "kept"}
                      /\ fate'[a] = "leaving" => LeavingAt(a)'
                      /\ fate'[a] \in {"none", "gone"} => NoneAt(a)'
    BY DEF FateInv
  <2>1. fate'[a] \in {"queued", "kept", "leaving"} /\ Photo(a)' => a \in files'
    BY <1>1, <1>3, <1>5 DEF FateInv, Photo
  <2>2. fate'[a] \notin {"queued", "kept"}
    BY <1>1, <1>5
  <2>3. a \notin Offline!Range(pending')
    BY <1>3, <1>4, <1>7
  <2>4. fate'[a] = "leaving" => LeavingAt(a)'
    BY <1>5, <1>7, <2>3 DEF FateInv, LeavingAt
  <2>5. fate'[a] \in {"none", "gone"} => NoneAt(a)'
    BY <1>3, <1>5, <1>8, <2>3 DEF FateInv, NoneAt
  <2> QED
    BY <2>1, <2>2, <2>4, <2>5
<1>16. WriteInv'
  <2> SUFFICES ASSUME NEW p \in DOMAIN writes'
               PROVE  (EnqueueWrite(p) /\ LeavingWrite(p) /\ ClearWrite(p))'
    BY DEF WriteInv
  <2>1. \A q \in DOMAIN writes : writes[q].by \in {"replay", "clear"} =>
            S \cap writes[q].ids = {}
    BY <1>1 DEF WriteInv, LeavingWrite
  <2>2. CASE p = n
    <3>1. \A a \in S : fate'[a] = "leaving" /\ InNone(a, n)'
      BY <1>1, <1>5, <1>8
    <3>2. LeavingWrite(p)'
      BY <1>7, <2>1, <2>2, <3>1 DEF LeavingWrite
    <3>3. ClearWrite(p)'
      BY <1>1, <1>3, <1>5, <1>7, <2>2 DEF ClearWrite
    <3> QED
      BY <1>7, <2>2, <3>2, <3>3 DEF EnqueueWrite
  <2>3. CASE p \in DOMAIN writes
    <3>1. writes'[p] = writes[p] /\ EnqueueWrite(p) /\ LeavingWrite(p) /\ writes[p] \in WriteRows
      BY <1>7, <2>3, Indexes DEF WriteInv
    <3>2. \A b \in writes[p].ids : b \in Offline!Actions
      BY <3>1 DEF WriteRows
    <3>3. EnqueueWrite(p)'
      BY <1>1, <1>5, <1>9, <3>1, <3>2 DEF EnqueueWrite
    <3>4. writes[p].by \in {"replay", "clear"} =>
             \A b \in writes[p].ids : fate'[b] = "leaving" /\ InNone(b, p)'
      BY <1>5, <1>8, <3>1, <3>2 DEF LeavingWrite
    <3>5. writes[p].by \in {"replay", "clear"} => writes[p].ids \cap S = {}
      BY <2>1, <2>3
    <3>6. LeavingWrite(p)'
      BY <1>7, <3>1, <3>4, <3>5 DEF LeavingWrite
    <3> QED
      BY <1>14, <2>3, <3>1, <3>3, <3>6 DEF ClearWrite
  <2> QED
    BY <1>7, <2>2, <2>3
<1> QED
  BY <1>10, <1>11, <1>12, <1>13, <1>15, <1>16

\* The next sign-in finds no write on its way.
LEMMA SignInStep ==
    ASSUME PhoneInv, Offline!SignIn
    PROVE  PhoneInv'
<1> USE DEF PhoneInv
<1>1. /\ writes = <<>> /\ signedIn' = TRUE
      /\ UNCHANGED <<disk, pending, writes, load, read, closed, generation, replay, files, made, fate>>
  BY DEF Offline!SignIn
<1>2. DOMAIN writes = {}
  BY <1>1
<1>3. PhoneTypes' /\ ReadInv' /\ ReplayInv' /\ WriteInv'
  BY <1>1, <1>2 DEF PhoneTypes, Known, ReadInv, ReplayInv, WriteInv
<1> QED
  BY <1>1, <1>3, FateFrame, ReplayWriteFrame

\* What is left after the app is killed is what was on the phone's storage.
LEMMA KillStep ==
    ASSUME PhoneInv, Offline!Kill
    PROVE  PhoneInv'
<1> USE DEF PhoneInv
<1>1. /\ pending' = <<>> /\ writes' = <<>> /\ load' = None /\ read' = FALSE /\ replay' = None
      /\ fate' = [a \in Offline!Actions |-> IF fate[a] \in {"none", "gone"} THEN fate[a]
                     ELSE IF a \in Offline!Range(disk) THEN "kept" ELSE "gone"]
      /\ UNCHANGED <<disk, generation, files, signedIn, made>>
  BY DEF Offline!Kill
<1>2. /\ DOMAIN writes' = {} /\ Offline!Range(pending') = {}
      /\ writes' \in Seq(WriteRows) /\ pending' \in Seq(Offline!Actions)
  BY <1>1, EmptySeq DEF Offline!Range
<1>3. fate' \in [Offline!Actions -> Fates]
  BY <1>1 DEF Fates, PhoneTypes
<1>4. \A a \in Offline!Actions : fate'[a] = "none" <=> fate[a] = "none"
  BY <1>1
<1>5. PhoneTypes'
  BY <1>1, <1>2, <1>3, <1>4 DEF PhoneTypes, Known
<1>6. ReadInv' /\ ReplayInv' /\ ReplayWriteInv' /\ WriteInv'
  BY <1>1, <1>2 DEF ReadInv, ReplayInv, ReplayWriteInv, WriteInv
<1>7. FateInv'
  <2> SUFFICES ASSUME NEW a \in Offline!Actions
               PROVE  /\ fate'[a] \notin {"queued", "leaving"}
                      /\ fate'[a] = "kept" /\ Photo(a)' => a \in files'
                      /\ fate'[a] = "kept" => KeptAt(a)'
                      /\ fate'[a] \in {"none", "gone"} => NoneAt(a)'
    BY DEF FateInv
  <2>1. fate'[a] \notin {"queued", "leaving"} /\ fate[a] \in Fates
    BY <1>1 DEF PhoneTypes
  <2>2. fate'[a] = "kept" => a \in Offline!Range(disk) /\ fate[a] \in {"queued", "kept", "leaving"}
    BY <1>1, <2>1 DEF Fates
  <2>3. fate'[a] = "kept" /\ Photo(a)' => a \in files'
    BY <1>1, <2>2 DEF FateInv, Photo
  <2>4. fate'[a] = "kept" => KeptAt(a)'
    BY <1>1, <1>2, <2>2 DEF KeptAt, InAll
  <2>5. fate'[a] \in {"none", "gone"} => NoneAt(a)'
    <3>1. fate'[a] \in {"none", "gone"} => a \notin Offline!Range(disk)
      BY <1>1 DEF FateInv, NoneAt
    <3> QED
      BY <1>1, <1>2, <3>1 DEF NoneAt, InNone
  <2> QED
    BY <2>1, <2>3, <2>4, <2>5
<1> QED
  BY <1>5, <1>6, <1>7

\* The oldest action is sent: one that is still queued.
LEMMA SendStep ==
    ASSUME PhoneInv, NEW s \in Requests, Offline!Send(s)
    PROVE  /\ PhoneInv'
           /\ replay' # None /\ replay'.step = "wait" /\ replay'.request = s
           /\ replay'.action = Head(pending) /\ Head(pending) \in Known
<1> USE DEF PhoneInv
<1>1. PICK a : a = Head(pending)
  OBVIOUS
<1>2. /\ replay = None /\ pending # <<>>
      /\ replay' = [step |-> "wait", action |-> a, generation |-> generation, request |-> s,
                    settle |-> {}]
      /\ UNCHANGED <<disk, pending, writes, load, read, closed, generation, files, signedIn, made, fate>>
  BY <1>1 DEF Offline!Send
<1>3. a \in Offline!Range(pending) /\ a \in Offline!Actions
  BY <1>1, <1>2, RangeHead, RangeOf DEF PhoneTypes
<1>4. fate[a] # "none" /\ a \in Known /\ read
  BY <1>2, <1>3 DEF FateInv, NoneAt, PhoneTypes, ReadInv
<1>5. replay' \in ReplayRows /\ replay'.generation = generation
  BY <1>2, <1>3 DEF ReplayRows, PhoneTypes
<1>6. PhoneTypes'
  BY <1>2, <1>5 DEF PhoneTypes, Known
<1>7. ReplayInv'
  BY <1>2, <1>3, <1>4 DEF ReplayInv
<1>8. ReadInv'
  BY <1>2 DEF ReadInv
<1>9. ReplayWriteInv'
  BY <1>2 DEF ReplayWriteInv
<1>10. replay' # None
  BY <1>5, OfflineConstants
<1> QED
  BY <1>1, <1>2, <1>4, <1>6, <1>7, <1>8, <1>9, <1>10, FateFrame, WriteFrame

\* The files of what left are deleted: nothing queued needs one of them.
LEMMA SettleStep ==
    ASSUME PhoneInv, Offline!Settle
    PROVE  PhoneInv'
<1> USE DEF PhoneInv
<1>1. /\ replay # None /\ replay.step = "settle" /\ replay' = None
      /\ files' = files \ replay.settle
      /\ UNCHANGED <<disk, pending, writes, load, read, closed, generation, signedIn, made, fate>>
  BY DEF Offline!Settle
<1>2. \A a \in replay.settle : fate[a] = "gone"
  BY <1>1 DEF ReplayInv
<1>3. PhoneTypes' /\ ReadInv' /\ ReplayInv'
  BY <1>1 DEF PhoneTypes, Known, ReadInv, ReplayInv
<1>4. ReplayWriteInv'
  BY <1>1 DEF ReplayWriteInv
<1>5. FateInv'
  BY <1>1, <1>2 DEF FateInv, KeptAt, QueuedAt, LeavingAt, NoneAt, InAll, InNone, Photo
<1> QED
  BY <1>1, <1>3, <1>4, <1>5, WriteFrame

\* A step of the server leaves the phone as it was.
LEMMA PhoneFrame ==
    ASSUME PhoneInv, UNCHANGED Offline!phone
    PROVE  PhoneInv'
<1> USE DEF PhoneInv
<1>1. UNCHANGED <<disk, pending, writes, load, read, closed, generation, replay, files, signedIn,
                  made, fate>>
  BY DEF Offline!phone
<1>2. PhoneTypes' /\ ReadInv' /\ ReplayInv'
  BY <1>1 DEF PhoneTypes, Known, ReadInv, ReplayInv
<1> QED
  BY <1>1, <1>2, FateFrame, WriteFrame, ReplayWriteFrame

-----------------------------------------------------------------------------
(* The phone's steps: an outcome. *)

\* What leaves the queue was in it.
LEMMA LeavingQueued ==
    ASSUME PhoneInv, replay # None, replay.step = "wait",
           replay.generation = generation, NEW outcome
    PROVE  /\ Offline!Leaving(outcome) \subseteq Offline!Range(pending)
           /\ Offline!Leaving(outcome) \subseteq Offline!Actions
           /\ \A a \in Offline!Leaving(outcome) : fate[a] \in {"queued", "kept"}
<1>1. replay.action \in Offline!Range(pending)
  BY DEF PhoneInv, ReplayInv
<1>2. Offline!Leaving(outcome) \subseteq Offline!Range(pending)
  BY <1>1 DEF Offline!Leaving
<1>3. Offline!Range(pending) \subseteq Offline!Actions
  BY RangeOf DEF PhoneInv, PhoneTypes
<1>4. \A a \in Offline!Range(pending) : fate[a] \in {"queued", "kept"}
  BY <1>3 DEF PhoneInv, PhoneTypes, FateInv, Fates, LeavingAt, NoneAt
<1> QED
  BY <1>2, <1>3, <1>4

\* A write of the queue as it becomes, for an outcome: those that leave are in
\* none of the writes from this one on.
LEMMA OutcomeWrite ==
    ASSUME PhoneInv, replay # None, replay.step = "wait",
           replay.generation = generation,
           NEW S \in SUBSET Offline!Actions, \A a \in S : fate[a] \in {"queued", "kept"},
           NEW row \in WriteRows, row.snap = pending', row.ids = S,
           row.by \in {"replay", "retry"}, row.by = "retry" => S = {},
           writes' = Append(writes, row), pending' \in Seq(Offline!Actions),
           Offline!Range(pending') = Offline!Range(pending) \ S,
           fate' \in [Offline!Actions -> Fates],
           \A a \in Offline!Actions : fate'[a] = IF a \in S THEN "leaving" ELSE fate[a],
           replay' \in ReplayRows, replay'.step = "persist",
           replay'.action = replay.action, replay'.generation = replay.generation,
           row.by = "replay" => replay'.settle = S,
           UNCHANGED <<disk, load, read, closed, generation, files, signedIn, made>>
    PROVE  PhoneInv'
<1> USE DEF PhoneInv
<1>1. read /\ signedIn /\ ~closed /\ load = None
  BY DEF ReplayInv, ReadInv
<1>2. /\ fate' \in [Offline!Actions -> Fates]
      /\ \A a \in Offline!Actions : fate'[a] = IF a \in S THEN "leaving" ELSE fate[a]
  OBVIOUS
<1>3. PICK n \in Nat : n = Len(writes) + 1
  BY Indexes
<1>4. /\ writes' \in Seq(WriteRows) /\ Len(writes') = n
      /\ DOMAIN writes' = DOMAIN writes \cup {n} /\ n \notin DOMAIN writes
      /\ \A p \in DOMAIN writes : writes'[p] = writes[p]
      /\ writes'[n] = row
  BY <1>3, WritesGrow DEF PhoneTypes
<1>5. PICK q : q = pending'
  OBVIOUS
<1>6. /\ \A b, p : InAll(b, p) /\ b \in Offline!Range(q) => InAll(b, p)'
      /\ \A b, p : InNone(b, p) /\ b \notin Offline!Range(q) => InNone(b, p)'
      /\ \A b : b \notin Offline!Range(q) => InNone(b, n)'
  BY <1>3, <1>5, AllGrow, NewestWrite DEF PhoneTypes
<1>7. replay \in ReplayRows /\ replay.generation <= generation /\ fate[replay.action] # "none"
  BY DEF PhoneTypes, ReplayInv
<1>8. /\ replay' \in ReplayRows /\ replay'.step = "persist"
      /\ row.by = "replay" => row.ids = replay'.settle
      /\ replay'.action = replay.action /\ replay'.generation = replay.generation
  OBVIOUS
<1>9. replay' # None
  BY <1>8, OfflineConstants
<1>10. \A a \in Offline!Actions : fate'[a] = "none" <=> fate[a] = "none"
  BY <1>2
<1>11. PhoneTypes'
  BY <1>2, <1>4, <1>7, <1>8, <1>10 DEF PhoneTypes, Known
<1>12. ReadInv'
  BY <1>1 DEF ReadInv
<1>13. ReplayInv'
  BY <1>1, <1>7, <1>8, <1>10 DEF ReplayInv, ReplayRows
<1>14. \A p \in DOMAIN writes : writes[p].by \notin {"replay", "retry"}
  BY DEF ReplayWriteInv
<1>15. ReplayWriteInv'
  BY <1>4, <1>8, <1>9, <1>14 DEF ReplayWriteInv
<1>16. Offline!Range(q) = Offline!Range(pending) \ S
  BY <1>5
<1>17. FateInv'
  <2> SUFFICES ASSUME NEW a \in Offline!Actions
               PROVE  /\ fate'[a] \in {"queued", "kept", "leaving"} /\ Photo(a)' => a \in files'
                      /\ fate'[a] = "kept" => KeptAt(a)'
                      /\ fate'[a] = "queued" => QueuedAt(a)'
                      /\ fate'[a] = "leaving" => LeavingAt(a)'
                      /\ fate'[a] \in {"none", "gone"} => NoneAt(a)'
    BY DEF FateInv
  <2>1. fate'[a] \in {"queued", "kept", "leaving"} /\ Photo(a)' => a \in files'
    BY <1>2 DEF FateInv, Photo
  <2>2. CASE a \in S
    <3>1. a \notin Offline!Range(pending') /\ fate'[a] = "leaving" /\ row.by = "replay"
      BY <1>2, <2>2
    <3>2. LeavingAt(a)'
      BY <1>4, <2>2, <3>1 DEF LeavingAt
    <3> QED
      BY <2>1, <3>1, <3>2
  <2>3. CASE a \notin S
    <3>1. fate'[a] = fate[a]
      BY <1>2, <2>3
    <3>2. fate[a] = "kept" => KeptAt(a)'
      BY <1>1, <1>5, <1>6, <1>16, <2>3 DEF FateInv, KeptAt
    <3>3. fate[a] = "queued" => QueuedAt(a)'
      BY <1>1, <1>4, <1>5, <1>16, <2>3 DEF FateInv, QueuedAt
    <3>4. fate[a] = "leaving" => LeavingAt(a)'
      BY <1>4, <1>5, <1>16 DEF FateInv, LeavingAt
    <3>5. fate[a] \in {"none", "gone"} => NoneAt(a)'
      BY <1>5, <1>6, <1>16 DEF FateInv, NoneAt
    <3> QED
      BY <2>1, <3>1, <3>2, <3>3, <3>4, <3>5
  <2> QED
    BY <2>2, <2>3
<1>18. WriteInv'
  <2> SUFFICES ASSUME NEW p \in DOMAIN writes'
               PROVE  (EnqueueWrite(p) /\ LeavingWrite(p) /\ ClearWrite(p))'
    BY DEF WriteInv
  <2>1. \A r \in DOMAIN writes : writes[r].by \notin {"replay", "clear"}
    BY <1>1, <1>14 DEF WriteInv, ClearWrite
  <2>2. CASE p = n
    <3>1. \A a \in S : fate'[a] = "leaving" /\ InNone(a, n)'
      BY <1>2, <1>6, <1>16
    <3>2. LeavingWrite(p)'
      BY <1>4, <2>1, <2>2, <3>1 DEF LeavingWrite
    <3> QED
      BY <1>4, <2>2, <3>2 DEF EnqueueWrite, ClearWrite
  <2>3. CASE p \in DOMAIN writes
    <3>1. writes'[p] = writes[p] /\ EnqueueWrite(p) /\ writes[p] \in WriteRows
      BY <1>4, <2>3, Indexes DEF WriteInv
    <3>2. \A b \in writes[p].ids : b \in Offline!Actions
      BY <3>1 DEF WriteRows
    <3>3. \A b \in Offline!Actions : fate'[b] = "queued" => fate[b] = "queued" /\ b \in Offline!Range(q)
      BY <1>2, <1>16 DEF FateInv, QueuedAt
    <3>4. EnqueueWrite(p)'
      BY <1>6, <1>10, <3>1, <3>2, <3>3 DEF EnqueueWrite
    <3> QED
      BY <2>1, <2>3, <3>1, <3>4 DEF LeavingWrite, ClearWrite
  <2> QED
    BY <1>4, <2>2, <2>3
<1> QED
  BY <1>11, <1>12, <1>13, <1>15, <1>17, <1>18

\* The replay that waited has its outcome, or gave up waiting.
LEMMA OutcomeStep ==
    ASSUME PhoneInv, NEW outcome, Offline!Outcome(outcome)
    PROVE  PhoneInv' /\ (replay' # None => replay'.step # "wait") /\ made' = made
<1> USE DEF PhoneInv
<1>1. /\ replay # None /\ replay.step = "wait" /\ replay \in ReplayRows
      /\ UNCHANGED <<disk, load, read, closed, generation, files, signedIn, made>>
  BY DEF Offline!Outcome, PhoneTypes
<1>2. CASE replay.generation # generation
  <2>1. replay' = None /\ UNCHANGED <<pending, writes, fate>>
    BY <1>2 DEF Offline!Outcome
  <2>2. PhoneTypes' /\ ReadInv' /\ ReplayInv'
    BY <1>1, <2>1 DEF PhoneTypes, Known, ReadInv, ReplayInv
  <2>3. ReplayWriteInv'
    BY <1>1, <2>1, NoReplayWrite
  <2> QED
    BY <1>1, <2>1, <2>2, <2>3, FateFrame, WriteFrame
<1>3. CASE replay.generation = generation /\ outcome = "retryLater"
  <2>1. PICK row : row = [snap |-> pending, by |-> "retry", ids |-> {}]
    OBVIOUS
  <2>2. /\ writes' = Append(writes, row)
        /\ replay' = [replay EXCEPT !.step = "persist"]
        /\ UNCHANGED <<pending, fate>>
    BY <1>3, <2>1 DEF Offline!Outcome, Offline!Persist
  <2>3. row \in WriteRows /\ row.snap = pending /\ row.ids = {} /\ row.by = "retry"
    BY <2>1 DEF WriteRows, PhoneTypes
  <2>4. /\ replay' \in ReplayRows /\ replay'.step = "persist"
        /\ replay'.action = replay.action /\ replay'.generation = replay.generation
    BY <1>1, <2>2 DEF ReplayRows
  <2>5. PICK S : S = {}
    OBVIOUS
  <2>6. /\ S \in SUBSET Offline!Actions
        /\ \A a \in S : fate[a] \in {"queued", "kept"}
        /\ fate' \in [Offline!Actions -> Fates]
        /\ \A a \in Offline!Actions : fate'[a] = IF a \in S THEN "leaving" ELSE fate[a]
    BY <2>2, <2>5 DEF PhoneTypes
  <2>7. /\ pending' \in Seq(Offline!Actions)
        /\ Offline!Range(pending') = Offline!Range(pending) \ S
        /\ row.snap = pending' /\ row.ids = S
    BY <2>2, <2>3, <2>5 DEF PhoneTypes
  <2>8. PhoneInv'
    BY <1>1, <1>3, <2>2, <2>3, <2>4, <2>5, <2>6, <2>7, OutcomeWrite
  <2> QED
    BY <1>1, <2>4, <2>8
<1>4. CASE replay.generation = generation /\ outcome # "retryLater"
  <2>1. PICK S : S = Offline!Leaving(outcome)
    OBVIOUS
  <2>2. PICK q : q = pending'
    OBVIOUS
  <2>3. PICK row : row = [snap |-> q, by |-> "replay", ids |-> S]
    OBVIOUS
  <2>4. /\ q = Offline!Without(pending, S)
        /\ writes' = Append(writes, row)
        /\ replay' = [replay EXCEPT !.step = "persist", !.settle = S]
        /\ Offline!Mark(S, "leaving")
    BY <1>4, <2>1, <2>2, <2>3 DEF Offline!Outcome, Offline!Persist
  <2>5. S \in SUBSET Offline!Actions /\ \A a \in S : fate[a] \in {"queued", "kept"}
    BY <1>1, <1>4, <2>1, LeavingQueued
  <2>6. pending \in Seq(Offline!Actions)
    BY DEF PhoneTypes
  <2>7. q \in Seq(Offline!Actions) /\ Offline!Range(q) = Offline!Range(pending) \ S
    BY <2>4, <2>6, WithoutValues
  <2>8. row \in WriteRows /\ row.snap = q /\ row.ids = S /\ row.by = "replay"
    BY <2>3, <2>5, <2>7 DEF WriteRows
  <2>9. /\ replay' \in ReplayRows /\ replay'.step = "persist" /\ replay'.settle = S
        /\ replay'.action = replay.action /\ replay'.generation = replay.generation
    BY <1>1, <2>4, <2>5 DEF ReplayRows
  <2>10. /\ fate' \in [Offline!Actions -> Fates]
         /\ \A a \in Offline!Actions : fate'[a] = IF a \in S THEN "leaving" ELSE fate[a]
    BY <2>4, MarkFacts DEF PhoneTypes, Fates
  <2>11. PhoneInv'
    BY <1>1, <1>4, <2>2, <2>4, <2>5, <2>7, <2>8, <2>9, <2>10, OutcomeWrite
  <2> QED
    BY <1>1, <2>9, <2>11
<1> QED
  BY <1>2, <1>3, <1>4

-----------------------------------------------------------------------------
(* The server: the calls, the keys and the task. *)

\* The rows of IdempotentCalls.
CallSteps ==
    {"free", "sent", "missing", "get", "run", "store", "release", "ok", "busy", "refused"}
OfflineCalls ==
    [step : CallSteps, action : Offline!Actions \cup {0}, keyed : BOOLEAN, reserved : BOOLEAN]

\* A call under way for a with its key; one that has reserved it; one whose
\* answer does not hang on the key any more, or not yet.
CallKeyed(row, a) == row.step # "free" /\ row.keyed /\ row.action = a
CallHolds(row, a) == CallKeyed(row, a) /\ row.reserved /\ row.step \in {"run", "store", "release"}
Silent(row, a) == CallKeyed(row, a) => row.step \in {"sent", "missing", "ok", "busy", "refused"}

\* What an action is for has come about.
Effect(a) == IF Photo(a) THEN applied[a] > 0 ELSE made[a].to \in reached

\* A call is for an action made; only a keyed call reserves, stores or releases.
CallOK(row) ==
    /\ row.step # "free" => row.action \in Known
    /\ row.reserved => row.keyed
    /\ row.step \in {"store", "release"} => row.reserved
    /\ row.step = "get" => row.keyed

ServerTypes ==
    /\ request \in [Requests -> OfflineCalls]
    /\ \A s \in Requests : CallOK(request[s])
    /\ key \in [Offline!Actions -> {"none", "pending", "stored"}]
    /\ applied \in [Offline!Actions -> Nat]
    /\ answer \in [Offline!Actions -> {"none", "done", "retryLater", "fileMissing", "rejected"}]
    /\ \A a \in Offline!Actions \ Known : key[a] = "none" /\ applied[a] = 0 /\ answer[a] = "none"
    /\ \A a \in Known : ~Photo(a) => made[a].to \in {1, 2}
    /\ status \in 0..3 /\ status \in reached /\ photos \in Nat

\* The replay that waits for a call made it for its action.
WaitingInv ==
    \A s \in Requests : Offline!Waiting(s) /\ request[s].step # "free" =>
        CallKeyed(request[s], replay.action)

\* A transition takes effect once because the status moves on...
TransitionInv ==
    \A a \in Known : ~Photo(a) /\ applied[a] > 0 => applied[a] = 1 /\ status >= made[a].to

\* ...a photo because of its key, or because it is too late for it: a key is
\* released, or found gone, only then.
KeyHeld(a) ==
    /\ \A s, t \in Requests : CallHolds(request[s], a) /\ CallHolds(request[t], a) => s = t
    /\ \A s \in Requests : CallHolds(request[s], a) => key[a] = "pending"
TooLate(row, a) ==
    CallKeyed(row, a) =>
        \/ status >= 2
        \/ /\ row.step # "release"
           /\ row.step = "run" => row.reserved
           /\ row.step = "get" => key[a] # "none"
PhotoOnce(a) ==
    Photo(a) =>
        /\ \A s \in Requests : TooLate(request[s], a)
        /\ applied[a] > 0 =>
               /\ applied[a] = 1 /\ key[a] # "none"
               /\ \A s \in Requests : CallHolds(request[s], a) => request[s].step = "store"
KeyInv == \A a \in Known \ exposed : KeyHeld(a) /\ PhotoOnce(a)

\* A call that answers or stores an outcome, a stored key and an action done all
\* speak of an effect.
EffectInv ==
    \A a \in Known :
        /\ key[a] = "stored" \/ answer[a] = "done" => Effect(a)
        /\ \A s \in Requests :
               CallKeyed(request[s], a) /\ request[s].step \in {"store", "ok"} => Effect(a)

ServerInv == ServerTypes /\ WaitingInv /\ TransitionInv /\ KeyInv /\ EffectInv
-----------------------------------------------------------------------------
\* One call moves on.
LEMMA GoMoves ==
    ASSUME ServerTypes, NEW s \in Requests, NEW to \in CallSteps, Offline!Go(s, to)
    PROVE  /\ request' \in [Requests -> OfflineCalls]
           /\ \A t \in Requests : t # s => request'[t] = request[t]
           /\ request'[s].step = to /\ request'[s].action = request[s].action
           /\ request'[s].keyed = request[s].keyed /\ request'[s].reserved = request[s].reserved
<1>1. request' = [request EXCEPT ![s] = [request[s] EXCEPT !.step = to]]
  BY DEF Offline!Go
<1>2. request[s] \in OfflineCalls
  BY DEF ServerTypes
<1>3. PICK row : row = [request[s] EXCEPT !.step = to]
  OBVIOUS
<1>4. /\ row \in OfflineCalls /\ row.step = to /\ row.action = request[s].action
      /\ row.keyed = request[s].keyed /\ row.reserved = request[s].reserved
  BY <1>2, <1>3 DEF OfflineCalls
<1>5. /\ request' \in [Requests -> OfflineCalls] /\ request'[s] = row
      /\ \A t \in Requests : t # s => request'[t] = request[t]
  BY <1>1, <1>3, <1>4 DEF ServerTypes
<1> QED
  BY <1>4, <1>5

\* One call comes to the handler, with the key reserved or not.
LEMMA RunMoves ==
    ASSUME ServerTypes, NEW s \in Requests, NEW reserved \in BOOLEAN, Offline!Run(s, reserved)
    PROVE  /\ request' \in [Requests -> OfflineCalls]
           /\ \A t \in Requests : t # s => request'[t] = request[t]
           /\ request'[s].step = "run" /\ request'[s].action = request[s].action
           /\ request'[s].keyed = request[s].keyed /\ request'[s].reserved = reserved
<1>1. PICK row : row = [request[s] EXCEPT !.step = "run", !.reserved = reserved]
  OBVIOUS
<1>2. request' = [request EXCEPT ![s] = row]
  <2>1. request[s] \in OfflineCalls /\ DOMAIN request = Requests
    BY DEF ServerTypes
  <2>2. PICK f : f = [request EXCEPT ![s].step = "run"]
    OBVIOUS
  <2> QED
    BY <1>1, <2>1 DEF Offline!Run
<1>3. request[s] \in OfflineCalls
  BY DEF ServerTypes
<1>4. /\ row \in OfflineCalls /\ row.step = "run" /\ row.action = request[s].action
      /\ row.keyed = request[s].keyed /\ row.reserved = reserved
  BY <1>1, <1>3 DEF OfflineCalls, CallSteps
<1>5. /\ request' \in [Requests -> OfflineCalls] /\ request'[s] = row
      /\ \A t \in Requests : t # s => request'[t] = request[t]
  BY <1>2, <1>4 DEF ServerTypes
<1> QED
  BY <1>4, <1>5

\* An effect stays.
LEMMA EffectStays ==
    ASSUME NEW a \in Known, Effect(a), made'[a] = made[a], reached \subseteq reached',
           applied[a] \in Nat, applied'[a] \in Nat, applied'[a] >= applied[a]
    PROVE  Effect(a)'
BY DEF Effect, Photo

\* It is too late for a photo as long as the status does not go back and its
\* key is there.
LEMMA LateKeeps ==
    ASSUME NEW a, PhotoOnce(a), NEW s \in Requests, TooLate(request[s], a)',
           \A t \in Requests : t # s => request'[t] = request[t], made'[a] = made[a],
           status \in Nat, status' \in Nat, status' >= status,
           key[a] # "none" => key'[a] # "none" \/ status' >= 2
    PROVE  Photo(a)' => (\A t \in Requests : TooLate(request[t], a))'
<1> SUFFICES ASSUME NEW t \in Requests, Photo(a)'
             PROVE  TooLate(request[t], a)'
  OBVIOUS
<1>1. CASE t = s
  BY <1>1
<1>2. CASE t # s
  <2>1. TooLate(request[t], a) /\ request'[t] = request[t]
    BY <1>2 DEF PhotoOnce, Photo
  <2> QED
    BY <2>1 DEF TooLate
<1> QED
  BY <1>1, <1>2

\* A call that has no say over its key, or none any more, keeps what is said of it.
LEMMA SilentKeeps ==
    ASSUME ServerTypes, NEW a \in Known, KeyHeld(a), PhotoOnce(a),
           NEW s \in Requests, Silent(request'[s], a),
           \A t \in Requests : t # s => request'[t] = request[t],
           key'[a] = key[a], applied'[a] = applied[a], made'[a] = made[a],
           status' \in Nat, status' >= status
    PROVE  KeyHeld(a)' /\ PhotoOnce(a)'
<1>1. status \in Nat
  BY DEF ServerTypes
<1>2. ~CallHolds(request'[s], a)
  BY DEF Silent, CallHolds
<1>3. KeyHeld(a)'
  BY <1>2 DEF KeyHeld
<1>4. Photo(a)' => (\A t \in Requests : TooLate(request[t], a))'
  <2>1. TooLate(request[s], a)'
    BY DEF TooLate, Silent, CallKeyed
  <2> QED
    BY <1>1, <2>1, LateKeeps
<1>5. applied[a] > 0 /\ Photo(a)' =>
          /\ applied[a] = 1 /\ key[a] # "none"
          /\ \A t \in Requests : CallHolds(request'[t], a) => request'[t].step = "store"
  BY <1>2 DEF PhotoOnce, Photo
<1>6. PhotoOnce(a)'
  BY <1>4, <1>5 DEF PhotoOnce
<1> QED
  BY <1>3, <1>6

-----------------------------------------------------------------------------
(* The server's steps: reserving a key. *)

\* The replay that waits for a call waits for it still.
LEMMA WaitingKeeps ==
    ASSUME WaitingInv, NEW s \in Requests, request[s].step # "free",
           request'[s].action = request[s].action, request'[s].keyed = request[s].keyed,
           \A t \in Requests : t # s => request'[t] = request[t], replay' = replay
    PROVE  WaitingInv'
BY DEF WaitingInv, Offline!Waiting, CallKeyed

\* A call reserves its key, or finds it taken, or runs without one.
LEMMA ReserveCall ==
    ASSUME ServerInv, Known \subseteq Offline!Actions, NEW s \in Requests,
           Offline!ReserveKey(s), UNCHANGED answer
    PROVE  ServerInv'
<1> USE DEF ServerInv
<1>1. PICK r : r = request[s]
  OBVIOUS
<1>2. PICK b : b = r.action
  OBVIOUS
<1>3. PICK row : row = request'[s]
  OBVIOUS
<1>4. r \in OfflineCalls /\ CallOK(r) /\ r.step = "sent" /\ b \in Known
  BY <1>1, <1>2 DEF Offline!ReserveKey, Offline!At, ServerTypes, CallOK
<1>5. UNCHANGED <<made, replay, status, reached, photos, applied, answer>>
  BY DEF Offline!ReserveKey, Offline!phone
<1>6. /\ request' \in [Requests -> OfflineCalls]
      /\ \A t \in Requests : t # s => request'[t] = request[t]
      /\ row.action = b /\ row.keyed = r.keyed
      /\ \/ /\ ~r.keyed \/ key[b] = "none"
            /\ row.step = "run" /\ row.reserved = r.keyed
            /\ key' = IF r.keyed THEN [key EXCEPT ![b] = "pending"] ELSE key
            /\ UNCHANGED exposed
         \/ /\ r.keyed /\ key[b] # "none" /\ row.step = "get" /\ row.reserved = r.reserved
            /\ UNCHANGED <<key, exposed>>
         \/ /\ r.keyed /\ row.step = "run" /\ row.reserved = FALSE /\ UNCHANGED key
            /\ exposed' = exposed \cup {b}
  <2>1. CASE /\ ~r.keyed \/ key[b] = "none"
             /\ Offline!Run(s, r.keyed)
             /\ key' = IF r.keyed THEN [key EXCEPT ![b] = "pending"] ELSE key
             /\ UNCHANGED exposed
    <3>1. r.keyed \in BOOLEAN
      BY <1>4 DEF OfflineCalls
    <3> QED
      BY <1>1, <1>2, <1>3, <2>1, <3>1, RunMoves
  <2>2. CASE /\ r.keyed /\ key[b] # "none" /\ Offline!Go(s, "get")
             /\ UNCHANGED <<key, exposed>>
    BY <1>1, <1>2, <1>3, <2>2, GoMoves DEF CallSteps
  <2>3. CASE /\ r.keyed /\ Offline!Run(s, FALSE) /\ UNCHANGED key /\ exposed' = exposed \cup {b}
    BY <1>1, <1>2, <1>3, <2>3, RunMoves
  <2> QED
    BY <1>1, <1>2, <2>1, <2>2, <2>3 DEF Offline!ReserveKey, Offline!RedisFails
<1>7. key' \in [Offline!Actions -> {"none", "pending", "stored"}]
      /\ \A a \in Offline!Actions : a # b => key'[a] = key[a]
  BY <1>6 DEF ServerTypes
<1>8. r.keyed => b \in Known /\ b \in Offline!Actions
  BY <1>2, <1>4 DEF OfflineCalls, Known
<1>9. ServerTypes'
  <2>1. CallOK(row)'
    BY <1>4, <1>5, <1>6 DEF CallOK, Known
  <2>2. \A t \in Requests : t # s => CallOK(request[t])'
    BY <1>5, <1>6 DEF ServerTypes, CallOK, Known
  <2>3. (\A t \in Requests : CallOK(request[t]))'
    BY <1>3, <2>1, <2>2
  <2> QED
    BY <1>4, <1>5, <1>6, <1>7, <2>3 DEF ServerTypes, Known, Photo
<1>10. WaitingInv'
  BY <1>1, <1>2, <1>3, <1>4, <1>5, <1>6, WaitingKeeps
<1>11. TransitionInv'
  BY <1>5 DEF TransitionInv, Photo, Known
<1>12. KeyInv'
  <2> SUFFICES ASSUME NEW a \in Known, a \notin exposed'
               PROVE  KeyHeld(a)' /\ PhotoOnce(a)'
    BY <1>5 DEF KeyInv, Known
  <2>1. KeyHeld(a) /\ PhotoOnce(a) /\ a \in Known \ exposed
    BY <1>6 DEF KeyInv
  <2>2. status \in Nat /\ status >= status
    BY DEF ServerTypes
  <2>3. CASE a # b \/ ~r.keyed
    <3>1. Silent(row, a)
      BY <1>6, <2>3 DEF Silent, CallKeyed
    <3>2. key'[a] = key[a]
      BY <1>6, <1>7, <2>3
    <3> QED
      BY <1>3, <1>5, <1>6, <2>1, <2>2, <3>1, <3>2, SilentKeeps
  <2>4. CASE a = b /\ r.keyed /\ key[b] = "none"
    <3>1. row.step = "run" /\ row.reserved /\ key'[a] = "pending"
      BY <1>6, <1>8, <2>1, <2>4 DEF ServerTypes
    <3>2. \A t \in Requests : ~CallHolds(request[t], a)
      BY <2>1, <2>4 DEF KeyHeld
    <3>3. ~Photo(a) \/ applied[a] = 0
      BY <1>8, <2>1, <2>4 DEF PhotoOnce, ServerTypes
    <3>4. KeyHeld(a)'
      BY <1>6, <3>1, <3>2 DEF KeyHeld
    <3>5. PhotoOnce(a)'
      <4>1. TooLate(request[s], a)'
        BY <1>3, <3>1 DEF TooLate
      <4>3. Photo(a)' => (\A t \in Requests : TooLate(request[t], a))'
        BY <1>5, <1>6, <2>1, <2>2, <3>1, <4>1, LateKeeps
      <4>2. Photo(a)' => applied'[a] = 0
        BY <1>5, <3>3 DEF Photo
      <4> QED
        BY <4>2, <4>3 DEF PhotoOnce
    <3> QED
      BY <3>4, <3>5
  <2>5. CASE a = b /\ r.keyed /\ key[b] # "none"
    <3>1. row.step = "get" /\ UNCHANGED key
      BY <1>6, <2>5
    <3>2. KeyHeld(a)'
      BY <1>3, <1>6, <2>1, <3>1 DEF KeyHeld, CallHolds
    <3>3. PhotoOnce(a)'
      <4>1. TooLate(request[s], a)'
        BY <1>3, <2>5, <3>1 DEF TooLate
      <4>3. Photo(a)' => (\A t \in Requests : TooLate(request[t], a))'
        BY <1>5, <1>6, <2>1, <2>2, <3>1, <4>1, LateKeeps
      <4>2. ~CallHolds(row, a)
        BY <3>1 DEF CallHolds
      <4> QED
        BY <1>3, <1>5, <1>6, <2>1, <3>1, <4>2, <4>3 DEF PhotoOnce, Photo
    <3> QED
      BY <3>2, <3>3
  <2> QED
    BY <2>3, <2>4, <2>5
<1>13. EffectInv'
  <2> SUFFICES ASSUME NEW a \in Known
               PROVE  /\ key'[a] = "stored" \/ answer'[a] = "done" => Effect(a)'
                      /\ \A t \in Requests : CallKeyed(request'[t], a)
                             /\ request'[t].step \in {"store", "ok"} => Effect(a)'
    BY <1>5 DEF EffectInv, Known
  <2>1. Effect(a)' <=> Effect(a)
    BY <1>5 DEF Effect, Photo
  <2>2. key'[a] = "stored" => key[a] = "stored"
    BY <1>6, <1>7 DEF ServerTypes
  <2> QED
    BY <1>3, <1>5, <1>6, <2>1, <2>2 DEF EffectInv
<1> QED
  BY <1>9, <1>10, <1>11, <1>12, <1>13 DEF ServerInv

-----------------------------------------------------------------------------
(* The server's steps: answering a repeat, storing, releasing. *)

\* A call at one action leaves the rest as it was.
LEMMA TypesKeep ==
    ASSUME ServerTypes, UNCHANGED <<made, answer>>, NEW s \in Requests, NEW b \in Known,
           request' \in [Requests -> OfflineCalls],
           \A t \in Requests : t # s => request'[t] = request[t],
           CallOK(request[s])',
           key' \in [Offline!Actions -> {"none", "pending", "stored"}],
           applied' \in [Offline!Actions -> Nat],
           \A a \in Offline!Actions : a # b => key'[a] = key[a] /\ applied'[a] = applied[a],
           status' \in 0..3, status' \in reached', photos' \in Nat
    PROVE  ServerTypes'
<1>1. (\A t \in Requests : CallOK(request[t]))'
  BY DEF ServerTypes, CallOK, Known
<1> QED
  BY <1>1 DEF ServerTypes, Known, Photo

\* A repeat is answered from the store, told to wait, or runs.
LEMMA GetCall ==
    ASSUME ServerInv, Known \subseteq Offline!Actions, NEW s \in Requests,
           Offline!Get(s), UNCHANGED answer
    PROVE  ServerInv'
<1> USE DEF ServerInv
<1>1. PICK r : r = request[s]
  OBVIOUS
<1>2. PICK b : b = r.action
  OBVIOUS
<1>3. PICK row : row = request'[s]
  OBVIOUS
<1>4. r \in OfflineCalls /\ CallOK(r) /\ r.step = "get" /\ r.keyed /\ b \in Known
  BY <1>1, <1>2 DEF Offline!Get, Offline!At, ServerTypes, CallOK
<1>5. UNCHANGED <<made, replay, key, status, reached, photos, applied, answer>>
  BY DEF Offline!Get, Offline!phone
<1>6. /\ request' \in [Requests -> OfflineCalls]
      /\ \A t \in Requests : t # s => request'[t] = request[t]
      /\ row.action = b /\ row.keyed = r.keyed
      /\ \/ key[b] = "stored" /\ row.step = "ok" /\ row.reserved = r.reserved /\ UNCHANGED exposed
         \/ key[b] = "pending" /\ row.step = "busy" /\ row.reserved = r.reserved /\ UNCHANGED exposed
         \/ key[b] = "none" /\ row.step = "run" /\ row.reserved = FALSE /\ UNCHANGED exposed
         \/ row.step = "run" /\ row.reserved = FALSE /\ exposed' = exposed \cup {b}
  <2>1. CASE key[b] = "stored" /\ Offline!Go(s, "ok") /\ UNCHANGED exposed
    BY <1>1, <1>2, <1>3, <2>1, GoMoves DEF CallSteps
  <2>2. CASE key[b] = "pending" /\ Offline!Go(s, "busy") /\ UNCHANGED exposed
    BY <1>1, <1>2, <1>3, <2>2, GoMoves DEF CallSteps
  <2>3. CASE key[b] = "none" /\ Offline!Run(s, FALSE) /\ UNCHANGED exposed
    BY <1>1, <1>2, <1>3, <2>3, RunMoves
  <2>4. CASE Offline!Run(s, FALSE) /\ exposed' = exposed \cup {b}
    BY <1>1, <1>2, <1>3, <2>4, RunMoves
  <2> QED
    BY <1>1, <1>2, <2>1, <2>2, <2>3, <2>4 DEF Offline!Get, Offline!RedisFails
<1>7. ServerTypes'
  <2>1. CallOK(request[s])'
    BY <1>3, <1>4, <1>5, <1>6 DEF CallOK, Known
  <2>2. /\ key' \in [Offline!Actions -> {"none", "pending", "stored"}]
        /\ applied' \in [Offline!Actions -> Nat]
        /\ status' \in 0..3 /\ status' \in reached' /\ photos' \in Nat
    BY <1>5 DEF ServerTypes
  <2> QED
    BY <1>4, <1>5, <1>6, <2>1, <2>2, TypesKeep
<1>8. WaitingInv'
  BY <1>1, <1>2, <1>3, <1>4, <1>5, <1>6, WaitingKeeps
<1>9. TransitionInv'
  BY <1>5 DEF TransitionInv, Photo, Known
<1>10. KeyInv'
  <2> SUFFICES ASSUME NEW a \in Known, a \notin exposed'
               PROVE  KeyHeld(a)' /\ PhotoOnce(a)'
    BY <1>5 DEF KeyInv, Known
  <2>1. KeyHeld(a) /\ PhotoOnce(a) /\ a \in Known \ exposed
    BY <1>6 DEF KeyInv
  <2>2. status \in Nat /\ status >= status
    BY DEF ServerTypes
  <2>3. CASE a # b \/ row.step \in {"ok", "busy"}
    <3>1. Silent(row, a)
      BY <1>6, <2>3 DEF Silent, CallKeyed
    <3> QED
      BY <1>3, <1>5, <1>6, <2>1, <2>2, <3>1, SilentKeeps
  <2>4. CASE a = b /\ row.step \notin {"ok", "busy"}
    <3>1. key[a] = "none" /\ row.step = "run" /\ row.reserved = FALSE
      BY <1>6, <2>4
    <3>2. Photo(a) => status >= 2
      BY <1>1, <1>2, <1>4, <2>1, <2>4, <3>1 DEF PhotoOnce, TooLate, CallKeyed
    <3>3. ~CallHolds(row, a)
      BY <3>1 DEF CallHolds
    <3>4. KeyHeld(a)'
      BY <1>3, <1>5, <1>6, <2>1, <3>3 DEF KeyHeld
    <3>5. Photo(a)' => (\A t \in Requests : TooLate(request[t], a))'
      <4>1. CASE Photo(a)
        <5>1. TooLate(request[s], a)'
          BY <1>5, <3>2, <4>1 DEF TooLate
        <5> QED
          BY <1>5, <1>6, <2>1, <2>2, <5>1, LateKeeps
      <4>2. CASE ~Photo(a)
        BY <1>5, <4>2 DEF Photo
      <4> QED
        BY <4>1, <4>2
    <3>6. PhotoOnce(a)'
      BY <1>3, <1>5, <1>6, <2>1, <3>3, <3>5 DEF PhotoOnce, Photo
    <3> QED
      BY <3>4, <3>6
  <2> QED
    BY <2>3, <2>4
<1>11. EffectInv'
  <2> SUFFICES ASSUME NEW a \in Known
               PROVE  /\ key[a] = "stored" \/ answer[a] = "done" => Effect(a)'
                      /\ \A t \in Requests : CallKeyed(request'[t], a)
                             /\ request'[t].step \in {"store", "ok"} => Effect(a)'
    BY <1>5 DEF EffectInv, Known
  <2>1. Effect(a)' <=> Effect(a)
    BY <1>5 DEF Effect, Photo
  <2>2. CallKeyed(row, a) /\ row.step \in {"store", "ok"} => key[a] = "stored"
    BY <1>6 DEF CallKeyed
  <2> QED
    BY <1>3, <1>5, <1>6, <2>1, <2>2 DEF EffectInv
<1> QED
  BY <1>7, <1>8, <1>9, <1>10, <1>11

\* A call's answer is stored under its key, or the key's say is lost.
LEMMA StoreCall ==
    ASSUME ServerInv, Known \subseteq Offline!Actions, NEW s \in Requests,
           Offline!StoreAnswer(s), UNCHANGED answer
    PROVE  ServerInv'
<1> USE DEF ServerInv
<1>1. PICK r : r = request[s]
  OBVIOUS
<1>2. PICK b : b = r.action
  OBVIOUS
<1>3. PICK row : row = request'[s]
  OBVIOUS
<1>4. /\ r \in OfflineCalls /\ CallOK(r) /\ r.step = "store" /\ r.keyed /\ r.reserved /\ b \in Known
      /\ CallHolds(r, b) /\ CallKeyed(r, b)
  BY <1>1, <1>2 DEF Offline!StoreAnswer, Offline!At, ServerTypes, CallOK, CallHolds, CallKeyed
<1>5. UNCHANGED <<made, replay, status, reached, photos, applied, answer>>
  BY DEF Offline!StoreAnswer, Offline!phone
<1>6. /\ request' \in [Requests -> OfflineCalls]
      /\ \A t \in Requests : t # s => request'[t] = request[t]
      /\ row.action = b /\ row.keyed = r.keyed /\ row.step = "ok" /\ row.reserved = r.reserved
      /\ \/ key' = [key EXCEPT ![b] = "stored"] /\ UNCHANGED exposed
         \/ UNCHANGED key /\ exposed' = exposed \cup {b}
  BY <1>1, <1>2, <1>3, GoMoves DEF CallSteps, Offline!StoreAnswer, Offline!RedisFails
<1>7. /\ key' \in [Offline!Actions -> {"none", "pending", "stored"}]
      /\ \A a \in Offline!Actions : a # b => key'[a] = key[a]
  BY <1>6 DEF ServerTypes
<1>8. Effect(b)
  BY <1>1, <1>4 DEF EffectInv
<1>9. ServerTypes'
  <2>1. CallOK(request[s])'
    BY <1>3, <1>4, <1>5, <1>6 DEF CallOK, Known
  <2>2. /\ applied' \in [Offline!Actions -> Nat]
        /\ status' \in 0..3 /\ status' \in reached' /\ photos' \in Nat
    BY <1>5 DEF ServerTypes
  <2> QED
    BY <1>4, <1>5, <1>6, <1>7, <2>1, <2>2, TypesKeep
<1>10. WaitingInv'
  BY <1>1, <1>2, <1>3, <1>4, <1>5, <1>6, WaitingKeeps
<1>11. TransitionInv'
  BY <1>5 DEF TransitionInv, Photo, Known
<1>12. KeyInv'
  <2> SUFFICES ASSUME NEW a \in Known, a \notin exposed'
               PROVE  KeyHeld(a)' /\ PhotoOnce(a)'
    BY <1>5 DEF KeyInv, Known
  <2>1. KeyHeld(a) /\ PhotoOnce(a) /\ a \in Known \ exposed /\ a \in Offline!Actions
    BY <1>6 DEF KeyInv
  <2>2. status \in Nat /\ status >= status
    BY DEF ServerTypes
  <2>3. CASE a # b
    <3>1. Silent(row, a)
      BY <1>6, <2>3 DEF Silent, CallKeyed
    <3> QED
      BY <1>3, <1>5, <1>6, <1>7, <2>1, <2>2, <2>3, <3>1, SilentKeeps
  <2>4. CASE a = b
    <3>1. key'[a] = "stored"
      BY <1>6, <2>1, <2>4 DEF ServerTypes
    <3>2. \A t \in Requests : t # s => ~CallHolds(request[t], a)
      BY <1>1, <1>4, <2>1, <2>4 DEF KeyHeld
    <3>3. \A t \in Requests : ~CallHolds(request'[t], a)
      BY <1>3, <1>6, <3>2 DEF CallHolds
    <3>4. KeyHeld(a)'
      BY <3>3 DEF KeyHeld
    <3>5. TooLate(request[s], a)'
      BY <1>3, <1>6 DEF TooLate
    <3>6. Photo(a)' => (\A t \in Requests : TooLate(request[t], a))'
      BY <1>5, <1>6, <2>1, <2>2, <3>1, <3>5, LateKeeps
    <3>7. PhotoOnce(a)'
      BY <1>5, <2>1, <3>1, <3>3, <3>6 DEF PhotoOnce, Photo
    <3> QED
      BY <3>4, <3>7
  <2> QED
    BY <2>3, <2>4
<1>13. EffectInv'
  <2> SUFFICES ASSUME NEW a \in Known
               PROVE  /\ key'[a] = "stored" \/ answer[a] = "done" => Effect(a)'
                      /\ \A t \in Requests : CallKeyed(request'[t], a)
                             /\ request'[t].step \in {"store", "ok"} => Effect(a)'
    BY <1>5 DEF EffectInv, Known
  <2>1. Effect(a)' <=> Effect(a)
    BY <1>5 DEF Effect, Photo
  <2>2. key'[a] = "stored" => key[a] = "stored" \/ a = b
    BY <1>7
  <2>3. CallKeyed(row, a) => a = b
    BY <1>6 DEF CallKeyed
  <2> QED
    BY <1>3, <1>5, <1>6, <1>8, <2>1, <2>2, <2>3 DEF EffectInv
<1> QED
  BY <1>9, <1>10, <1>11, <1>12, <1>13

\* A failed call gives its key back; for a photo, only when it is too late for it.
LEMMA ReleaseCall ==
    ASSUME ServerInv, Known \subseteq Offline!Actions, NEW s \in Requests,
           Offline!ReleaseKey(s), UNCHANGED answer
    PROVE  ServerInv'
<1> USE DEF ServerInv
<1>1. PICK r : r = request[s]
  OBVIOUS
<1>2. PICK b : b = r.action
  OBVIOUS
<1>3. PICK row : row = request'[s]
  OBVIOUS
<1>4. /\ r \in OfflineCalls /\ CallOK(r) /\ r.step = "release" /\ r.keyed /\ r.reserved /\ b \in Known
      /\ CallHolds(r, b) /\ CallKeyed(r, b)
  BY <1>1, <1>2 DEF Offline!ReleaseKey, Offline!At, ServerTypes, CallOK, CallHolds, CallKeyed
<1>5. UNCHANGED <<made, replay, status, reached, photos, applied, answer>>
  BY DEF Offline!ReleaseKey, Offline!phone
<1>6. /\ request' \in [Requests -> OfflineCalls]
      /\ \A t \in Requests : t # s => request'[t] = request[t]
      /\ row.action = b /\ row.keyed = r.keyed /\ row.step = "refused" /\ row.reserved = r.reserved
      /\ \/ key' = [key EXCEPT ![b] = "none"] /\ UNCHANGED exposed
         \/ UNCHANGED key /\ exposed' = exposed \cup {b}
  BY <1>1, <1>2, <1>3, GoMoves DEF CallSteps, Offline!ReleaseKey, Offline!RedisFails
<1>7. /\ key' \in [Offline!Actions -> {"none", "pending", "stored"}]
      /\ \A a \in Offline!Actions : a # b => key'[a] = key[a]
      /\ key'[b] = "stored" => key[b] = "stored"
  BY <1>4, <1>6 DEF ServerTypes
<1>8. ServerTypes'
  <2>1. CallOK(request[s])'
    BY <1>3, <1>4, <1>5, <1>6 DEF CallOK, Known
  <2>2. /\ applied' \in [Offline!Actions -> Nat]
        /\ status' \in 0..3 /\ status' \in reached' /\ photos' \in Nat
    BY <1>5 DEF ServerTypes
  <2> QED
    BY <1>4, <1>5, <1>6, <1>7, <2>1, <2>2, TypesKeep
<1>9. WaitingInv'
  BY <1>1, <1>2, <1>3, <1>4, <1>5, <1>6, WaitingKeeps
<1>10. TransitionInv'
  BY <1>5 DEF TransitionInv, Photo, Known
<1>11. KeyInv'
  <2> SUFFICES ASSUME NEW a \in Known, a \notin exposed'
               PROVE  KeyHeld(a)' /\ PhotoOnce(a)'
    BY <1>5 DEF KeyInv, Known
  <2>1. KeyHeld(a) /\ PhotoOnce(a) /\ a \in Known \ exposed /\ a \in Offline!Actions
    BY <1>6 DEF KeyInv
  <2>2. status \in Nat /\ status >= status
    BY DEF ServerTypes
  <2>3. CASE a # b
    <3>1. Silent(row, a)
      BY <1>6, <2>3 DEF Silent, CallKeyed
    <3> QED
      BY <1>3, <1>5, <1>6, <1>7, <2>1, <2>2, <2>3, <3>1, SilentKeeps
  <2>4. CASE a = b
    <3>1. \A t \in Requests : t # s => ~CallHolds(request[t], a)
      BY <1>1, <1>4, <2>1, <2>4 DEF KeyHeld
    <3>2. \A t \in Requests : ~CallHolds(request'[t], a)
      BY <1>3, <1>6, <3>1 DEF CallHolds
    <3>3. KeyHeld(a)'
      BY <3>2 DEF KeyHeld
    <3>4. Photo(a) => status >= 2 /\ ~(applied[a] > 0)
      BY <1>1, <1>4, <2>1, <2>4 DEF PhotoOnce, TooLate
    <3>5. PhotoOnce(a)'
      BY <1>5, <3>4 DEF PhotoOnce, Photo, TooLate
    <3> QED
      BY <3>3, <3>5
  <2> QED
    BY <2>3, <2>4
<1>12. EffectInv'
  <2> SUFFICES ASSUME NEW a \in Known
               PROVE  /\ key'[a] = "stored" \/ answer[a] = "done" => Effect(a)'
                      /\ \A t \in Requests : CallKeyed(request'[t], a)
                             /\ request'[t].step \in {"store", "ok"} => Effect(a)'
    BY <1>5 DEF EffectInv, Known
  <2>1. Effect(a)' <=> Effect(a)
    BY <1>5 DEF Effect, Photo
  <2>2. key'[a] = "stored" => key[a] = "stored"
    BY <1>7
  <2> QED
    BY <1>3, <1>5, <1>6, <2>1, <2>2 DEF EffectInv
<1> QED
  BY <1>8, <1>9, <1>10, <1>11, <1>12

-----------------------------------------------------------------------------
(* The server's steps: the handler, and what goes wrong. *)

\* The handler: what it accepts takes effect, once for each key.
LEMMA HandleCall ==
    ASSUME ServerInv, Known \subseteq Offline!Actions, \A a \in Known : made[a] \in MadeRows,
           NEW s \in Requests, Offline!Handle(s), UNCHANGED answer
    PROVE  ServerInv'
<1> USE DEF ServerInv
<1>1. PICK r : r = request[s]
  OBVIOUS
<1>2. PICK b : b = r.action
  OBVIOUS
<1>3. PICK row : row = request'[s]
  OBVIOUS
<1>4. r \in OfflineCalls /\ CallOK(r) /\ r.step = "run" /\ b \in Known /\ b \in Offline!Actions
  BY <1>1, <1>2 DEF Offline!Handle, Offline!At, ServerTypes, CallOK
<1>5. /\ UNCHANGED <<made, replay, key, exposed, answer>>
      /\ made[b].kind \in {"transition", "photo"} /\ made[b].to \in 0..2
      /\ status \in 0..3 /\ photos \in Nat /\ applied[b] \in Nat
  BY <1>4 DEF Offline!Handle, Offline!phone, MadeRows, Offline!Kinds, ServerTypes
<1>6. CASE Offline!Accepts(made[b])
  <2>1. /\ status' = IF made[b].kind = "transition" THEN made[b].to ELSE status
        /\ reached' = reached \cup {status'}
        /\ photos' = IF made[b].kind = "photo" THEN photos + 1 ELSE photos
        /\ applied' = IF r.keyed THEN [applied EXCEPT ![b] = applied[b] + 1] ELSE applied
        /\ Offline!Go(s, IF r.reserved THEN "store" ELSE "ok")
    BY <1>1, <1>2, <1>6 DEF Offline!Handle
  <2>2. /\ request' \in [Requests -> OfflineCalls]
        /\ \A t \in Requests : t # s => request'[t] = request[t]
        /\ row.action = b /\ row.keyed = r.keyed /\ row.reserved = r.reserved
        /\ row.step = IF r.reserved THEN "store" ELSE "ok"
    <3>1. PICK to \in CallSteps : to = IF r.reserved THEN "store" ELSE "ok"
      BY DEF CallSteps
    <3>2. Offline!Go(s, to)
      BY <2>1, <3>1
    <3> QED
      BY <1>1, <1>2, <1>3, <3>1, <3>2, GoMoves
  <2>3. /\ applied' \in [Offline!Actions -> Nat]
        /\ \A a \in Offline!Actions : a # b => applied'[a] = applied[a]
        /\ applied'[b] = IF r.keyed THEN applied[b] + 1 ELSE applied[b]
    BY <1>4, <2>1 DEF ServerTypes
  <2>4. /\ status' \in 0..3 /\ status' >= status /\ status \in Nat /\ status' \in Nat
        /\ photos' \in Nat /\ status' \in reached' /\ reached \subseteq reached'
    BY <1>5, <2>1, <1>6 DEF Offline!Accepts
  <2>5. ServerTypes'
    <3>1. CallOK(request[s])'
      BY <1>3, <1>4, <1>5, <2>2 DEF CallOK, Known
    <3>2. key' \in [Offline!Actions -> {"none", "pending", "stored"}]
          /\ \A a \in Offline!Actions : a # b => key'[a] = key[a]
      BY <1>5 DEF ServerTypes
    <3> QED
      BY <1>4, <1>5, <2>2, <2>3, <2>4, <3>1, <3>2, TypesKeep
  <2>6. WaitingInv'
    BY <1>1, <1>2, <1>3, <1>4, <1>5, <2>2, WaitingKeeps
  <2>7. TransitionInv'
    <3> SUFFICES ASSUME NEW a \in Known, ~Photo(a), applied'[a] > 0
                 PROVE  applied'[a] = 1 /\ status' >= made[a].to
      BY <1>5 DEF TransitionInv, Photo, Known
    <3>1. CASE a = b /\ r.keyed
      <4>1. made[b].kind = "transition" /\ status + 1 = made[b].to /\ status' = made[b].to
        BY <1>5, <1>6, <2>1, <3>1 DEF Offline!Accepts, Photo
      <4>2. ~(applied[b] > 0)
        BY <1>4, <1>5, <3>1, <4>1 DEF TransitionInv
      <4> QED
        BY <1>5, <2>3, <3>1, <4>1, <4>2
    <3>2. CASE ~(a = b /\ r.keyed)
      <4>1. applied'[a] = applied[a] /\ made[a].to \in Nat
        BY <2>3, <3>2 DEF MadeRows
      <4> QED
        BY <2>4, <4>1 DEF TransitionInv
    <3> QED
      BY <3>1, <3>2
  <2>8. KeyInv'
    <3> SUFFICES ASSUME NEW a \in Known, a \notin exposed
                 PROVE  KeyHeld(a)' /\ PhotoOnce(a)'
      BY <1>5 DEF KeyInv, Known
    <3>1. KeyHeld(a) /\ PhotoOnce(a)
      BY DEF KeyInv
    <3>2. CASE a # b \/ ~r.keyed
      <4>1. Silent(row, a)
        BY <2>2, <3>2 DEF Silent, CallKeyed
      <4>2. applied'[a] = applied[a]
        BY <2>3, <3>2
      <4> QED
        BY <1>3, <1>5, <2>2, <2>4, <3>1, <4>1, <4>2, SilentKeeps
    <3>3. CASE a = b /\ r.keyed /\ r.reserved
      <4>1. CallHolds(r, a) /\ row.step = "store"
        BY <1>2, <1>4, <2>2, <3>3 DEF CallHolds, CallKeyed
      <4>2. key[a] = "pending" /\ \A t \in Requests : t # s => ~CallHolds(request[t], a)
        BY <1>1, <3>1, <4>1 DEF KeyHeld
      <4>3. KeyHeld(a)'
        BY <1>5, <2>2, <4>2 DEF KeyHeld
      <4>4. TooLate(request[s], a)'
        BY <1>3, <4>1 DEF TooLate
      <4>5. Photo(a)' => (\A t \in Requests : TooLate(request[t], a))'
        BY <1>5, <2>2, <2>4, <3>1, <4>4, LateKeeps
      <4>6. Photo(a) => applied'[a] = 1
        BY <1>1, <1>4, <1>5, <2>3, <3>1, <3>3, <4>1 DEF PhotoOnce
      <4>7. \A t \in Requests : CallHolds(request'[t], a) => request'[t].step = "store"
        BY <1>3, <2>2, <4>1, <4>2
      <4>8. PhotoOnce(a)'
        BY <1>5, <4>2, <4>5, <4>6, <4>7 DEF PhotoOnce, Photo
      <4> QED
        BY <4>3, <4>8
    <3>4. CASE a = b /\ r.keyed /\ ~r.reserved
      <4>1. ~Photo(a)
        <5>1. Photo(a) => status >= 2
          BY <1>1, <1>2, <1>4, <3>1, <3>4 DEF PhotoOnce, TooLate, CallKeyed
        <5>2. Photo(a) => status \in {0, 1}
          BY <1>6, <3>4 DEF Offline!Accepts, Photo
        <5> QED
          BY <5>1, <5>2
      <4>2. ~CallHolds(row, a) /\ ~Photo(a)'
        BY <1>5, <2>2, <3>4, <4>1 DEF CallHolds, Photo
      <4>3. KeyHeld(a)'
        BY <1>3, <1>5, <2>2, <3>1, <4>2 DEF KeyHeld
      <4> QED
        BY <4>2, <4>3 DEF PhotoOnce
    <3> QED
      BY <3>2, <3>3, <3>4
  <2>9. EffectInv'
    <3> SUFFICES ASSUME NEW a \in Known
                 PROVE  /\ key[a] = "stored" \/ answer[a] = "done" => Effect(a)'
                        /\ \A t \in Requests : CallKeyed(request'[t], a)
                               /\ request'[t].step \in {"store", "ok"} => Effect(a)'
      BY <1>5 DEF EffectInv, Known
    <3>1. Effect(a) => Effect(a)'
      <4>1. applied[a] \in Nat /\ applied'[a] \in Nat /\ applied'[a] >= applied[a]
        BY <1>5, <2>3 DEF ServerTypes
      <4> QED
        BY <1>5, <2>4, <4>1, EffectStays
    <3>2. CallKeyed(row, a) => Effect(a)'
      <4>1. SUFFICES ASSUME a = b, r.keyed
                     PROVE  Effect(a)'
        BY <2>2 DEF CallKeyed
      <4>2. applied'[b] > 0
        BY <1>5, <2>3, <4>1
      <4>3. ~Photo(b) => made[b].to \in reached'
        BY <1>5, <2>1 DEF Photo
      <4> QED
        BY <1>5, <4>1, <4>2, <4>3 DEF Effect, Photo
    <3> QED
      BY <1>3, <2>2, <3>1, <3>2 DEF EffectInv
  <2> QED
    BY <2>5, <2>6, <2>7, <2>8, <2>9
<1>7. CASE ~Offline!Accepts(made[b])
  <2>1. UNCHANGED <<status, reached, photos, applied>>
        /\ Offline!Go(s, IF r.reserved THEN "release" ELSE "refused")
    BY <1>1, <1>2, <1>7 DEF Offline!Handle
  <2>2. /\ request' \in [Requests -> OfflineCalls]
        /\ \A t \in Requests : t # s => request'[t] = request[t]
        /\ row.action = b /\ row.keyed = r.keyed /\ row.reserved = r.reserved
        /\ row.step = IF r.reserved THEN "release" ELSE "refused"
    <3>1. PICK to \in CallSteps : to = IF r.reserved THEN "release" ELSE "refused"
      BY DEF CallSteps
    <3>2. Offline!Go(s, to)
      BY <2>1, <3>1
    <3> QED
      BY <1>1, <1>2, <1>3, <3>1, <3>2, GoMoves
  <2>3. ServerTypes'
    <3>1. CallOK(request[s])'
      BY <1>3, <1>4, <1>5, <2>2 DEF CallOK, Known
    <3>2. /\ key' \in [Offline!Actions -> {"none", "pending", "stored"}]
          /\ applied' \in [Offline!Actions -> Nat]
          /\ \A a \in Offline!Actions : a # b => key'[a] = key[a] /\ applied'[a] = applied[a]
          /\ status' \in 0..3 /\ status' \in reached' /\ photos' \in Nat
      BY <1>5, <2>1 DEF ServerTypes
    <3> QED
      BY <1>4, <1>5, <2>2, <3>1, <3>2, TypesKeep
  <2>4. WaitingInv'
    BY <1>1, <1>2, <1>3, <1>4, <1>5, <2>2, WaitingKeeps
  <2>5. TransitionInv'
    BY <1>5, <2>1 DEF TransitionInv, Photo, Known
  <2>6. KeyInv'
    <3> SUFFICES ASSUME NEW a \in Known, a \notin exposed
                 PROVE  KeyHeld(a)' /\ PhotoOnce(a)'
      BY <1>5 DEF KeyInv, Known
    <3>1. KeyHeld(a) /\ PhotoOnce(a)
      BY DEF KeyInv
    <3>2. status \in Nat /\ status >= status
      BY <1>5
    <3>3. CASE ~(a = b /\ r.reserved)
      <4>1. Silent(row, a)
        BY <2>2, <3>3 DEF Silent, CallKeyed
      <4> QED
        BY <1>3, <1>5, <2>1, <2>2, <3>1, <3>2, <4>1, SilentKeeps
    <3>4. CASE a = b /\ r.reserved
      <4>1. CallHolds(r, a) /\ row.step = "release"
        BY <1>2, <1>4, <2>2, <3>4 DEF CallHolds, CallKeyed, CallOK
      <4>2. key[a] = "pending" /\ \A t \in Requests : t # s => ~CallHolds(request[t], a)
        BY <1>1, <3>1, <4>1 DEF KeyHeld
      <4>3. KeyHeld(a)'
        BY <1>5, <2>2, <4>2 DEF KeyHeld
      <4>4. Photo(a) => status >= 2
        BY <1>5, <1>7, <3>4 DEF Photo, Offline!Accepts
      <4>5. Photo(a) => ~(applied[a] > 0)
        BY <1>1, <1>4, <3>1, <4>1 DEF PhotoOnce
      <4>6. PhotoOnce(a)'
        BY <1>5, <2>1, <4>4, <4>5 DEF PhotoOnce, Photo, TooLate
      <4> QED
        BY <4>3, <4>6
    <3> QED
      BY <3>3, <3>4
  <2>7. EffectInv'
    <3> SUFFICES ASSUME NEW a \in Known
                 PROVE  /\ key[a] = "stored" \/ answer[a] = "done" => Effect(a)'
                        /\ \A t \in Requests : CallKeyed(request'[t], a)
                               /\ request'[t].step \in {"store", "ok"} => Effect(a)'
      BY <1>5 DEF EffectInv, Known
    <3>1. Effect(a)' <=> Effect(a)
      BY <1>5, <2>1 DEF Effect, Photo
    <3> QED
      BY <1>3, <2>2, <3>1 DEF EffectInv
  <2> QED
    BY <2>3, <2>4, <2>5, <2>6, <2>7
<1> QED
  BY <1>6, <1>7

\* The answer a waiting replay gets: done only when the action took effect.
LEMMA CallAnswered ==
    ASSUME ServerInv, Known \subseteq Offline!Actions, NEW s \in Requests,
           request' = [request EXCEPT ![s] = Offline!Free], WaitingInv',
           UNCHANGED <<made, key, status, reached, photos, applied, exposed>>,
           NEW b \in Known, NEW outcome, outcome = "done" => Effect(b),
           answer' \in [Offline!Actions -> {"none", "done", "retryLater", "fileMissing", "rejected"}],
           \A a \in Offline!Actions : answer'[a] = IF a = b THEN outcome ELSE answer[a]
    PROVE  ServerInv'
<1> USE DEF ServerInv
<1>1. PICK row : row = Offline!Free
  OBVIOUS
<1>2. row \in OfflineCalls /\ row.step = "free" /\ row.keyed = FALSE /\ row.reserved = FALSE
  BY <1>1 DEF Offline!Free, OfflineCalls, CallSteps
<1>3. /\ request' \in [Requests -> OfflineCalls] /\ request'[s] = row
      /\ \A t \in Requests : t # s => request'[t] = request[t]
  BY <1>1, <1>2 DEF ServerTypes
<1>4. ServerTypes'
  <2>1. (\A t \in Requests : CallOK(request[t]))'
    BY <1>2, <1>3 DEF ServerTypes, CallOK, Known
  <2> QED
    BY <1>3, <2>1 DEF ServerTypes, Known, Photo
<1>5. TransitionInv'
  BY DEF TransitionInv, Photo, Known
<1>6. KeyInv'
  <2> SUFFICES ASSUME NEW a \in Known, a \notin exposed
               PROVE  KeyHeld(a)' /\ PhotoOnce(a)'
    BY DEF KeyInv, Known
  <2>1. KeyHeld(a) /\ PhotoOnce(a)
    BY DEF KeyInv
  <2>2. status \in Nat /\ status >= status
    BY DEF ServerTypes
  <2>3. Silent(row, a)
    BY <1>2 DEF Silent, CallKeyed
  <2> QED
    BY <1>3, <2>1, <2>2, <2>3, SilentKeeps
<1>7. EffectInv'
  <2>1. \A a \in Known : Effect(a)' <=> Effect(a)
    BY DEF Effect, Photo
  <2>2. \A a : ~CallKeyed(row, a)
    BY <1>2 DEF CallKeyed
  <2>3. \A a \in Known : answer'[a] = "done" => Effect(a)
    BY DEF EffectInv
  <2> QED
    BY <1>3, <2>1, <2>2, <2>3 DEF EffectInv, Known
<1> QED
  BY <1>4, <1>5, <1>6, <1>7

\* A request is lost, a key expires, the task ends elsewhere.
LEMMA LoseCall ==
    ASSUME ServerInv, Known \subseteq Offline!Actions, NEW s \in Requests,
           Offline!Lose(s), UNCHANGED answer
    PROVE  ServerInv'
<1>1. /\ request' = [request EXCEPT ![s] = Offline!Free]
      /\ UNCHANGED <<made, replay, key, status, reached, photos, applied, exposed, answer>>
  BY DEF Offline!Lose, Offline!phone
<1>2. Offline!Free.step = "free"
  BY DEF Offline!Free
<1>3. WaitingInv'
  BY <1>1, <1>2 DEF ServerInv, ServerTypes, WaitingInv, Offline!Waiting
<1>4. request[s].action \in Known
  BY DEF Offline!Lose, Offline!At, ServerInv, ServerTypes, CallOK
<1>5. PICK b \in Known : b = request[s].action
  BY <1>4
<1>6. PICK outcome : outcome = answer[b]
  OBVIOUS
<1>7. outcome = "done" => Effect(b)
  BY <1>6 DEF ServerInv, EffectInv
<1>8. /\ answer' \in [Offline!Actions -> {"none", "done", "retryLater", "fileMissing", "rejected"}]
      /\ \A a \in Offline!Actions : answer'[a] = IF a = b THEN outcome ELSE answer[a]
  BY <1>6 DEF ServerInv, ServerTypes
<1> QED
  BY <1>1, <1>3, <1>7, <1>8, CallAnswered

\* A key expires: its action is exposed from then on, and no promise is left.
LEMMA ExpireKey ==
    ASSUME ServerInv, NEW b \in Offline!Actions, Offline!Expire(b), UNCHANGED answer
    PROVE  ServerInv'
<1> USE DEF ServerInv
<1>1. /\ key' = [key EXCEPT ![b] = "none"] /\ exposed' = exposed \cup {b}
      /\ UNCHANGED <<made, replay, request, status, reached, photos, applied, answer>>
  BY DEF Offline!Expire, Offline!phone
<1>2. /\ key' \in [Offline!Actions -> {"none", "pending", "stored"}]
      /\ \A a \in Offline!Actions : a # b => key'[a] = key[a]
      /\ key'[b] = "none"
  BY <1>1 DEF ServerTypes
<1>3. ServerTypes' /\ WaitingInv' /\ TransitionInv'
  BY <1>1, <1>2 DEF ServerTypes, CallOK, Known, Photo, WaitingInv, Offline!Waiting, TransitionInv
<1>4. KeyInv'
  <2>1. \A a : a # b => key'[a] = key[a]
    BY <1>1 DEF ServerTypes
  <2> QED
    BY <1>1, <2>1 DEF KeyInv, KeyHeld, PhotoOnce, TooLate, Photo, Known
<1>5. EffectInv'
  <2>1. \A a \in Known : Effect(a)' <=> Effect(a)
    BY <1>1 DEF Effect, Photo
  <2>2. \A a : key'[a] = "stored" => key[a] = "stored"
    BY <1>1 DEF ServerTypes
  <2> QED
    BY <1>1, <2>1, <2>2 DEF EffectInv, Known
<1> QED
  BY <1>3, <1>4, <1>5

\* The task ends: nothing is undone, and every photo is too late.
LEMMA TaskEnds ==
    ASSUME ServerInv, \A a \in Known : made[a] \in MadeRows, Offline!EndTask, UNCHANGED answer
    PROVE  ServerInv'
<1> USE DEF ServerInv
<1>1. /\ status' = 3 /\ reached' = reached \cup {3}
      /\ UNCHANGED <<made, replay, request, key, photos, applied, exposed, answer>>
  BY DEF Offline!EndTask, Offline!phone
<1>2. ServerTypes' /\ WaitingInv'
  BY <1>1 DEF ServerTypes, CallOK, Known, Photo, WaitingInv, Offline!Waiting
<1>3. TransitionInv'
  BY <1>1 DEF TransitionInv, Photo, Known, MadeRows
<1>4. KeyInv'
  BY <1>1 DEF KeyInv, KeyHeld, PhotoOnce, TooLate, Photo, Known
<1>5. EffectInv'
  <2>1. \A a \in Known : Effect(a) => Effect(a)'
    BY <1>1 DEF Effect, Photo
  <2> QED
    BY <1>1, <2>1 DEF EffectInv, Known
<1> QED
  BY <1>2, <1>3, <1>4, <1>5

-----------------------------------------------------------------------------
(* Both sides together. *)

OfflineInv == PhoneInv /\ ServerInv

\* Nothing was sent when the app is installed.
LEMMA OfflineInit ==
    ASSUME Offline!Init
    PROVE  OfflineInv
<1>1. PhoneInv
  BY PhoneInit DEF Offline!Init
<1>2. Known = {}
  BY EmptySeq DEF Offline!Init, Offline!InitPhone, Known
<1>3. Offline!Free \in OfflineCalls /\ Offline!Free.step = "free"
      /\ Offline!Free.reserved = FALSE /\ Offline!Free.keyed = FALSE
  BY DEF Offline!Free, OfflineCalls, CallSteps
<1>4. \A s \in Requests : request[s] = Offline!Free
  BY DEF Offline!Init, Offline!InitServer
<1>5. ServerTypes
  BY <1>2, <1>3, <1>4 DEF Offline!Init, Offline!InitServer, ServerTypes, CallOK
<1>6. WaitingInv /\ TransitionInv /\ KeyInv /\ EffectInv
  BY <1>2, <1>3, <1>4 DEF WaitingInv, TransitionInv, KeyInv, EffectInv
<1> QED
  BY <1>1, <1>5, <1>6 DEF OfflineInv, ServerInv

\* The phone's steps make no action and send nothing, and no replay starts to wait.
LEMMA PhoneSteps ==
    ASSUME PhoneInv, Offline!PhoneStep
    PROVE  /\ PhoneInv' /\ made' = made
           /\ replay' = replay \/ replay' = None \/ replay'.step # "wait"
<1>1. CASE Offline!StartLoad \/ Offline!ReadStore \/ Offline!ReadFails
  BY <1>1, LoadSteps DEF Offline!StartLoad, Offline!ReadStore, Offline!ReadFails
<1>2. CASE Offline!FinishLoad
  BY <1>2, FinishLoadStep DEF Offline!FinishLoad
<1>3. CASE Offline!Flush
  <2>1. PhoneInv' /\ made' = made
    BY <1>3, FlushStep DEF Offline!Flush
  <2>2. \/ replay' = replay
        \/ replay' = None
        \/ Head(writes).by = "replay" /\ replay' = [replay EXCEPT !.step = "settle"]
    <3>1. Head(writes) \in WriteRows
      BY <1>3, WritesShift DEF Offline!Flush, PhoneInv, PhoneTypes
    <3> QED
      BY <1>3, <3>1 DEF Offline!Flush, WriteRows
  <2>3. CASE Head(writes).by = "replay" /\ replay' = [replay EXCEPT !.step = "settle"]
    <3>1. 1 \in DOMAIN writes /\ Head(writes) = writes[1]
      BY <1>3, WritesShift DEF Offline!Flush, PhoneInv, PhoneTypes
    <3>2. replay \in ReplayRows
      BY <2>3, <3>1 DEF PhoneInv, PhoneTypes, ReplayWriteInv
    <3>3. replay'.step = "settle"
      BY <2>3, <3>2 DEF ReplayRows
    <3> QED
      BY <2>1, <3>3
  <2> QED
    BY <2>1, <2>2, <2>3
<1>4. CASE Offline!Clear
  BY <1>4, ClearStep DEF Offline!Clear
<1>5. CASE Offline!SignIn
  BY <1>5, SignInStep DEF Offline!SignIn
<1>6. CASE Offline!Kill
  BY <1>6, KillStep DEF Offline!Kill
<1>7. CASE Offline!Settle
  BY <1>7, SettleStep DEF Offline!Settle
<1> QED
  BY <1>1, <1>2, <1>3, <1>4, <1>5, <1>6, <1>7 DEF Offline!PhoneStep

\* What the phone does by itself changes nothing on the server.
LEMMA ServerFrame ==
    ASSUME ServerInv, UNCHANGED <<made, request, key, status, reached, photos, applied, exposed, answer>>,
           replay' = replay \/ replay' = None \/ replay'.step # "wait"
    PROVE  ServerInv'
<1> USE DEF ServerInv
<1>1. ServerTypes' /\ TransitionInv'
  BY DEF ServerTypes, CallOK, Known, Photo, TransitionInv
<1>2. WaitingInv'
  BY DEF WaitingInv, Offline!Waiting
<1>3. KeyInv'
  BY DEF KeyInv, KeyHeld, PhotoOnce, TooLate, Photo, Known
<1>4. EffectInv'
  BY DEF EffectInv, Effect, Photo, Known
<1> QED
  BY <1>1, <1>2, <1>3, <1>4

\* The server's steps.
LEMMA ServerSteps ==
    ASSUME OfflineInv, Offline!ServerStep, UNCHANGED answer
    PROVE  ServerInv' /\ UNCHANGED Offline!phone
<1>1. Known \subseteq Offline!Actions /\ (\A a \in Known : made[a] \in MadeRows) /\ ServerInv
  BY Indexes DEF OfflineInv, PhoneInv
<1>2. ASSUME NEW s \in Requests,
             \/ Offline!ReserveKey(s) \/ Offline!Get(s) \/ Offline!Handle(s) \/ Offline!StoreAnswer(s)
             \/ Offline!ReleaseKey(s) \/ Offline!Lose(s)
      PROVE  ServerInv' /\ UNCHANGED Offline!phone
  <2>1. ServerInv'
    BY <1>1, <1>2, ReserveCall, GetCall, HandleCall, StoreCall, ReleaseCall, LoseCall
  <2>2. UNCHANGED Offline!phone
    BY <1>2 DEF Offline!ReserveKey, Offline!Get, Offline!Handle, Offline!StoreAnswer, Offline!ReleaseKey, Offline!Lose
  <2> QED
    BY <2>1, <2>2
<1>3. ASSUME NEW b \in Offline!Actions, Offline!Expire(b)
      PROVE  ServerInv' /\ UNCHANGED Offline!phone
  BY <1>1, <1>3, ExpireKey DEF Offline!Expire
<1>4. CASE Offline!EndTask
  BY <1>1, <1>4, TaskEnds DEF Offline!EndTask
<1> QED
  BY <1>2, <1>3, <1>4 DEF Offline!ServerStep

\* The runner acts: the action is queued, and its first call carries no key.
LEMMA ActStep ==
    ASSUME OfflineInv, NEW s \in Requests, Offline!Act(s)
    PROVE  OfflineInv'
<1> USE DEF OfflineInv, ServerInv
<1>1. PICK action \in Offline!Possible :
          /\ Offline!Enqueue(action) /\ Offline!Unused(s)
          /\ request' = [request EXCEPT ![s] = [step |-> "sent", action |-> Len(made'),
                                                keyed |-> FALSE, reserved |-> FALSE]]
          /\ UNCHANGED <<key, status, reached, photos, applied, exposed, answer>>
  BY DEF Offline!Act
<1>2. action \in MadeRows /\ (action.kind = "photo" \/ action.to \in {1, 2})
  BY <1>1 DEF Offline!Possible, MadeRows, Offline!Kinds
<1>3. PhoneInv' /\ made' = Append(made, action) /\ Len(made) + 1 \in Offline!Actions
  BY <1>1, <1>2, EnqueueStep
<1>4. PICK b : b = Len(made) + 1
  OBVIOUS
<1>5. /\ b \in Offline!Actions /\ b \notin Known /\ Known' = Known \cup {b} /\ Len(made') = b
      /\ made'[b] = action /\ \A a \in Known : made'[a] = made[a]
  <2>1. PICK m \in Nat : m = Len(made) /\ made \in Seq(MadeRows)
    BY Indexes DEF PhoneInv, PhoneTypes
  <2>2. Len(made') = m + 1 /\ made'[m + 1] = action /\ \A a \in 1..m : made'[a] = made[a]
    BY <1>2, <1>3, <2>1, AppendProperties
  <2> QED
    BY <1>3, <1>4, <2>1, <2>2 DEF Known
<1>6. PICK row : row = [step |-> "sent", action |-> b, keyed |-> FALSE, reserved |-> FALSE]
  OBVIOUS
<1>7. row \in OfflineCalls /\ row.step = "sent" /\ row.action = b /\ row.keyed = FALSE
      /\ row.reserved = FALSE
  BY <1>5, <1>6 DEF OfflineCalls, CallSteps
<1>8. /\ request' \in [Requests -> OfflineCalls] /\ request'[s] = row
      /\ \A t \in Requests : t # s => request'[t] = request[t]
  BY <1>1, <1>5, <1>6, <1>7 DEF ServerTypes
<1>9. replay' = replay
  BY <1>1 DEF Offline!Enqueue
<1>10. Known \subseteq Offline!Actions
  BY Indexes DEF PhoneInv
<1>11. ServerTypes'
  <2>1. (\A t \in Requests : CallOK(request[t]))'
    BY <1>5, <1>7, <1>8 DEF ServerTypes, CallOK
  <2>2. (\A a \in Known : ~Photo(a) => made[a].to \in {1, 2})'
    BY <1>2, <1>5 DEF ServerTypes, Photo
  <2> QED
    BY <1>1, <1>5, <1>8, <2>1, <2>2 DEF ServerTypes
<1>12. WaitingInv'
  BY <1>1, <1>8, <1>9 DEF WaitingInv, Offline!Waiting, Offline!Unused
<1>13. \A a \in Known : Photo(a)' <=> Photo(a)
  BY <1>5 DEF Photo
<1>14. key[b] = "none" /\ applied[b] = 0 /\ answer[b] = "none"
  BY <1>5 DEF ServerTypes
<1>15. TransitionInv'
  BY <1>1, <1>5, <1>13, <1>14 DEF TransitionInv
<1>16. \A t \in Requests : ~CallKeyed(request'[t], b)
  BY <1>5, <1>7, <1>8 DEF CallKeyed, ServerTypes, CallOK
<1>17. KeyInv'
  <2> SUFFICES ASSUME NEW a \in Known \cup {b}, a \notin exposed
               PROVE  KeyHeld(a)' /\ PhotoOnce(a)'
    BY <1>1, <1>5 DEF KeyInv
  <2>1. CASE a \in Known
    <3>1. KeyHeld(a) /\ PhotoOnce(a)
      BY <2>1 DEF KeyInv
    <3>2. status' \in Nat /\ status' >= status
      BY <1>1 DEF ServerTypes
    <3>3. Silent(row, a)
      BY <1>7 DEF Silent, CallKeyed
    <3> QED
      BY <1>1, <1>5, <1>8, <2>1, <3>1, <3>2, <3>3, SilentKeeps
  <2>2. CASE a = b
    <3>1. KeyHeld(a)'
      BY <1>16, <2>2 DEF KeyHeld, CallHolds
    <3>2. PhotoOnce(a)'
      BY <1>1, <1>14, <1>16, <2>2 DEF PhotoOnce, TooLate
    <3> QED
      BY <3>1, <3>2
  <2> QED
    BY <2>1, <2>2
<1>18. EffectInv'
  <2>1. \A a \in Known : Effect(a)' <=> Effect(a)
    BY <1>1, <1>5 DEF Effect, Photo
  <2>2. ASSUME NEW a \in Known
        PROVE  /\ key'[a] = "stored" \/ answer'[a] = "done" => Effect(a)'
               /\ \A t \in Requests :
                      CallKeyed(request'[t], a) /\ request'[t].step \in {"store", "ok"} => Effect(a)'
    BY <1>1, <1>7, <1>8, <2>1 DEF EffectInv
  <2> QED
    BY <1>1, <1>5, <1>14, <1>16, <2>2 DEF EffectInv
<1> QED
  BY <1>3, <1>11, <1>12, <1>15, <1>17, <1>18

\* A replay carries its action's id as its key.
LEMMA ReplayStep ==
    ASSUME OfflineInv, NEW s \in Requests, Offline!Replay(s)
    PROVE  OfflineInv'
<1> USE DEF OfflineInv, ServerInv
<1>1. PICK b : b = Head(pending)
  OBVIOUS
<1>2. /\ Offline!Unused(s) /\ Offline!Send(s)
      /\ request' = [request EXCEPT ![s] = [Offline!Free EXCEPT
             !.step = IF made[b].kind = "photo" /\ b \notin files THEN "missing" ELSE "sent",
             !.action = b, !.keyed = TRUE]]
      /\ UNCHANGED <<key, status, reached, photos, applied, exposed, answer>>
  BY <1>1 DEF Offline!Replay
<1>3. /\ PhoneInv' /\ made' = made /\ replay' # None /\ replay'.request = s
      /\ replay'.action = b /\ b \in Known
  BY <1>1, <1>2, SendStep DEF Offline!Send
<1>4. PICK to \in {"missing", "sent"} :
          to = IF made[b].kind = "photo" /\ b \notin files THEN "missing" ELSE "sent"
  OBVIOUS
<1>5. PICK row : row = [Offline!Free EXCEPT !.step = to, !.action = b, !.keyed = TRUE]
  OBVIOUS
<1>6. /\ row.step = to /\ row.action = b /\ row.keyed = TRUE /\ row.reserved = FALSE
      /\ b \in Offline!Actions /\ row \in OfflineCalls
  <2>1. Known \subseteq Offline!Actions
    BY Indexes DEF PhoneInv
  <2>2. Offline!Free \in OfflineCalls
    BY DEF Offline!Free, OfflineCalls, CallSteps
  <2>3. to \in CallSteps
    BY <1>4 DEF CallSteps
  <2>4. row \in OfflineCalls
    BY <1>3, <1>5, <2>1, <2>2, <2>3 DEF OfflineCalls
  <2>5. row.step = to /\ row.action = b /\ row.keyed = TRUE /\ row.reserved = Offline!Free.reserved
    BY <1>5, <2>2 DEF OfflineCalls
  <2> QED
    BY <1>3, <2>1, <2>4, <2>5 DEF Offline!Free
<1>12. /\ request' \in [Requests -> OfflineCalls] /\ request'[s] = row
       /\ \A t \in Requests : t # s => request'[t] = request[t]
  <2>1. request' = [request EXCEPT ![s] = row]
    BY <1>2, <1>4, <1>5
  <2> QED
    BY <1>6, <2>1 DEF ServerTypes
<1>7. ServerTypes'
  <2>1. (\A t \in Requests : CallOK(request[t]))'
    BY <1>3, <1>4, <1>6, <1>12 DEF ServerTypes, CallOK, Known
  <2> QED
    BY <1>2, <1>3, <1>12, <2>1 DEF ServerTypes, Known, Photo
<1>8. WaitingInv'
  BY <1>3, <1>4, <1>6, <1>12 DEF WaitingInv, Offline!Waiting, CallKeyed
<1>9. TransitionInv'
  BY <1>2, <1>3 DEF TransitionInv, Photo, Known
<1>10. KeyInv'
  <2> SUFFICES ASSUME NEW a \in Known, a \notin exposed
               PROVE  KeyHeld(a)' /\ PhotoOnce(a)'
    BY <1>2, <1>3 DEF KeyInv, Known
  <2>1. KeyHeld(a) /\ PhotoOnce(a)
    BY DEF KeyInv
  <2>2. status' \in Nat /\ status' >= status
    BY <1>2 DEF ServerTypes
  <2>3. Silent(row, a)
    BY <1>4, <1>6 DEF Silent, CallKeyed
  <2> QED
    BY <1>2, <1>3, <1>12, <2>1, <2>2, <2>3, SilentKeeps
<1>11. EffectInv'
  <2>1. \A a \in Known : Effect(a)' <=> Effect(a)
    BY <1>2, <1>3 DEF Effect, Photo
  <2>2. ASSUME NEW a \in Known
        PROVE  /\ key'[a] = "stored" \/ answer'[a] = "done" => Effect(a)'
               /\ \A t \in Requests :
                      CallKeyed(request'[t], a) /\ request'[t].step \in {"store", "ok"} => Effect(a)'
    BY <1>2, <1>4, <1>6, <1>12, <2>1 DEF EffectInv
  <2> QED
    BY <1>3, <2>2 DEF EffectInv, Known
<1> QED
  BY <1>3, <1>7, <1>8, <1>9, <1>10, <1>11

\* An answer reaches the replay that waits for it, or nobody.
LEMMA ReceiveStep ==
    ASSUME OfflineInv, NEW s \in Requests, Offline!Receive(s)
    PROVE  OfflineInv'
<1> USE DEF OfflineInv
<1>1. PICK r : r = request[s]
  OBVIOUS
<1>2. PICK b : b = r.action
  OBVIOUS
<1>3. /\ r.step \in {"ok", "busy", "missing", "refused"}
      /\ request' = [request EXCEPT ![s] = Offline!Free]
      /\ UNCHANGED <<key, status, reached, photos, applied, exposed>>
  BY <1>1 DEF Offline!Receive, Offline!Answered
<1>4. Known \subseteq Offline!Actions
  BY Indexes DEF PhoneInv
<1>5. Offline!Free.step = "free" /\ \A t \in Requests : t # s => request'[t] = request[t]
  BY <1>3 DEF Offline!Free, ServerInv, ServerTypes
<1>6. request'[s].step = "free"
  BY <1>3, <1>5 DEF ServerInv, ServerTypes
<1>7. CASE ~Offline!Waiting(s)
  <2>1. UNCHANGED Offline!phone /\ UNCHANGED answer
    BY <1>7 DEF Offline!Receive
  <2>2. PhoneInv'
    BY <2>1, PhoneFrame
  <2>3. UNCHANGED <<made, replay>>
    BY <2>1 DEF Offline!phone
  <2>4. WaitingInv'
    BY <1>5, <1>6, <2>3 DEF ServerInv, WaitingInv, Offline!Waiting
  <2>5. PICK c \in Known : c = b
    BY <1>1, <1>2, <1>3 DEF ServerInv, ServerTypes, CallOK
  <2>6. PICK outcome : outcome = answer[c]
    OBVIOUS
  <2>7. outcome = "done" => Effect(c)
    BY <2>6 DEF ServerInv, EffectInv
  <2>8. /\ answer' \in [Offline!Actions -> {"none", "done", "retryLater", "fileMissing", "rejected"}]
        /\ \A a \in Offline!Actions : answer'[a] = IF a = c THEN outcome ELSE answer[a]
    BY <2>1, <2>6 DEF ServerInv, ServerTypes
  <2>9. ServerInv'
    BY <1>3, <1>4, <2>1, <2>3, <2>4, <2>7, <2>8, CallAnswered
  <2> QED
    BY <2>2, <2>9
<1>8. CASE Offline!Waiting(s)
  <2>1. PICK outcome : outcome = Offline!OutcomeOf(s)
    OBVIOUS
  <2>2. Offline!Outcome(outcome) /\ answer' = [answer EXCEPT ![b] = outcome]
    BY <1>1, <1>2, <1>8, <2>1 DEF Offline!Receive
  <2>3. PhoneInv' /\ made' = made /\ (replay' # None => replay'.step # "wait")
    BY <2>2, OutcomeStep
  <2>4. WaitingInv'
    BY <2>3 DEF WaitingInv, Offline!Waiting
  <2>5. b \in Known /\ CallKeyed(r, b) /\ b \in Offline!Actions
    BY <1>1, <1>2, <1>3, <1>4, <1>8 DEF ServerInv, ServerTypes, CallOK, WaitingInv, CallKeyed
  <2>6. outcome \in {"done", "retryLater", "fileMissing", "rejected"}
    BY <1>1, <1>3, <2>1 DEF Offline!OutcomeOf, Offline!RefusedOutcome
  <2>7. outcome = "done" => Effect(b)
    <3>1. SUFFICES ASSUME outcome = "done"
                   PROVE  Effect(b)
      OBVIOUS
    <3>2. r.step = "ok" \/ (made[b].kind = "transition" /\ status = made[b].to)
      BY <1>1, <1>2, <1>3, <2>1, <3>1 DEF Offline!OutcomeOf, Offline!RefusedOutcome
    <3>3. CASE r.step = "ok"
      BY <1>1, <2>5, <3>3 DEF ServerInv, EffectInv
    <3>4. CASE made[b].kind = "transition" /\ status = made[b].to
      BY <3>4 DEF ServerInv, ServerTypes, Effect, Photo
    <3> QED
      BY <3>2, <3>3, <3>4
  <2>8. /\ answer' \in [Offline!Actions -> {"none", "done", "retryLater", "fileMissing", "rejected"}]
        /\ \A a \in Offline!Actions : answer'[a] = IF a = b THEN outcome ELSE answer[a]
    BY <2>2, <2>5, <2>6 DEF ServerInv, ServerTypes
  <2>9. ServerInv'
    BY <1>3, <1>4, <2>3, <2>4, <2>5, <2>7, <2>8, CallAnswered
  <2> QED
    BY <2>3, <2>9
<1> QED
  BY <1>7, <1>8

\* A replay that gives up waiting sends nothing.
LEMMA TimeoutStep ==
    ASSUME OfflineInv, Offline!Timeout
    PROVE  OfflineInv'
<1> USE DEF OfflineInv
<1>1. Offline!Outcome("retryLater")
      /\ UNCHANGED <<request, key, status, reached, photos, applied, exposed, answer>>
  BY DEF Offline!Timeout, Offline!server
<1>2. PhoneInv' /\ made' = made /\ (replay' # None => replay'.step # "wait")
  BY <1>1, OutcomeStep
<1> QED
  BY <1>1, <1>2, ServerFrame

\* The invariant is inductive.
LEMMA OfflineNext ==
    ASSUME OfflineInv, [Offline!Next]_(Offline!vars)
    PROVE  OfflineInv'
<1>1. CASE Offline!PhoneStep /\ UNCHANGED <<Offline!server, answer>>
  <2>1. /\ PhoneInv' /\ made' = made
        /\ replay' = replay \/ replay' = None \/ replay'.step # "wait"
    BY <1>1, PhoneSteps DEF OfflineInv
  <2>2. UNCHANGED <<request, key, status, reached, photos, applied, exposed, answer>>
    BY <1>1 DEF Offline!server
  <2> QED
    BY <2>1, <2>2, ServerFrame DEF OfflineInv
<1>2. CASE Offline!ServerStep /\ UNCHANGED answer
  BY <1>2, ServerSteps, PhoneFrame DEF OfflineInv
<1>3. ASSUME NEW s \in Requests, Offline!Act(s) \/ Offline!Replay(s) \/ Offline!Receive(s)
      PROVE  OfflineInv'
  BY <1>3, ActStep, ReplayStep, ReceiveStep
<1>4. CASE Offline!Timeout
  BY <1>4, TimeoutStep
<1>5. CASE UNCHANGED Offline!vars
  <2>1. UNCHANGED Offline!phone
        /\ UNCHANGED <<request, key, status, reached, photos, applied, exposed, answer>>
    BY <1>5 DEF Offline!vars, Offline!server
  <2>2. UNCHANGED <<made, replay>>
    BY <2>1 DEF Offline!phone
  <2> QED
    BY <2>1, <2>2, PhoneFrame, ServerFrame DEF OfflineInv
<1> QED
  BY <1>1, <1>2, <1>3, <1>4, <1>5 DEF Offline!Next

\* The invariant holds in every reachable state.
LEMMA OfflineInvariant == Offline!Spec => []OfflineInv
<1>1. Offline!Init => OfflineInv
  BY OfflineInit
<1>2. OfflineInv /\ [Offline!Next]_(Offline!vars) => OfflineInv'
  BY OfflineNext
<1> QED
  BY <1>1, <1>2, PTL DEF Offline!Spec

\* QueueKeepsActions (offline_action_queue.dart): an action whose enqueue
\* returned is on the phone until it leaves the queue, and never comes back,
\* for any number of actions, calls and faults.
THEOREM QueueKeepsActionsThm == Offline!Spec => []QueueKeepsActions
<1>1. OfflineInv => QueueKeepsActions
  <2> SUFFICES ASSUME OfflineInv, NEW a \in 1..Len(made)
               PROVE  /\ fate[a] = "kept" =>
                             /\ a \in Offline!Range(disk)
                             /\ \A w \in Offline!Range(writes) : a \in Offline!Range(w.snap)
                             /\ read => a \in Offline!Range(pending)
                             /\ made[a].kind = "photo" => a \in files
                      /\ fate[a] \in {"leaving", "gone"} =>
                             /\ a \notin Offline!Range(pending)
                             /\ fate[a] = "gone" => a \notin Offline!Range(disk)
    BY DEF QueueKeepsActions, Range, Offline!Range
  <2>1. a \in Offline!Actions /\ PhoneInv /\ \A p \in DOMAIN writes : p \in Nat /\ p >= 1
    BY Indexes DEF OfflineInv, PhoneInv, Known
  <2>2. InAll(a, 1) => \A w \in Offline!Range(writes) : a \in Offline!Range(w.snap)
    <3>1. \A w \in Offline!Range(writes) : \E p \in DOMAIN writes : w = writes[p]
      BY DEF Offline!Range
    <3> QED
      BY <2>1, <3>1 DEF InAll
  <2> QED
    BY <2>1, <2>2 DEF PhoneInv, FateInv, KeptAt, LeavingAt, NoneAt, Photo
<1> QED
  BY <1>1, OfflineInvariant, PTL

\* ReplaysTakeEffectOnce (idempotency.interceptor.ts, runner_action_replay.dart):
\* while its key was kept an action takes effect once, and one that left the
\* queue as done took effect, for any number of actions, calls and faults.
THEOREM ReplaysTakeEffectOnceThm == Offline!Spec => []ReplaysTakeEffectOnce
<1>1. OfflineInv => ReplaysTakeEffectOnce
  <2> SUFFICES ASSUME OfflineInv, NEW a \in 1..Len(made)
               PROVE  /\ a \notin exposed => applied[a] <= 1
                      /\ answer[a] = "done" =>
                             IF made[a].kind = "photo" THEN applied[a] > 0 ELSE made[a].to \in reached
    BY DEF ReplaysTakeEffectOnce
  <2>1. a \in Known /\ a \in Offline!Actions
    BY Indexes DEF OfflineInv, PhoneInv, Known
  <2>2. applied[a] \in Nat
    BY <2>1 DEF OfflineInv, ServerInv, ServerTypes
  <2>3. a \notin exposed => (applied[a] > 0 => applied[a] = 1)
    BY <2>1 DEF OfflineInv, ServerInv, TransitionInv, KeyInv, PhotoOnce
  <2>4. answer[a] = "done" => Effect(a)
    BY <2>1 DEF OfflineInv, ServerInv, EffectInv
  <2> QED
    BY <2>2, <2>3, <2>4 DEF Effect, Photo
<1> QED
  BY <1>1, OfflineInvariant, PTL
=============================================================================
