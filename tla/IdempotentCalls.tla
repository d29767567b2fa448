----------------------------- MODULE IdempotentCalls -----------------------------
(***************************************************************************)
(* The API's side of a replayed action (idempotency.interceptor.ts): a     *)
(* request with an Idempotency-Key reserves the key in Redis, runs, and    *)
(* stores its answer or releases the key; a repeat is answered from the    *)
(* store.  A request may be lost or outlive the client's patience at any   *)
(* step, a Redis command may fail, a key may expire.  Keys are the         *)
(* queue's action ids, each sent with one body: the answer to a key sent   *)
(* with another body cannot be met here.                                   *)
(***************************************************************************)
EXTENDS OfflineQueue

CONSTANTS Requests   \* requests that can be under way at once

\* No replay is no replay's record.
ASSUME ReplayAssumption ==
    None \notin [step : {"wait", "persist", "settle"}, action : Actions, generation : Nat,
                 request : Requests, settle : SUBSET Actions]

VARIABLES
    request,    \* request[s]: its action, whether keyed, where it is
    key,        \* key[a] in Redis: none, pending or stored
    status,     \* of the errand: 0 ARRIVED, 1 IN_PROGRESS, 2 AWAITING_CUSTOMER, 3 ended
    reached,    \* the statuses the errand has had
    photos,     \* evidence rows of the errand
    applied,    \* applied[a]: how often a keyed call of a took effect
    exposed,    \* actions whose key expired, or could not be kept in Redis
    answer      \* what the phone's replay took each action's outcome to be: see OfflineRequests

server == <<request, key, status, reached, photos, applied, exposed>>

Free == [step |-> "free", action |-> 0, keyed |-> FALSE, reserved |-> FALSE]

InitServer ==
    /\ request = [s \in Requests |-> Free]
    /\ key = [a \in Actions |-> "none"]
    /\ status = 0 /\ reached = {0} /\ photos = 0
    /\ applied = [a \in Actions |-> 0]
    /\ exposed = {}

At(s, step) == request[s].step = step
Go(s, step) == request' = [request EXCEPT ![s].step = step]
Run(s, reserved) == request' = [request EXCEPT ![s].step = "run", ![s].reserved = reserved]

\* What each Redis command gives when Redis fails: the call runs unprotected.
RedisFails(s) ==
    /\ Fault
    /\ exposed' = exposed \union {request[s].action}

\* SET NX.
ReserveKey(s) ==
    LET a == request[s].action IN
    /\ At(s, "sent")
    /\ \/ /\ ~request[s].keyed \/ key[a] = "none"
          /\ Run(s, request[s].keyed)
          /\ key' = IF request[s].keyed THEN [key EXCEPT ![a] = "pending"] ELSE key
          /\ UNCHANGED <<exposed, faults>>
       \/ /\ request[s].keyed /\ key[a] # "none"
          /\ Go(s, "get")
          /\ UNCHANGED <<key, exposed, faults>>
       \/ /\ request[s].keyed
          /\ RedisFails(s)
          /\ Run(s, FALSE)
          /\ UNCHANGED key
    /\ UNCHANGED <<phone, status, reached, photos, applied>>

\* GET: the stored answer, "in progress", or nothing any more.
Get(s) ==
    LET a == request[s].action IN
    /\ At(s, "get")
    /\ \/ key[a] = "stored" /\ Go(s, "ok") /\ UNCHANGED <<exposed, faults>>
       \/ key[a] = "pending" /\ Go(s, "busy") /\ UNCHANGED <<exposed, faults>>
       \/ key[a] = "none" /\ Run(s, FALSE) /\ UNCHANGED <<exposed, faults>>
       \/ RedisFails(s) /\ Run(s, FALSE)
    /\ UNCHANGED <<phone, key, status, reached, photos, applied>>

\* The state checks of the transition and of the upload.
Accepts(action) ==
    \/ action.kind = "transition" /\ status + 1 = action.to /\ (action.to = 2 => photos > 0)
    \/ action.kind = "photo" /\ status \in {0, 1}

\* The handler; a failed call releases its key, a good one stores its answer.
Handle(s) ==
    LET a == request[s].action
        action == made[a]
    IN
    /\ At(s, "run")
    /\ IF Accepts(action)
         THEN /\ status' = IF action.kind = "transition" THEN action.to ELSE status
              /\ reached' = reached \union {status'}
              /\ photos' = IF action.kind = "photo" THEN photos + 1 ELSE photos
              /\ applied' = IF request[s].keyed THEN [applied EXCEPT ![a] = @ + 1] ELSE applied
              /\ Go(s, IF request[s].reserved THEN "store" ELSE "ok")
         ELSE /\ Go(s, IF request[s].reserved THEN "release" ELSE "refused")
              /\ UNCHANGED <<status, reached, photos, applied>>
    /\ UNCHANGED <<phone, faults, key, exposed>>

\* Mutant of StoreAnswer: a call releases its key whether or not it succeeded.
StoreReleases(s) ==
    /\ At(s, "store")
    /\ Go(s, "ok")
    /\ key' = [key EXCEPT ![request[s].action] = "none"]
    /\ UNCHANGED <<phone, faults, status, reached, photos, applied, exposed>>

StoreAnswer(s) ==
    /\ At(s, "store")
    /\ Go(s, "ok")
    /\ \/ key' = [key EXCEPT ![request[s].action] = "stored"] /\ UNCHANGED <<exposed, faults>>
       \/ RedisFails(s) /\ UNCHANGED key
    /\ UNCHANGED <<phone, status, reached, photos, applied>>

ReleaseKey(s) ==
    /\ At(s, "release")
    /\ Go(s, "refused")
    /\ \/ key' = [key EXCEPT ![request[s].action] = "none"] /\ UNCHANGED <<exposed, faults>>
       \/ RedisFails(s) /\ UNCHANGED key
    /\ UNCHANGED <<phone, status, reached, photos, applied>>

\* The network or the API loses the request, whatever it has done.
Lose(s) ==
    /\ ~At(s, "free")
    /\ Fault
    /\ request' = [request EXCEPT ![s] = Free]
    /\ UNCHANGED <<phone, key, status, reached, photos, applied, exposed>>

\* A reservation lasts 60 seconds, an answer 24 hours.
Expire(a) ==
    /\ key[a] # "none"
    /\ Fault
    /\ key' = [key EXCEPT ![a] = "none"]
    /\ exposed' = exposed \union {a}
    /\ UNCHANGED <<phone, request, status, reached, photos, applied>>

\* The task ends elsewhere.
EndTask ==
    /\ status # 3
    /\ Fault
    /\ status' = 3 /\ reached' = reached \union {3}
    /\ UNCHANGED <<phone, request, key, photos, applied, exposed>>

ServerStep ==
    \/ \E s \in Requests : ReserveKey(s) \/ Get(s) \/ Handle(s) \/ StoreAnswer(s) \/ ReleaseKey(s) \/ Lose(s)
    \/ \E a \in Actions : Expire(a)
    \/ EndTask
-----------------------------------------------------------------------------
\* A replay takes effect once: as long as its key was kept, no number of
\* retries, late requests and kills applies an action twice, and an action
\* that left the queue as done took effect (intercept, runnerFor).
ReplaysTakeEffectOnce ==
    \A a \in 1..Len(made) :
        /\ a \notin exposed => applied[a] <= 1
        /\ answer[a] = "done" =>
               IF made[a].kind = "photo" THEN applied[a] > 0 ELSE made[a].to \in reached
=================================================================================
