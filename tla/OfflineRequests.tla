----------------------------- MODULE OfflineRequests -----------------------------
(***************************************************************************)
(* The runner app's offline queue and the API's idempotent calls together: *)
(* what the runner does on one held job while the connection fails         *)
(* (active_jobs.dart, evidence_uploader.dart), queued, persisted and       *)
(* replayed until the server has answered (runner_action_replay.dart).     *)
(***************************************************************************)
EXTENDS IdempotentCalls

vars == <<phone, faults, server, answer>>

Init ==
    /\ InitPhone /\ InitServer
    /\ answer = [a \in Actions |-> "none"]

\* The status the app shows: the last queued transition's target.
ShownStatus ==
    LET queued == SelectSeq(pending, LAMBDA a : made[a].kind = "transition")
    IN  IF queued = <<>> THEN status ELSE made[Last(queued)].to

Possible ==
    {[kind |-> "photo", to |-> 0]} \union
    {[kind |-> "transition", to |-> t] : t \in {ShownStatus + 1} \cap {1, 2}}

Waiting(s) == replay # None /\ replay.step = "wait" /\ replay.request = s

Unused(s) == request[s] = Free /\ ~Waiting(s)

\* The runner acts and gets no answer: the first request carries no key, and
\* may yet arrive; the action is queued.
Act(s) ==
    \E action \in Possible :
        /\ Enqueue(action)
        /\ Unused(s)
        /\ request' = [request EXCEPT ![s] = [step |-> "sent", action |-> Len(made'),
                                              keyed |-> FALSE, reserved |-> FALSE]]
        /\ UNCHANGED <<key, status, reached, photos, applied, exposed, answer>>

\* runner(action): the replay carries the action's id as its key.  A photo
\* whose file is gone is not sent.
Replay(s) ==
    /\ Unused(s)
    /\ Send(s)
    /\ LET a == Head(pending) IN
       request' = [request EXCEPT ![s] = [Free EXCEPT
                      !.step = IF made[a].kind = "photo" /\ a \notin files
                                 THEN "missing" ELSE "sent",
                      !.action = a, !.keyed = TRUE]]
    /\ UNCHANGED <<faults, key, status, reached, photos, applied, exposed, answer>>

\* A transition answered with a conflict counts as done when the job is in
\* its target state.
RefusedOutcome(action) ==
    IF action.kind = "transition" /\ status = action.to THEN "done" ELSE "rejected"

OutcomeOf(s) ==
    CASE request[s].step = "ok" -> "done"
      [] request[s].step = "busy" -> "retryLater"
      [] request[s].step = "missing" -> "fileMissing"
      [] request[s].step = "refused" -> RefusedOutcome(made[request[s].action])

Answered(s) == request[s].step \in {"ok", "busy", "missing", "refused"}

\* The answer reaches the replay that waits for it, or nobody.
Receive(s) ==
    /\ Answered(s)
    /\ request' = [request EXCEPT ![s] = Free]
    /\ IF Waiting(s)
         THEN /\ Outcome(OutcomeOf(s))
              /\ answer' = [answer EXCEPT ![request[s].action] = OutcomeOf(s)]
         ELSE UNCHANGED <<phone, answer>>
    /\ UNCHANGED <<faults, key, status, reached, photos, applied, exposed>>

\* The replay gives up waiting: the request was lost, or takes too long and
\* goes on without it.  So does the check after a conflict when it fails.
Timeout ==
    /\ replay # None
    /\ replay.step = "wait"
    /\ Outcome("retryLater")
    /\ IF Waiting(replay.request) /\ request[replay.request] = Free
         THEN UNCHANGED faults ELSE Fault
    /\ UNCHANGED <<server, answer>>

Next ==
    \/ PhoneStep /\ UNCHANGED <<server, answer>>
    \/ ServerStep /\ UNCHANGED answer
    \/ \E s \in Requests : Act(s) \/ Replay(s) \/ Receive(s)
    \/ Timeout

Spec == Init /\ [][Next]_vars
=================================================================================
