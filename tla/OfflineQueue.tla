------------------------------ MODULE OfflineQueue ------------------------------
(***************************************************************************)
(* The runner app's queue of actions made without connectivity             *)
(* (offline_action_queue.dart): a list in memory, the list persisted on    *)
(* the phone, and the writes between the two, which land one after the     *)
(* other.  The app may be killed at any moment; a log-out empties the      *)
(* queue while a read, a write or a replay is still under way.             *)
(*                                                                         *)
(* A read may fail; every write that the app lives to see lands.  One that *)
(* throws (a full disk) fails its enqueue with the action left in memory,  *)
(* for the next write to carry: that is not modelled.                      *)
(***************************************************************************)
EXTENDS Naturals, SequencesExt

CONSTANTS
    MaxActions,     \* bound on the actions queued
    MaxFaults,      \* bound on what goes wrong, together
    None            \* no read, no replay under way

ASSUME QueueAssumption == MaxActions \in Nat

Actions == 1..MaxActions
Kinds == {"transition", "photo"}

VARIABLES
    disk,           \* QueueStore: the actions persisted, oldest first
    pending,        \* _pending
    writes,         \* _writes: snapshots on their way, with what waits for each
    load,           \* _loading: the read under way, or None
    read,           \* _read
    closed,         \* _closed
    generation,     \* _generation: a clear raises it
    replay,         \* replay's action: waiting for its outcome, its write or its clean-up
    files,          \* actions whose kept photo is on the phone
    signedIn,       \* _sessionActive
    made,           \* the actions enqueued so far: [kind, to]
    fate,           \* where each action is: memory only, durable, leaving, gone
    faults          \* what has gone wrong so far

phone == <<disk, pending, writes, load, read, closed, generation, replay, files,
           signedIn, made, fate>>

InitPhone ==
    /\ disk = <<>> /\ pending = <<>> /\ writes = <<>>
    /\ load = None /\ read = FALSE /\ closed = FALSE
    /\ generation = 0
    /\ replay = None
    /\ files = {}
    /\ signedIn = TRUE
    /\ made = <<>>
    /\ fate = [a \in Actions |-> "none"]
    /\ faults = 0

Fault == faults < MaxFaults /\ faults' = faults + 1

\* The actions of s that are not in S, in their order.
Without(s, S) ==
    LET kept[n \in 0..Len(s)] ==
            IF n = 0 THEN <<>>
            ELSE IF s[n] \in S THEN kept[n - 1] ELSE Append(kept[n - 1], s[n])
    IN  kept[Len(s)]

\* A snapshot of the queue follows the writes before it.
Persist(queue, by, ids) == writes' = Append(writes, [snap |-> queue, by |-> by, ids |-> ids])

Mark(S, to) == fate' = [a \in Actions |-> IF a \in S THEN to ELSE fate[a]]

-----------------------------------------------------------------------------
(* load                                                                    *)

\* The first enqueue and each sign-in read the store; so does a resume that
\* finds the queue closed.  Overlapping calls share one read.
StartLoad ==
    /\ signedIn
    /\ load = None
    /\ ~read \/ closed
    /\ load' = [generation |-> generation, after |-> Len(writes), got |-> None]
    /\ UNCHANGED <<disk, pending, writes, read, closed, generation, replay, files,
                   signedIn, made, fate, faults>>

\* The writes queued before the read land first.
ReadStore ==
    /\ load # None
    /\ load.got = None /\ load.after = 0
    /\ load' = [load EXCEPT !.got = <<disk>>]
    /\ UNCHANGED <<disk, pending, writes, read, closed, generation, replay, files,
                   signedIn, made, fate, faults>>

\* A read that fails leaves the queue closed.
ReadFails ==
    /\ load # None
    /\ load.got = None
    /\ Fault
    /\ load' = None
    /\ closed' = TRUE
    /\ UNCHANGED <<disk, pending, writes, read, generation, replay, files, signedIn,
                   made, fate>>

\* Mutant of Loads: a read that a log-out overtook still counts.
LoadsAlways == TRUE

Loads == load.generation = generation

\* A good read opens the queue, and drops the photos no action in it needs.
FinishLoad ==
    /\ load # None
    /\ load.got # None
    /\ load' = None
    /\ IF Loads
         THEN /\ pending' = load.got[1]
              /\ read' = TRUE /\ closed' = FALSE
              /\ files' = files \cap Range(load.got[1])
         ELSE UNCHANGED <<pending, read, closed, files>>
    /\ UNCHANGED <<disk, writes, generation, replay, signedIn, made, fate, faults>>

-----------------------------------------------------------------------------
(* enqueue, _persist, clear                                                *)

IsOpen == signedIn /\ ~closed /\ load = None

Ready == IsOpen /\ read

Enqueue(action) ==
    LET a == Len(made) + 1 IN
    /\ a \in Actions
    /\ Ready
    /\ made' = Append(made, action)
    /\ pending' = Append(pending, a)
    /\ Persist(pending', "enqueue", {a})
    /\ fate' = [fate EXCEPT ![a] = "queued"]
    /\ files' = IF action.kind = "photo" THEN files \union {a} ELSE files
    /\ UNCHANGED <<disk, load, read, closed, generation, replay, signedIn, faults>>

\* The oldest write lands, and what waited for it goes on: enqueue returns,
\* replay cleans up, clear has forgotten the actions and their photos.
Flush ==
    /\ writes # <<>>
    /\ LET w == Head(writes) IN
       /\ disk' = w.snap
       /\ writes' = Tail(writes)
       /\ load' = IF load # None /\ load.after > 0 THEN [load EXCEPT !.after = @ - 1] ELSE load
       /\ CASE w.by = "enqueue" ->
                 /\ Mark({a \in w.ids : fate[a] = "queued"}, "kept")
                 /\ UNCHANGED <<files, replay>>
            [] w.by = "replay" ->
                 /\ Mark(w.ids, "gone")
                 /\ replay' = [replay EXCEPT !.step = "settle"]
                 /\ UNCHANGED files
            [] w.by = "retry" ->
                 /\ replay' = None
                 /\ UNCHANGED <<fate, files>>
            [] w.by = "clear" ->
                 /\ Mark(w.ids, "gone")
                 /\ files' = {}
                 /\ UNCHANGED replay
    /\ UNCHANGED <<pending, read, closed, generation, signedIn, made, faults>>

\* Log out.
Clear ==
    /\ signedIn
    /\ Fault
    /\ signedIn' = FALSE
    /\ closed' = TRUE /\ read' = FALSE
    /\ generation' = generation + 1
    /\ pending' = <<>>
    /\ LET cleared == {a \in Actions : fate[a] \in {"queued", "kept"}} IN
       /\ Persist(<<>>, "clear", cleared)
       /\ Mark(cleared, "leaving")
    /\ UNCHANGED <<disk, load, replay, files, made>>

\* The next sign-in waits for the log-out to end.
SignIn ==
    /\ ~signedIn
    /\ writes = <<>>
    /\ signedIn' = TRUE
    /\ UNCHANGED <<disk, pending, writes, load, read, closed, generation, replay, files,
                   made, fate, faults>>

\* The app is killed: what is not on the phone's storage is lost.
Kill ==
    /\ Fault
    /\ pending' = <<>> /\ writes' = <<>>
    /\ load' = None /\ read' = FALSE /\ closed' = FALSE
    /\ replay' = None
    /\ fate' = [a \in Actions |-> IF fate[a] \in {"none", "gone"} THEN fate[a]
                                  ELSE IF a \in Range(disk) THEN "kept" ELSE "gone"]
    /\ UNCHANGED <<disk, generation, files, signedIn, made>>

-----------------------------------------------------------------------------
(* replay                                                                  *)

\* The oldest action goes to the server, as request s.
Send(s) ==
    /\ replay = None
    /\ signedIn /\ pending # <<>>
    /\ replay' = [step |-> "wait", action |-> Head(pending), generation |-> generation,
                  request |-> s, settle |-> {}]
    /\ UNCHANGED <<disk, pending, writes, load, read, closed, generation, files,
                   signedIn, made, fate>>

\* A refused transition takes the errand's later ones with it.
Leaving(outcome) ==
    {replay.action} \union
    (IF outcome = "rejected" /\ made[replay.action].kind = "transition"
       THEN {a \in Range(pending) : made[a].kind = "transition"}
       ELSE {})

Outcome(outcome) ==
    /\ replay # None
    /\ replay.step = "wait"
    /\ IF replay.generation # generation
         THEN replay' = None /\ UNCHANGED <<pending, writes, fate>>
         ELSE IF outcome = "retryLater"
         THEN /\ Persist(pending, "retry", {})
              /\ replay' = [replay EXCEPT !.step = "persist"]
              /\ UNCHANGED <<pending, fate>>
         ELSE /\ pending' = Without(pending, Leaving(outcome))
              /\ Persist(pending', "replay", Leaving(outcome))
              /\ replay' = [replay EXCEPT !.step = "persist", !.settle = Leaving(outcome)]
              /\ Mark(Leaving(outcome), "leaving")
    /\ UNCHANGED <<disk, load, read, closed, generation, files, signedIn, made>>

\* onSettled: the photos of what left are deleted.
Settle ==
    /\ replay # None
    /\ replay.step = "settle"
    /\ replay' = None
    /\ files' = files \ replay.settle
    /\ UNCHANGED <<disk, pending, writes, load, read, closed, generation, signedIn,
                   made, fate, faults>>

PhoneStep ==
    \/ StartLoad \/ ReadStore \/ ReadFails \/ FinishLoad
    \/ Flush \/ Clear \/ SignIn \/ Kill \/ Settle
-----------------------------------------------------------------------------
\* An action whose enqueue returned is on the phone, in every write on its way
\* and, once the queue is read, in it, with its photo, until it leaves the
\* queue; what left or was cleared at a log-out never comes back, whatever
\* reads, writes, replays and kills were under way (OfflineActionQueue).
QueueKeepsActions ==
    \A a \in 1..Len(made) :
        /\ fate[a] = "kept" =>
               /\ a \in Range(disk)
               /\ \A w \in Range(writes) : a \in Range(w.snap)
               /\ read => a \in Range(pending)
               /\ made[a].kind = "photo" => a \in files
        /\ fate[a] \in {"leaving", "gone"} =>
               /\ a \notin Range(pending)
               /\ fate[a] = "gone" => a \notin Range(disk)
=================================================================================
