------------------------------- MODULE AccountAccess -------------------------------
(*********************************************************************************)
(* One account: its status, who may still use a token of it, and what suspending *)
(* and reactivating it does.  users.status and user_status_history are written   *)
(* in one transaction under the row lock (users/user-status.store.ts); what      *)
(* follows the commit is three Redis writes that race with those of other        *)
(* changes and may be lost: the cached status, the token cut-off second          *)
(* (users/user-access.service.ts, users/token-cutoff.service.ts) and the         *)
(* revocation of the refresh sessions (admin/user-status.service.ts).  Sign-in   *)
(* and refresh (auth/auth.service.ts, auth/token.service.ts) read the status     *)
(* first and sign later, with no lock between.                                   *)
(*********************************************************************************)
EXTENDS Naturals, Sequences, FiniteSets

CONSTANTS
    Callers,       \* sign-in and refresh calls of the account's devices
    Readers,       \* requests that check the status (JwtStrategy.validate)
    None,          \* no cached status, no job
    MaxTime,       \* seconds counted
    MaxChanges,    \* status changes made
    MaxTokens,     \* token pairs signed
    MaxOutages     \* Redis outages

ASSUME AccessAssumption ==
    /\ {MaxTime, MaxChanges, MaxTokens, MaxOutages} \subseteq Nat
    /\ None \notin {"cache", "drop", "cutoff", "revoke"}

\* No cached status differs from every cached one.
ASSUME EntryAssumption == None \notin [v : Nat, status : {"active", "suspended", "banned"}]

VARIABLES
    now,           \* the second
    status,        \* users.status
    history,       \* user_status_history, oldest first: [to, at]
    job,           \* what each change has still to publish
    cache,         \* user:access:{userId} in Redis, or None
    cutoff,        \* user:tokens-valid-after:{userId} in Redis, 0 when absent
    lost,          \* changes with a cache or a cut-off write that failed
    tokens,        \* the pairs signed: [iat, seen]
    access,        \* those whose access token has not expired
    live,          \* those whose refresh session is in Redis
    call,          \* the sign-in or refresh a caller is in
    reader,        \* the status a reader loaded and will fill the cache with
    down,          \* Redis cannot be reached
    outages        \* outages so far

account == <<status, history>>
redis == <<cache, cutoff, live>>
vars == <<now, account, job, redis, lost, tokens, access, call, reader, down, outages>>

Idle == [stage |-> "none", tok |-> 0, seen |-> 0]
Changes == 1..MaxChanges
Pairs == 1..MaxTokens

TypeOK ==
    /\ now \in 0..MaxTime /\ down \in BOOLEAN /\ outages \in 0..MaxOutages
    /\ status \in {"active", "suspended", "banned"}
    /\ history \in Seq([to : {"active", "suspended", "banned"}, at : 0..MaxTime])
    /\ Len(history) <= MaxChanges
    /\ job \in [Changes -> {None, "cache", "drop", "cutoff", "revoke"}]
    /\ cache \in {None} \cup [v : 0..MaxChanges, status : {"active", "suspended", "banned"}]
    /\ cutoff \in 0..(MaxTime + 1)
    /\ lost \in [cache : SUBSET Changes, cutoff : SUBSET Changes]
    /\ tokens \in Seq([iat : 0..MaxTime, seen : 0..MaxChanges])
    /\ live \subseteq DOMAIN tokens /\ access \subseteq DOMAIN tokens
    /\ call \in [Callers -> [stage : {"none", "verified", "active", "allowed", "delete", "sign"},
                             tok : 0..MaxTokens, seen : 0..MaxChanges]]
    /\ reader \in [Readers -> {None, "missed", "active", "suspended", "banned"}]

Init ==
    /\ now = 0 /\ status = "active" /\ history = <<>>
    /\ job = [i \in Changes |-> None]
    /\ cache = None /\ cutoff = 0 /\ live = {}
    /\ lost = [cache |-> {}, cutoff |-> {}]
    /\ tokens = <<>> /\ access = {}
    /\ call = [c \in Callers |-> Idle]
    /\ reader = [r \in Readers |-> None]
    /\ down = FALSE /\ outages = 0

-----------------------------------------------------------------------------------
(* The cut-off *)

Maximum(S) == CHOOSE x \in S : \A y \in S : y <= x

cutOffSecondFor(to, at) == IF to = "active" THEN at ELSE at + 1

cutOffFromHistory == Maximum({0} \cup {cutOffSecondFor(history[i].to, history[i].at) : i \in DOMAIN history})

\* Access tokens: Redis, and the history when Redis cannot be read.
isRefused(t) == tokens[t].iat < (IF down THEN cutOffFromHistory ELSE cutoff)

\* Refresh sessions: the history always, and Redis when it can be read.
isRefreshRefused(t) ==
    tokens[t].iat < Maximum({cutOffFromHistory, IF down THEN 0 ELSE cutoff})

\* accessOf: the cached status, or the table's.
StatusSeen == IF ~down /\ cache # None THEN cache.status ELSE status

-----------------------------------------------------------------------------------
(* Changing the status: UserStatusStore.write, then publish, then revokeAllForUser *)

Allowed(from, to) ==
    \/ from = "active" /\ to \in {"suspended", "banned"}
    \/ from = "suspended" /\ to \in {"active", "banned"}
    \/ from = "banned" /\ to = "active"

changeStatus(to) ==
    /\ Len(history) < MaxChanges
    /\ Allowed(status, to)
    /\ status' = to
    /\ history' = Append(history, [to |-> to, at |-> now])
    /\ job' = [job EXCEPT ![Len(history) + 1] = "cache"]
    /\ UNCHANGED <<now, redis, lost, tokens, access, call, reader, down, outages>>

\* Mutant of setIfNotOlder: whoever writes last wins.
SetAlways(i, s) == [v |-> i, status |-> s]

\* SET_IF_NOT_OLDER_SCRIPT: an entry a reader filled has no version.
setIfNotOlder(i, s) ==
    IF cache # None /\ cache.v > i THEN cache ELSE [v |-> i, status |-> s]

writeCache(i) ==
    /\ job[i] = "cache"
    /\ IF down
         THEN /\ job' = [job EXCEPT ![i] = "drop"]
              /\ lost' = [lost EXCEPT !.cache = @ \cup {i}]
              /\ UNCHANGED cache
         ELSE /\ job' = [job EXCEPT ![i] = "cutoff"]
              /\ cache' = setIfNotOlder(i, history[i].to)
              /\ UNCHANGED lost
    /\ UNCHANGED <<now, account, cutoff, live, tokens, access, call, reader, down, outages>>

\* The write failed: delete the key as a best effort.
DropCache(i) ==
    /\ job[i] = "drop"
    /\ job' = [job EXCEPT ![i] = "cutoff"]
    /\ cache' = IF down THEN cache ELSE None
    /\ UNCHANGED <<now, account, cutoff, live, lost, tokens, access, call, reader, down, outages>>

\* Mutant of Raise: a reactivation lowers what its suspension raised.
SetSecond(second) == second

\* RAISE_SCRIPT: raise the stored second, never lower it.
Raise(second) == Maximum({cutoff, second})

\* Mutant of markTokenCutoff: a reactivation marks nothing.
MarkSuspensions(i) ==
    /\ job[i] = "cutoff"
    /\ job' = [job EXCEPT ![i] = "revoke"]
    /\ IF down
         THEN /\ lost' = [lost EXCEPT !.cutoff = @ \cup {i}]
              /\ UNCHANGED cutoff
         ELSE /\ cutoff' = IF history[i].to = "active" THEN cutoff
                          ELSE Raise(cutOffSecondFor(history[i].to, now))
              /\ UNCHANGED lost
    /\ UNCHANGED <<now, account, cache, live, tokens, access, call, reader, down, outages>>

\* mark: at the second it runs, not the second the change was committed in.
markTokenCutoff(i) ==
    /\ job[i] = "cutoff"
    /\ job' = [job EXCEPT ![i] = "revoke"]
    /\ IF down
         THEN /\ lost' = [lost EXCEPT !.cutoff = @ \cup {i}]
              /\ UNCHANGED cutoff
         ELSE /\ cutoff' = Raise(cutOffSecondFor(history[i].to, now))
              /\ UNCHANGED lost
    /\ UNCHANGED <<now, account, cache, live, tokens, access, call, reader, down, outages>>

\* deleteMatching scans: a session created while it scans may survive.
revokeAllForUser(i) ==
    /\ job[i] = "revoke"
    /\ job' = [job EXCEPT ![i] = None]
    /\ \/ down /\ UNCHANGED live
       \/ /\ ~down
          /\ \E kept \in SUBSET {t \in live : tokens[t].iat >= history[i].at} :
                live' = kept
    /\ UNCHANGED <<now, account, cache, cutoff, lost, tokens, access, call, reader, down, outages>>

\* The API stops before it has published the committed change.
Crash(i) ==
    /\ job[i] # None
    /\ job' = [job EXCEPT ![i] = None]
    /\ lost' = [cache |-> IF job[i] = "cache" THEN lost.cache \cup {i} ELSE lost.cache,
                cutoff |-> IF job[i] # "revoke" THEN lost.cutoff \cup {i} ELSE lost.cutoff]
    /\ UNCHANGED <<now, account, redis, tokens, access, call, reader, down, outages>>

-----------------------------------------------------------------------------------
(* Requests fill the cache *)

\* accessOf: GET missed, or Redis cannot be read.
MissCache(r) ==
    /\ reader[r] = None
    /\ cache = None \/ down
    /\ reader' = [reader EXCEPT ![r] = "missed"]
    /\ UNCHANGED <<now, account, job, redis, lost, tokens, access, call, down, outages>>

LoadStatus(r) ==
    /\ reader[r] = "missed"
    /\ reader' = [reader EXCEPT ![r] = status]
    /\ UNCHANGED <<now, account, job, redis, lost, tokens, access, call, down, outages>>

\* SET NX.
FillCache(r) ==
    /\ reader[r] \notin {None, "missed"}
    /\ cache' = IF ~down /\ cache = None THEN [v |-> 0, status |-> reader[r]] ELSE cache
    /\ reader' = [reader EXCEPT ![r] = None]
    /\ UNCHANGED <<now, account, job, cutoff, live, lost, tokens, access, call, down, outages>>

-----------------------------------------------------------------------------------
(* Sign-in, refresh, log-out *)

Room == Len(tokens) + Cardinality({c \in Callers : call[c].stage # "none"}) < MaxTokens

Step(c, stage) == call' = [call EXCEPT ![c].stage = stage]
End(c) == call' = [call EXCEPT ![c] = Idle]
Revoke(t) == live' = IF down THEN live ELSE live \ {t}

\* verifyOtpAndLogin: the code is right and the account is active.
SignIn(c) ==
    /\ call[c].stage = "none" /\ Room
    /\ status = "active"
    /\ call' = [call EXCEPT ![c] = [stage |-> "sign", tok |-> 0, seen |-> Len(history)]]
    /\ UNCHANGED <<now, account, job, redis, lost, tokens, access, reader, down, outages>>

verifyRefresh(c, t) ==
    /\ call[c].stage = "none" /\ Room
    /\ ~down /\ t \in live
    /\ call' = [call EXCEPT ![c] = [stage |-> "verified", tok |-> t, seen |-> 0]]
    /\ UNCHANGED <<now, account, job, redis, lost, tokens, access, reader, down, outages>>

\* refresh: an account that is not active loses the session.
CheckStatus(c) ==
    /\ call[c].stage = "verified"
    /\ \/ /\ status = "active"
          /\ Step(c, "active")
          /\ UNCHANGED live
       \/ /\ status # "active"
          /\ End(c)
          /\ Revoke(call[c].tok)
    /\ UNCHANGED <<now, account, job, cache, cutoff, lost, tokens, access, reader, down, outages>>

\* refresh: so does a session older than the account's cut-off.
CheckCutOff(c) ==
    /\ call[c].stage = "active"
    /\ \/ /\ ~isRefreshRefused(call[c].tok)
          /\ call' = [call EXCEPT ![c].stage = "allowed", ![c].seen = Len(history)]
          /\ UNCHANGED live
       \/ /\ isRefreshRefused(call[c].tok)
          /\ End(c)
          /\ Revoke(call[c].tok)
    /\ UNCHANGED <<now, account, job, cache, cutoff, lost, tokens, access, reader, down, outages>>

\* rotate: verify again, delete, sign.
RotateVerify(c) ==
    /\ call[c].stage = "allowed"
    /\ IF ~down /\ call[c].tok \in live THEN Step(c, "delete") ELSE End(c)
    /\ UNCHANGED <<now, account, job, redis, lost, tokens, access, reader, down, outages>>

RotateDelete(c) ==
    /\ call[c].stage = "delete"
    /\ IF down THEN End(c) ELSE Step(c, "sign")
    /\ Revoke(call[c].tok)
    /\ UNCHANGED <<now, account, job, cache, cutoff, lost, tokens, access, reader, down, outages>>

\* issueTokenPair: nothing is handed out when the session cannot be stored.
issueTokenPair(c) ==
    /\ call[c].stage = "sign"
    /\ End(c)
    /\ IF down
         THEN UNCHANGED <<tokens, access, live>>
         ELSE /\ tokens' = Append(tokens, [iat |-> now, seen |-> call[c].seen])
              /\ access' = access \cup {Len(tokens) + 1}
              /\ live' = live \cup {Len(tokens) + 1}
    /\ UNCHANGED <<now, account, job, cache, cutoff, lost, reader, down, outages>>

logout(t) ==
    /\ ~down /\ t \in live
    /\ Revoke(t)
    /\ UNCHANGED <<now, account, job, cache, cutoff, lost, tokens, access, call, reader, down, outages>>

-----------------------------------------------------------------------------------
(* Time and Redis *)

Published == \A i \in Changes : job[i] = None

Tick ==
    /\ now < MaxTime
    /\ now' = now + 1
    /\ UNCHANGED <<account, job, redis, lost, tokens, access, call, reader, down, outages>>

\* The entry's 60 seconds end.  No call lasts that long.
CacheLapses ==
    /\ cache # None /\ Published /\ \A r \in Readers : reader[r] = None
    /\ cache' = None
    /\ UNCHANGED <<now, account, job, cutoff, live, lost, tokens, access, call, reader, down, outages>>

\* The cut-off outlives the access tokens it refuses, not the refresh sessions.
CutOffLapses ==
    /\ cutoff # 0 /\ Published /\ \A c \in Callers : call[c] = Idle
    /\ access' = {t \in access : tokens[t].iat >= cutoff}
    /\ cutoff' = 0
    /\ UNCHANGED <<now, account, job, cache, live, lost, tokens, call, reader, down, outages>>

Outage ==
    /\ \/ ~down /\ outages < MaxOutages /\ outages' = outages + 1
       \/ down /\ UNCHANGED outages
    /\ down' = ~down
    /\ UNCHANGED <<now, account, job, redis, lost, tokens, access, call, reader>>

Next ==
    \/ \E to \in {"active", "suspended", "banned"} : changeStatus(to)
    \/ \E i \in Changes : \/ writeCache(i) \/ DropCache(i)
                          \/ markTokenCutoff(i) \/ revokeAllForUser(i) \/ Crash(i)
    \/ \E r \in Readers : MissCache(r) \/ LoadStatus(r) \/ FillCache(r)
    \/ \E c \in Callers : \/ SignIn(c) \/ CheckStatus(c) \/ CheckCutOff(c)
                          \/ RotateVerify(c) \/ RotateDelete(c) \/ issueTokenPair(c)
                          \/ \E t \in Pairs : verifyRefresh(c, t)
    \/ \E t \in Pairs : logout(t)
    \/ Tick \/ CacheLapses \/ CutOffLapses \/ Outage

Spec == Init /\ [][Next]_vars

-----------------------------------------------------------------------------------
(* Properties *)

(* Once every change is published, no reader is about to fill the cache and no   *)
(* cache write failed, every request sees the account's own status: a request    *)
(* that loaded the row before a suspension cannot put "active" back over it, nor *)
(* can the cache write of an older change that arrives last.                     *)
CacheFollowsStatus ==
    Published /\ lost.cache = {} /\ (\A r \in Readers : reader[r] = None)
        => StatusSeen = status

\* The suspensions and bans committed after the check token t was signed on.
CutOffBy(t) == {i \in DOMAIN history : i > tokens[t].seen /\ history[i].to # "active"}

\* The cut-off of change j is above the second t was signed in.
Covers(j, t) == tokens[t].iat < cutOffSecondFor(history[j].to, history[j].at)

\* t was signed late: after suspension i and in or after a reactivation's second.
SignedLate(t, i) ==
    /\ tokens[t].iat > history[i].at
    /\ \A j \in DOMAIN history : j > i /\ history[j].to = "active" => tokens[t].iat >= history[j].at

(* A token signed on a check made before a suspension is of no use after it, not *)
(* even once the account is active again.  The refresh session is refused even   *)
(* when the revocation and every cut-off were lost with Redis, unless the token  *)
(* was signed late.  The access token is refused, for as long as it lives, once  *)
(* one cut-off that covers its second reached Redis: the suspension's or, where  *)
(* that one was lost, the second chance a later change gives (publish).          *)
SuspensionEndsTokens ==
    Published =>
        \A t \in DOMAIN tokens : \A i \in CutOffBy(t) :
            /\ t \in live => isRefreshRefused(t) \/ SignedLate(t, i)
            /\ t \in access =>
                   isRefused(t) \/ \A j \in i..Len(history) : Covers(j, t) => j \in lost.cutoff

-----------------------------------------------------------------------------------
(* A claim the code does not keep *)

(* "The used refresh token is single-use" (auth/token.service.ts:111): of two    *)
(* rotations of one session both may reach the deletion.                         *)
SessionRotatedOnce ==
    \A c, d \in Callers :
        c # d /\ call[c].stage \in {"delete", "sign"} /\ call[d].stage \in {"delete", "sign"}
            => call[c].tok = 0 \/ call[c].tok # call[d].tok
====================================================================================
