---------------------------- MODULE AccountAccessProofs ----------------------------
(*********************************************************************************)
(* Proofs about AccountAccess: what a suspension does to the tokens of the       *)
(* account, and what requests see of its status in the cache, for any devices,   *)
(* requests, changes, tokens and outages, and any clock.                         *)
(*********************************************************************************)
EXTENDS AccountAccess, WellFoundedInduction, SequenceTheorems, TLAPS

Statuses == {"active", "suspended", "banned"}
Stages == {"none", "verified", "active", "allowed", "delete", "sign"}
Calls == [stage : Stages, tok : Nat, seen : Nat]

RowsOK ==
    /\ now \in Nat /\ cutoff \in Nat
    /\ history \in Seq([to : Statuses, at : Nat]) /\ Len(history) <= MaxChanges
    /\ \A i \in DOMAIN history : history[i].at <= now
    /\ job \in [Changes -> {None, "cache", "drop", "cutoff", "revoke"}]
    /\ \A i \in Changes : job[i] # None => i \in DOMAIN history
    /\ lost \in [cache : SUBSET Changes, cutoff : SUBSET Changes]
    /\ tokens \in Seq([iat : Nat, seen : Nat])
    /\ access \subseteq DOMAIN tokens
    /\ call \in [Callers -> Calls]

\* The cut-off of change i reached Redis; it was not below this second.
Marked(i) == i \in DOMAIN history /\ job[i] \in {"revoke", None} /\ i \notin lost.cutoff
Second(i) == cutOffSecondFor(history[i].to, history[i].at)

\* A call that has made its last check of the account, and signs with what it saw.
Checked(c) == call[c].stage \in {"allowed", "delete", "sign"}

\* While such a call runs, the cut-offs written since it checked are there.
CallInv ==
    \A c \in Callers : Checked(c) =>
        \A i \in DOMAIN history : Marked(i) /\ i > call[c].seen => Second(i) <= cutoff

\* Of the changes since its check, what would refuse an access token does.
TokenInv ==
    \A t \in access : \A i \in DOMAIN history :
        Marked(i) /\ i > tokens[t].seen /\ tokens[t].iat < Second(i) => tokens[t].iat < cutoff

IInv == RowsOK /\ CallInv /\ TokenInv
-----------------------------------------------------------------------------------
(* The cut-off second *)

\* A bounded set of numbers has a largest one.
LEMMA MaximumBounds ==
    ASSUME NEW S \in SUBSET Nat, S # {}, NEW b \in Nat, \A x \in S : x <= b
    PROVE  Maximum(S) \in S /\ \A x \in S : x <= Maximum(S)
<1> DEFINE T == {b - x : x \in S}
<1>1. T \subseteq Nat /\ T # {}
  <2>1. \A x \in S : x \in Nat /\ b - x \in Nat
    OBVIOUS
  <2>2. \E x : x \in S
    OBVIOUS
  <2> QED
    BY <2>1, <2>2
<1>2. PICK d \in T : \A y \in T : ~(<<y, d>> \in OpToRel(<, Nat))
  BY <1>1, NatLessThanWellFounded, WFMin
<1>3. \A y \in T : d <= y
  <2>1. \A y \in Nat : y < d => <<y, d>> \in OpToRel(<, Nat)
    BY <1>1, <1>2 DEF OpToRel
  <2>2. \A y \in T : ~(y < d)
    <3> HIDE DEF T
    <3> QED
      BY <1>1, <1>2, <2>1, Zenon
  <2> QED
    BY <1>1, <2>2
<1>4. PICK m \in S : d = b - m
  OBVIOUS
<1>5. \A x \in S : x <= m
  BY <1>3, <1>4
<1> QED
  BY <1>5 DEF Maximum

LEMMA MaximumOfTwo ==
    ASSUME NEW a \in Nat, NEW b \in Nat
    PROVE  Maximum({a, b}) \in Nat /\ a <= Maximum({a, b}) /\ b <= Maximum({a, b})
<1>1. \A x \in {a, b} : x <= a + b
  OBVIOUS
<1> QED
  BY <1>1, MaximumBounds

LEMMA HistoryRows ==
    ASSUME RowsOK
    PROVE  /\ Len(history) \in Nat /\ DOMAIN history = 1..Len(history) /\ DOMAIN history \subseteq Changes
           /\ \A i \in DOMAIN history :
                  history[i] \in [to : Statuses, at : Nat] /\ Second(i) \in Nat /\ Second(i) <= now + 1
<1>1. Len(history) \in Nat /\ DOMAIN history = 1..Len(history) /\ Len(history) <= MaxChanges
  BY LenProperties DEF RowsOK
<1>2. \A i \in DOMAIN history : history[i] \in [to : Statuses, at : Nat]
  BY <1>1, ElementOfSeq DEF RowsOK
<1>3. \A i \in DOMAIN history : Second(i) \in Nat /\ Second(i) <= now + 1
  BY <1>2 DEF RowsOK, Second, cutOffSecondFor
<1>4. DOMAIN history \subseteq Changes
  BY <1>1, AccessAssumption DEF Changes
<1> QED
  BY <1>1, <1>2, <1>3, <1>4

LEMMA TokenRows ==
    ASSUME RowsOK
    PROVE  /\ Len(tokens) \in Nat /\ DOMAIN tokens = 1..Len(tokens)
           /\ \A t \in DOMAIN tokens : tokens[t].iat \in Nat /\ tokens[t].seen \in Nat
<1>1. Len(tokens) \in Nat /\ DOMAIN tokens = 1..Len(tokens)
  BY LenProperties DEF RowsOK
<1>2. \A t \in DOMAIN tokens : tokens[t] \in [iat : Nat, seen : Nat]
  BY <1>1, ElementOfSeq DEF RowsOK
<1> QED
  BY <1>1, <1>2

\* What is worked out from the history is at least the second of each change.
LEMMA FromHistory ==
    ASSUME RowsOK
    PROVE  cutOffFromHistory \in Nat /\ \A i \in DOMAIN history : Second(i) <= cutOffFromHistory
<1> DEFINE S == {0} \cup {Second(i) : i \in DOMAIN history}
<1>1. S \in SUBSET Nat /\ S # {} /\ now + 1 \in Nat /\ \A x \in S : x <= now + 1
  BY HistoryRows DEF RowsOK
<1>2. Maximum(S) \in S /\ \A x \in S : x <= Maximum(S)
  <2> HIDE DEF S
  <2> QED
    BY <1>1, MaximumBounds
<1>3. cutOffFromHistory = Maximum(S)
  BY DEF cutOffFromHistory, Second
<1> QED
  BY <1>1, <1>2, <1>3
-----------------------------------------------------------------------------------
(* Steps *)

\* A step that changes neither changes, nor cut-off, nor tokens: a call makes its
\* checks, keeps what it saw, or ends.
LEMMA CallStep ==
    ASSUME IInv, UNCHANGED <<now, history, job, cutoff, lost, tokens, access>>,
           call' \in [Callers -> Calls],
           \A c \in Callers : Checked(c)' =>
               \/ Checked(c) /\ call'[c].seen = call[c].seen
               \/ call'[c].seen = Len(history)
    PROVE  IInv'
<1> USE DEF IInv
<1>1. RowsOK'
  BY DEF RowsOK
<1>2. \A i : (Marked(i)' <=> Marked(i)) /\ Second(i)' = Second(i)
  BY DEF Marked, Second
<1>3. TokenInv'
  BY <1>2 DEF TokenInv
<1>4. CallInv'
  <2> SUFFICES ASSUME NEW c \in Callers, Checked(c)', NEW i \in DOMAIN history,
                      Marked(i), i > call'[c].seen
               PROVE  Second(i) <= cutoff
    BY <1>2 DEF CallInv
  <2>1. call'[c].seen # Len(history)
    BY HistoryRows
  <2> QED
    BY <2>1 DEF CallInv
<1> QED
  BY <1>1, <1>3, <1>4

\* A step of a change: its job moves on, its cut-off write may be lost.
LEMMA JobStep ==
    ASSUME IInv, UNCHANGED <<now, history, cutoff, tokens, access, call>>,
           job' \in [Changes -> {None, "cache", "drop", "cutoff", "revoke"}],
           \A i \in Changes : job'[i] # None => job[i] # None,
           lost' \in [cache : SUBSET Changes, cutoff : SUBSET Changes],
           \A i \in DOMAIN history : Marked(i)' => Marked(i)
    PROVE  IInv'
<1> USE DEF IInv
<1>1. RowsOK'
  BY DEF RowsOK
<1>2. \A i : Second(i)' = Second(i)
  BY DEF Second
<1>3. TokenInv'
  BY <1>2 DEF TokenInv
<1>4. CallInv'
  BY <1>2 DEF CallInv, Checked
<1> QED
  BY <1>1, <1>3, <1>4

\* mark: the cut-off is raised to the second of the change at least.
LEMMA MarkStep ==
    ASSUME IInv, NEW i \in Changes, markTokenCutoff(i)
    PROVE  IInv'
<1> USE DEF IInv
<1>1. /\ job[i] = "cutoff" /\ job' = [job EXCEPT ![i] = "revoke"]
      /\ UNCHANGED <<now, history, tokens, access, call>> /\ i \in DOMAIN history
  BY AccessAssumption DEF markTokenCutoff, account, RowsOK
<1>2. CASE down
  <2>1. lost' = [lost EXCEPT !.cutoff = @ \cup {i}] /\ UNCHANGED cutoff
    BY <1>2 DEF markTokenCutoff
  <2>2. /\ job' \in [Changes -> {None, "cache", "drop", "cutoff", "revoke"}]
        /\ lost' \in [cache : SUBSET Changes, cutoff : SUBSET Changes]
        /\ \A j \in Changes : job'[j] # None => job[j] # None
    BY <1>1, <2>1, AccessAssumption, ZenonT(30) DEF RowsOK
  <2>3. \A j \in DOMAIN history : Marked(j)' => Marked(j)
    BY <1>1, <2>1 DEF Marked, RowsOK
  <2> QED
    BY <1>1, <2>1, <2>2, <2>3, JobStep
<1>3. CASE ~down
  <2> DEFINE second == cutOffSecondFor(history[i].to, now)
  <2>1. cutoff' = Maximum({cutoff, second}) /\ UNCHANGED lost
    BY <1>3 DEF markTokenCutoff, Raise
  <2>2. second \in Nat /\ Second(i) <= second
    BY <1>1, HistoryRows DEF RowsOK, Second, cutOffSecondFor
  <2>3. cutoff' \in Nat /\ cutoff <= cutoff' /\ second <= cutoff'
    <3> HIDE DEF second
    <3> QED
      BY <2>1, <2>2, MaximumOfTwo DEF RowsOK
  <2>4. \A j \in DOMAIN history :
            /\ Second(j)' = Second(j) /\ Second(j) \in Nat
            /\ Marked(j)' => Marked(j) \/ Second(j) <= cutoff'
    <3>1. \A j \in DOMAIN history : Second(j)' = Second(j) /\ Second(j) \in Nat
      BY <1>1, HistoryRows DEF Second
    <3>2. \A j \in DOMAIN history : j # i => (Marked(j)' <=> Marked(j))
      BY <1>1, <2>1, HistoryRows DEF Marked, RowsOK
    <3>3. Second(i) <= cutoff'
      <4> HIDE DEF second
      <4> QED
        BY <1>1, <2>2, <2>3, <3>1
    <3> QED
      BY <3>1, <3>2, <3>3
  <2>5. RowsOK'
    BY <1>1, <2>1, <2>3 DEF RowsOK
  <2>6. CallInv'
    <3> SUFFICES ASSUME NEW c \in Callers, Checked(c), NEW j \in DOMAIN history,
                        Marked(j)', j > call[c].seen
                 PROVE  Second(j) <= cutoff'
      <4>1. \A c \in Callers : Checked(c)' <=> Checked(c)
        BY <1>1 DEF Checked
      <4> HIDE DEF second
      <4> QED
        BY <1>1, <2>4, <4>1 DEF CallInv
    <3>1. CASE Marked(j)
      <4>1. Second(j) <= cutoff
        BY <3>1 DEF CallInv
      <4> QED
        BY <2>3, <2>4, <4>1 DEF RowsOK
    <3> QED
      BY <2>4, <3>1
  <2>7. TokenInv'
    <3> SUFFICES ASSUME NEW t \in access, NEW j \in DOMAIN history,
                        Marked(j)', j > tokens[t].seen, tokens[t].iat < Second(j)
                 PROVE  tokens[t].iat < cutoff'
      <4> HIDE DEF second
      <4> QED
        BY <1>1, <2>4 DEF TokenInv
    <3>1. tokens[t].iat \in Nat
      BY TokenRows DEF RowsOK
    <3>2. CASE Marked(j)
      <4>1. tokens[t].iat < cutoff
        BY <3>2 DEF TokenInv
      <4>2. cutoff \in Nat
        BY DEF RowsOK
      <4> HIDE DEF IInv, second
      <4> QED
        BY <2>3, <3>1, <4>1, <4>2
    <3>3. CASE Second(j) <= cutoff'
      BY <2>3, <2>4, <3>1, <3>3
    <3> QED
      BY <2>4, <3>2, <3>3
  <2> QED
    BY <2>5, <2>6, <2>7
<1> QED
  BY <1>2, <1>3

\* A committed change is not marked yet.
LEMMA ChangeStep ==
    ASSUME IInv, NEW to \in Statuses, changeStatus(to)
    PROVE  IInv'
<1> USE DEF IInv
<1> DEFINE new == Len(history) + 1  row == [to |-> to, at |-> now]
<1>1. /\ Len(history) < MaxChanges
      /\ history' = Append(history, row) /\ job' = [job EXCEPT ![new] = "cache"]
      /\ UNCHANGED <<now, cutoff, lost, tokens, access, call>>
  BY DEF changeStatus, redis
<1>2. /\ Len(history) \in Nat /\ DOMAIN history = 1..Len(history) /\ new \in Changes
      /\ row \in [to : Statuses, at : Nat]
  BY <1>1, HistoryRows, AccessAssumption DEF Changes, RowsOK
<1>3. /\ history' \in Seq([to : Statuses, at : Nat]) /\ Len(history') = new
      /\ history'[new] = row /\ \A i \in DOMAIN history : history'[i] = history[i]
  BY <1>1, <1>2, AppendProperties DEF RowsOK
<1>4. DOMAIN history' = DOMAIN history \cup {new}
  BY <1>2, <1>3, LenProperties
<1>5. RowsOK'
  BY <1>1, <1>2, <1>3, <1>4, AccessAssumption DEF RowsOK
<1>6. \A i \in DOMAIN history' : Marked(i)' =>
          i \in DOMAIN history /\ Marked(i) /\ Second(i)' = Second(i)
  BY <1>1, <1>2, <1>3, <1>4, AccessAssumption DEF Marked, Second, RowsOK
<1>7. CallInv'
  BY <1>1, <1>6 DEF CallInv, Checked
<1>8. TokenInv'
  BY <1>1, <1>6 DEF TokenInv
<1> QED
  BY <1>5, <1>7, <1>8

\* What is signed is as old as the check it was signed on.
LEMMA SignStep ==
    ASSUME IInv, NEW c \in Callers, issueTokenPair(c), ~down
    PROVE  IInv'
<1> USE DEF IInv
<1> DEFINE new == Len(tokens) + 1  row == [iat |-> now, seen |-> call[c].seen]
<1>1. /\ Checked(c) /\ call' = [call EXCEPT ![c] = Idle]
      /\ tokens' = Append(tokens, row) /\ access' = access \cup {new}
      /\ UNCHANGED <<now, history, job, cutoff, lost>>
  BY DEF issueTokenPair, End, Checked, account
<1>2. /\ Len(tokens) \in Nat /\ DOMAIN tokens = 1..Len(tokens) /\ row \in [iat : Nat, seen : Nat]
  BY TokenRows DEF RowsOK, Calls
<1>3. /\ tokens' \in Seq([iat : Nat, seen : Nat]) /\ Len(tokens') = new
      /\ tokens'[new] = row /\ \A t \in DOMAIN tokens : tokens'[t] = tokens[t]
  BY <1>1, <1>2, AppendProperties DEF RowsOK
<1>4. DOMAIN tokens' = DOMAIN tokens \cup {new} /\ new \notin DOMAIN tokens
  BY <1>2, <1>3, LenProperties
<1>5. /\ call' \in [Callers -> Calls] /\ call'[c].stage = "none"
      /\ \A d \in Callers \ {c} : call'[d] = call[d]
  BY <1>1 DEF RowsOK, Calls, Idle, Stages
<1>6. RowsOK'
  BY <1>1, <1>3, <1>4, <1>5 DEF RowsOK
<1>7. \A i : (Marked(i)' <=> Marked(i)) /\ Second(i)' = Second(i)
  BY <1>1 DEF Marked, Second
<1>8. CallInv'
  BY <1>1, <1>5, <1>7 DEF CallInv, Checked
<1>9. TokenInv'
  <2> SUFFICES ASSUME NEW t \in access', NEW i \in DOMAIN history,
                      Marked(i), i > tokens'[t].seen, tokens'[t].iat < Second(i)
               PROVE  tokens'[t].iat < cutoff
    BY <1>1, <1>7 DEF TokenInv
  <2>1. CASE t \in access
    BY <1>3, <2>1 DEF TokenInv, RowsOK
  <2>2. CASE t = new
    <3>1. Second(i) <= cutoff /\ Second(i) \in Nat
      BY <1>1, <1>3, <2>2, HistoryRows DEF CallInv
    <3> QED
      BY <1>3, <2>2, <3>1 DEF RowsOK
  <2> QED
    BY <1>1, <2>1, <2>2
<1> QED
  BY <1>6, <1>8, <1>9

\* The cut-off leaves Redis once no access token it refuses is left.
LEMMA LapseStep ==
    ASSUME IInv, CutOffLapses
    PROVE  IInv'
<1> USE DEF IInv
<1>1. /\ \A c \in Callers : ~Checked(c)
      /\ access' = {t \in access : tokens[t].iat >= cutoff} /\ cutoff' = 0
      /\ UNCHANGED <<now, history, job, lost, tokens, call>>
  BY DEF CutOffLapses, account, Checked, Idle
<1>2. RowsOK'
  BY <1>1 DEF RowsOK
<1>3. CallInv'
  BY <1>1 DEF CallInv, Checked
<1>4. TokenInv'
  <2>1. \A t \in access' : t \in access /\ ~(tokens[t].iat < cutoff)
    BY <1>1, TokenRows DEF RowsOK
  <2>2. \A i : (Marked(i)' <=> Marked(i)) /\ Second(i)' = Second(i)
    BY <1>1 DEF Marked, Second
  <2> QED
    BY <1>1, <2>1, <2>2 DEF TokenInv
<1> QED
  BY <1>2, <1>3, <1>4

\* The steps of a change that do not write the cut-off.
LEMMA PublishStep ==
    ASSUME IInv, NEW i \in Changes,
           writeCache(i) \/ DropCache(i) \/ revokeAllForUser(i) \/ Crash(i)
    PROVE  IInv'
<1> USE DEF IInv
<1>1. UNCHANGED <<now, history, cutoff, tokens, access, call>>
  BY DEF writeCache, DropCache, revokeAllForUser, Crash, account, redis
<1>2. PICK next \in {None, "drop", "cutoff"} : job' = [job EXCEPT ![i] = next]
  BY DEF writeCache, DropCache, revokeAllForUser, Crash
<1>3. job[i] # None
  BY AccessAssumption DEF writeCache, DropCache, revokeAllForUser, Crash
<1>4. /\ job' \in [Changes -> {None, "cache", "drop", "cutoff", "revoke"}]
      /\ \A j \in Changes : job'[j] # None => job[j] # None
  BY <1>2, <1>3 DEF RowsOK
<1>5. PICK cs \in SUBSET {i}, ms \in SUBSET {i} :
          lost' = [cache |-> lost.cache \cup cs, cutoff |-> lost.cutoff \cup ms]
  <2>1. lost = [cache |-> lost.cache, cutoff |-> lost.cutoff]
    BY DEF RowsOK
  <2>2. CASE writeCache(i)
    <3>1. lost' = lost \/ lost' = [lost EXCEPT !.cache = @ \cup {i}]
      BY <2>2 DEF writeCache
    <3>2. lost' = [cache |-> lost.cache \cup {}, cutoff |-> lost.cutoff \cup {}]
          \/ lost' = [cache |-> lost.cache \cup {i}, cutoff |-> lost.cutoff \cup {}]
      BY <2>1, <3>1
    <3> QED
      BY <3>2
  <2>3. CASE DropCache(i) \/ revokeAllForUser(i)
    <3>1. lost' = [cache |-> lost.cache \cup {}, cutoff |-> lost.cutoff \cup {}]
      BY <2>1, <2>3 DEF DropCache, revokeAllForUser
    <3> QED
      BY <3>1
  <2>4. CASE Crash(i)
    <3> DEFINE cs == IF job[i] = "cache" THEN {i} ELSE {}
               ms == IF job[i] # "revoke" THEN {i} ELSE {}
    <3>1. lost' = [cache |-> lost.cache \cup cs, cutoff |-> lost.cutoff \cup ms]
      BY <2>4 DEF Crash
    <3> QED
      BY <3>1
  <2> QED
    BY <2>2, <2>3, <2>4
<1>6. lost' \in [cache : SUBSET Changes, cutoff : SUBSET Changes]
  BY <1>5 DEF RowsOK
<1>7. Marked(i)' => Marked(i)
  BY <1>1, <1>2, AccessAssumption DEF Marked, RowsOK, writeCache, DropCache, revokeAllForUser, Crash
<1>8. \A j \in DOMAIN history : Marked(j)' => Marked(j)
  <2> SUFFICES ASSUME NEW j \in DOMAIN history, j # i, Marked(j)' PROVE Marked(j)
    BY <1>7
  <2> QED
    BY <1>1, <1>2, <1>5, HistoryRows DEF Marked, RowsOK
<1> QED
  BY <1>1, <1>4, <1>6, <1>8, JobStep

\* The steps of a sign-in and of a refresh before anything is signed.
LEMMA CheckStep ==
    ASSUME IInv, NEW c \in Callers,
           \/ SignIn(c) \/ CheckStatus(c) \/ CheckCutOff(c) \/ RotateVerify(c) \/ RotateDelete(c)
           \/ \E t \in Pairs : verifyRefresh(c, t)
           \/ issueTokenPair(c) /\ down
    PROVE  IInv'
<1> DEFINE keeps(row) == \/ row.stage \notin {"allowed", "delete", "sign"}
                         \/ Checked(c) /\ row.seen = call[c].seen
                         \/ row.seen = Len(history)
<1>1. UNCHANGED <<now, history, job, cutoff, lost, tokens, access>>
  BY DEF SignIn, CheckStatus, CheckCutOff, RotateVerify, RotateDelete, verifyRefresh,
         issueTokenPair, account, redis
<1>2. /\ call[c] \in Calls /\ Len(history) \in Nat /\ Idle \in Calls /\ keeps(Idle)
      /\ call \in [Callers -> Calls]
  BY HistoryRows DEF IInv, RowsOK, Calls, Stages, Idle
<1>3. PICK row \in Calls : keeps(row) /\ call' = [call EXCEPT ![c] = row]
  <2>1. CASE SignIn(c) \/ \E t \in Pairs : verifyRefresh(c, t)
    BY <1>2, <2>1 DEF SignIn, verifyRefresh, Calls, Stages, Pairs
  <2>2. CASE CheckStatus(c)
    <3>1. [call[c] EXCEPT !.stage = "active"] \in Calls
      BY <1>2 DEF Calls, Stages
    <3>2. keeps([call[c] EXCEPT !.stage = "active"])
      BY <1>2 DEF Calls
    <3> QED
      BY <1>2, <2>2, <3>1, <3>2 DEF CheckStatus, Step, End
  <2>3. CASE CheckCutOff(c)
    <3> DEFINE next == [call[c] EXCEPT !.stage = "allowed", !.seen = Len(history)]
    <3>1. next \in Calls /\ next.seen = Len(history)
      BY <1>2 DEF Calls, Stages
    <3>2. call' = [call EXCEPT ![c] = next] \/ call' = [call EXCEPT ![c] = Idle]
      BY <2>3 DEF CheckCutOff, End
    <3> HIDE DEF next
    <3> QED
      BY <1>2, <3>1, <3>2
  <2>4. CASE RotateVerify(c) \/ RotateDelete(c)
    <3> DEFINE next(stage) == [call[c] EXCEPT !.stage = stage]
    <3>1. \A stage \in {"delete", "sign"} :
              next(stage) \in Calls /\ next(stage).seen = call[c].seen
      BY <1>2 DEF Calls, Stages
    <3>2. /\ Checked(c)
          /\ \/ \E stage \in {"delete", "sign"} : call' = [call EXCEPT ![c] = next(stage)]
             \/ call' = [call EXCEPT ![c] = Idle]
      BY <2>4 DEF RotateVerify, RotateDelete, Step, End, Checked
    <3> HIDE DEF next
    <3> QED
      BY <1>2, <3>1, <3>2
  <2>5. CASE issueTokenPair(c) /\ down
    BY <1>2, <2>5 DEF issueTokenPair, End
  <2> QED
    BY <2>1, <2>2, <2>3, <2>4, <2>5
<1>4. /\ call' \in [Callers -> Calls] /\ call'[c] = row
      /\ \A d \in Callers \ {c} : call'[d] = call[d]
  BY <1>2, <1>3
<1>5. \A d \in Callers : Checked(d)' =>
          \/ Checked(d) /\ call'[d].seen = call[d].seen
          \/ call'[d].seen = Len(history)
  BY <1>3, <1>4 DEF Checked
<1> QED
  BY <1>1, <1>4, <1>5, CallStep
-----------------------------------------------------------------------------------
LEMMA InitIInv == Init => IInv
<1> SUFFICES ASSUME Init PROVE IInv
    OBVIOUS
<1>1. history = <<>> /\ DOMAIN history = {} /\ Len(history) = 0 /\ MaxChanges \in Nat
  BY AccessAssumption DEF Init
<1>2. RowsOK
  BY <1>1 DEF Init, RowsOK, Calls, Stages, Idle
<1>3. CallInv /\ TokenInv
  BY <1>1 DEF Init, CallInv, TokenInv
<1> QED
  BY <1>2, <1>3 DEF IInv

LEMMA NextIInv == IInv /\ [Next]_vars => IInv'
<1> SUFFICES ASSUME IInv, [Next]_vars PROVE IInv'
    OBVIOUS
<1>1. CASE UNCHANGED <<now, history, job, cutoff, lost, tokens, access, call>>
  BY <1>1, CallStep DEF IInv, RowsOK, Checked
<1>2. ASSUME NEW to \in {"active", "suspended", "banned"}, changeStatus(to) PROVE IInv'
  BY <1>2, ChangeStep DEF Statuses
<1>3. ASSUME NEW i \in Changes,
             writeCache(i) \/ DropCache(i) \/ markTokenCutoff(i) \/ revokeAllForUser(i) \/ Crash(i)
      PROVE  IInv'
  BY <1>3, PublishStep, MarkStep
<1>4. ASSUME NEW r \in Readers, MissCache(r) \/ LoadStatus(r) \/ FillCache(r) PROVE IInv'
  BY <1>1, <1>4 DEF MissCache, LoadStatus, FillCache, account, redis
<1>5. ASSUME NEW c \in Callers,
             \/ SignIn(c) \/ CheckStatus(c) \/ CheckCutOff(c)
             \/ RotateVerify(c) \/ RotateDelete(c) \/ issueTokenPair(c)
             \/ \E t \in Pairs : verifyRefresh(c, t)
      PROVE  IInv'
  BY <1>5, CheckStep, SignStep
<1>6. ASSUME NEW t \in Pairs, logout(t) PROVE IInv'
  BY <1>1, <1>6 DEF logout, account
<1>7. CASE Tick
  <2>1. now' = now + 1 /\ UNCHANGED <<history, job, cutoff, lost, tokens, access, call>>
    BY <1>7 DEF Tick, account, redis
  <2>2. RowsOK'
    <3>1. \A i \in DOMAIN history : history[i].at \in Nat
      BY HistoryRows DEF IInv
    <3> QED
      BY <2>1, <3>1 DEF IInv, RowsOK
  <2>3. \A i : (Marked(i)' <=> Marked(i)) /\ Second(i)' = Second(i)
    BY <2>1 DEF Marked, Second
  <2>4. CallInv' /\ TokenInv'
    BY <2>1, <2>3 DEF IInv, CallInv, TokenInv, Checked
  <2> QED
    BY <2>2, <2>4 DEF IInv
<1>8. CASE CacheLapses \/ Outage
  BY <1>1, <1>8 DEF CacheLapses, Outage, account, redis
<1>9. CASE UNCHANGED vars
  BY <1>1, <1>9 DEF vars, account, redis
<1> QED
  BY <1>2, <1>3, <1>4, <1>5, <1>6, <1>7, <1>8, <1>9, LapseStep DEF Next

\* A token signed on a check made before a suspension is refused after it, however
\* the writes that follow a change race, fail or are lost: its refresh session by
\* the history, its access token by any cut-off above its second that was not
\* lost, the suspension's or a later change's (SuspensionEndsTokens).
THEOREM SuspensionEndsTokensThm == Spec => []SuspensionEndsTokens
<1>1. IInv => SuspensionEndsTokens
  <2> SUFFICES ASSUME IInv, Published, NEW t \in DOMAIN tokens, NEW i \in CutOffBy(t)
               PROVE  /\ t \in live => isRefreshRefused(t) \/ SignedLate(t, i)
                      /\ t \in access => isRefused(t) \/
                             \A j \in i..Len(history) : Covers(j, t) => j \in lost.cutoff
      BY DEF SuspensionEndsTokens
  <2> USE DEF IInv
  <2>1. tokens[t].iat \in Nat /\ tokens[t].seen \in Nat
    BY TokenRows
  <2>2. i \in DOMAIN history /\ i > tokens[t].seen /\ history[i].to # "active"
    BY DEF CutOffBy
  \* The history names every second above the token's.
  <2>3. ASSUME NEW j \in DOMAIN history, tokens[t].iat < Second(j)
        PROVE  tokens[t].iat < cutOffFromHistory /\ cutOffFromHistory \in Nat
    BY <2>1, <2>3, FromHistory, HistoryRows
  <2>4. ASSUME ~SignedLate(t, i) PROVE isRefreshRefused(t)
    <3> DEFINE other == IF down THEN 0 ELSE cutoff
    \* The suspension itself, or a reactivation since.
    <3>1. PICK j \in DOMAIN history : j >= i /\ tokens[t].iat < Second(j)
      <4>1. CASE ~(tokens[t].iat > history[i].at)
        BY <2>1, <2>2, <4>1, HistoryRows DEF Second, cutOffSecondFor
      <4>2. CASE \E j \in DOMAIN history : j > i /\ history[j].to = "active" /\ ~(tokens[t].iat >= history[j].at)
        BY <2>1, <2>2, <4>2, HistoryRows DEF Second, cutOffSecondFor
      <4> QED
        BY <2>4, <4>1, <4>2 DEF SignedLate
    <3>2. tokens[t].iat < cutOffFromHistory /\ cutOffFromHistory \in Nat
      BY <2>3, <3>1
    <3>3. other \in Nat
      BY DEF RowsOK
    <3>4. cutOffFromHistory <= Maximum({cutOffFromHistory, other}) /\ Maximum({cutOffFromHistory, other}) \in Nat
      <4> HIDE DEF other
      <4> QED
        BY <3>2, <3>3, MaximumOfTwo
    <3> QED
      BY <2>1, <3>2, <3>4 DEF isRefreshRefused
  \* Whichever later cut-off reached Redis, it is enough.
  <2>5. ASSUME t \in access, NEW j \in i..Len(history), Covers(j, t), j \notin lost.cutoff
        PROVE  isRefused(t)
    <3>1. j \in DOMAIN history /\ j \in Changes /\ j > tokens[t].seen /\ tokens[t].iat < Second(j)
      BY <2>1, <2>2, <2>5, HistoryRows DEF Covers, Second
    <3>2. Marked(j)
      BY <2>5, <3>1 DEF Marked, Published
    <3>3. tokens[t].iat < cutoff
      BY <2>5, <3>1, <3>2 DEF TokenInv
    <3>4. tokens[t].iat < cutOffFromHistory
      BY <2>3, <3>1
    <3> QED
      BY <3>3, <3>4 DEF isRefused
  <2> QED
    BY <2>4, <2>5
<1> QED
  BY <1>1, InitIInv, NextIInv, PTL DEF Spec
-----------------------------------------------------------------------------------
(* The cached status *)

Entries == [v : Nat, status : Statuses]

\* The changes whose cache write is still to come.
Unwritten == {i \in Changes : job[i] = "cache"}

\* As long as no cache write failed: the newest change is about to be written, or
\* its status is what is cached, no older write replaces it, and no request that
\* loaded an older one finds the cache empty.
Cached ==
    \/ Len(history) \in Unwritten
    \/ /\ cache # None => cache.status = status
       /\ cache = None \/ cache.v # Len(history) => Unwritten = {}
       /\ \A r \in Readers : reader[r] \notin {None, "missed"} => cache # None \/ reader[r] = status

CacheInv ==
    /\ status \in Statuses /\ (Len(history) > 0 => history[Len(history)].to = status)
    /\ cache = None \/ (cache \in Entries /\ cache.v <= Len(history))
    /\ reader \in [Readers -> {None, "missed"} \cup Statuses]
    /\ \A i \in Changes : job[i] = "drop" => i \in lost.cache
    /\ lost.cache = {} => Cached

\* A cached entry is not nothing.
LEMMA EntryIsSome == \A v \in Nat, s \in Statuses : [v |-> v, status |-> s] # None
BY EntryAssumption DEF Statuses

\* A step that changes no status and no entry and puts off no cache write.
LEMMA CacheKept ==
    ASSUME CacheInv, UNCHANGED <<status, history, cache, reader>>,
           \A i \in Changes : job'[i] = "cache" <=> job[i] = "cache",
           \A i \in Changes : job'[i] = "drop" => job[i] = "drop",
           lost.cache \subseteq lost'.cache
    PROVE  CacheInv'
<1>1. Unwritten' = Unwritten
  BY DEF Unwritten
<1>2. Cached => Cached'
  BY <1>1 DEF Cached
<1> QED
  BY <1>2 DEF CacheInv

\* A step after which the cache write of a change has failed.
LEMMA CacheLost ==
    ASSUME CacheInv, UNCHANGED <<status, history, reader>>,
           cache' \in {cache, None},
           \A i \in Changes : job'[i] = "drop" => job[i] = "drop" \/ i \in lost'.cache,
           lost.cache \subseteq lost'.cache, lost'.cache # {}
    PROVE  CacheInv'
BY DEF CacheInv

\* A change that was just committed is still to be written.
LEMMA ChangeCached ==
    ASSUME IInv, CacheInv, NEW to \in Statuses, changeStatus(to)
    PROVE  CacheInv'
<1> DEFINE new == Len(history) + 1  row == [to |-> to, at |-> now]
<1>1. /\ Len(history) < MaxChanges /\ status' = to
      /\ history' = Append(history, row) /\ job' = [job EXCEPT ![new] = "cache"]
      /\ UNCHANGED <<cache, reader, lost>>
  BY DEF changeStatus, redis
<1>2. /\ Len(history) \in Nat /\ new \in Changes /\ row \in [to : Statuses, at : Nat]
  BY <1>1, HistoryRows, AccessAssumption DEF Changes, RowsOK, IInv
<1>3. Len(history') = new /\ history'[new] = row
  BY <1>1, <1>2, AppendProperties DEF RowsOK, IInv
<1>4. /\ job'[new] = "cache" /\ \A i \in Changes \ {new} : job'[i] = job[i]
  BY <1>1, <1>2 DEF RowsOK, IInv
<1>5. Cached'
  BY <1>2, <1>3, <1>4 DEF Cached, Unwritten, Changes
<1>6. status' \in Statuses /\ (Len(history') > 0 => history'[Len(history')].to = status')
  BY <1>1, <1>3
<1>7. cache' = None \/ (cache' \in Entries /\ cache'.v <= Len(history'))
  BY <1>1, <1>2, <1>3 DEF CacheInv, Entries
<1> QED
  BY <1>1, <1>6, <1>7, <1>5, <1>4 DEF CacheInv

\* The newest change is written, or an older one, which leaves the newest alone.
LEMMA WriteCached ==
    ASSUME IInv, CacheInv, NEW i \in Changes, writeCache(i), ~down
    PROVE  CacheInv'
<1> DEFINE entry == [v |-> i, status |-> history[i].to]
<1>1. /\ job[i] = "cache" /\ job' = [job EXCEPT ![i] = "cutoff"]
      /\ cache' = setIfNotOlder(i, history[i].to)
      /\ UNCHANGED <<status, history, lost, reader>>
  BY DEF writeCache, account
<1>2. /\ Len(history) \in Nat /\ DOMAIN history = 1..Len(history)
      /\ i \in DOMAIN history /\ history[i].to \in Statuses
  BY <1>1, HistoryRows, AccessAssumption DEF RowsOK, IInv
<1>3. job'[i] = "cutoff" /\ \A j \in Changes \ {i} : job'[j] = job[j]
  BY <1>1 DEF RowsOK, IInv
<1>4. entry \in Entries /\ entry # None /\ entry.v = i
  BY <1>2, EntryIsSome DEF Entries
<1>5. \/ cache' = entry
      \/ cache' = cache /\ cache # None /\ cache.v > i
  BY <1>1 DEF setIfNotOlder
<1>6. cache' # None /\ cache' \in Entries /\ cache'.v <= Len(history)
  BY <1>2, <1>4, <1>5 DEF CacheInv
<1>7. Unwritten' \subseteq Unwritten
  BY <1>1, <1>3 DEF Unwritten
<1>8. ASSUME Cached, Len(history) \notin Unwritten' PROVE Cached'
  <2>1. CASE i = Len(history)
    <3>1. ~(cache # None /\ cache.v > i)
      BY <2>1 DEF CacheInv, Entries
    <3>2. cache' = entry
      BY <1>5, <3>1
    <3>3. cache'.status = status /\ cache'.v = Len(history)
      BY <1>2, <2>1, <3>2 DEF CacheInv
    <3> QED
      BY <1>1, <1>6, <3>3 DEF Cached
  <2>2. CASE i # Len(history)
    <3>1. Len(history) \notin Unwritten /\ i \in Unwritten
      BY <1>1, <1>2, <1>3, <1>8, <2>2 DEF Unwritten
    <3>2. cache # None /\ cache.v = Len(history) /\ cache.status = status
      BY <1>8, <3>1 DEF Cached
    <3>3. cache' = cache
      BY <1>1, <1>2, <2>2, <3>2 DEF setIfNotOlder
    <3> QED
      BY <1>1, <3>2, <3>3 DEF Cached
  <2> QED
    BY <2>1, <2>2
<1>9. Cached => Cached'
  BY <1>1, <1>8 DEF Cached
<1> QED
  BY <1>1, <1>3, <1>6, <1>9 DEF CacheInv

\* A change is published: its write is done, or it is lost.
LEMMA PublishCached ==
    ASSUME IInv, CacheInv, NEW i \in Changes,
           writeCache(i) \/ DropCache(i) \/ markTokenCutoff(i) \/ revokeAllForUser(i) \/ Crash(i)
    PROVE  CacheInv'
<1>1. /\ job \in [Changes -> {None, "cache", "drop", "cutoff", "revoke"}]
      /\ lost \in [cache : SUBSET Changes, cutoff : SUBSET Changes]
  BY DEF IInv, RowsOK
<1>2. CASE writeCache(i) /\ down
  <2>1. /\ job' = [job EXCEPT ![i] = "drop"] /\ lost' = [lost EXCEPT !.cache = @ \cup {i}]
        /\ UNCHANGED <<status, history, cache, reader>>
    BY <1>2 DEF writeCache, account
  <2>2. lost'.cache = lost.cache \cup {i} /\ \A j \in Changes \ {i} : job'[j] = job[j]
    BY <1>1, <2>1
  <2> QED
    BY <2>1, <2>2, CacheLost
<1>3. CASE DropCache(i)
  <2>1. /\ job[i] = "drop" /\ job' = [job EXCEPT ![i] = "cutoff"] /\ cache' \in {cache, None}
        /\ UNCHANGED <<status, history, lost, reader>>
    BY <1>3 DEF DropCache, account
  <2>2. i \in lost.cache /\ \A j \in Changes : job'[j] = "drop" => job[j] = "drop"
    BY <1>1, <2>1 DEF CacheInv
  <2> QED
    BY <2>1, <2>2, CacheLost
<1>4. CASE markTokenCutoff(i)
  <2>1. /\ job[i] = "cutoff" /\ job' = [job EXCEPT ![i] = "revoke"]
        /\ lost' \in {lost, [lost EXCEPT !.cutoff = @ \cup {i}]}
        /\ UNCHANGED <<status, history, cache, reader>>
    BY <1>4 DEF markTokenCutoff, account
  <2>2. /\ lost'.cache = lost.cache
        /\ \A j \in Changes : job'[j] = job[j] \/ (job'[j] = "revoke" /\ job[j] = "cutoff")
    BY <1>1, <2>1
  <2> QED
    BY <2>1, <2>2, CacheKept
<1>5. CASE revokeAllForUser(i)
  <2>1. /\ job[i] = "revoke" /\ job' = [job EXCEPT ![i] = None]
        /\ UNCHANGED <<status, history, cache, reader, lost>>
    BY <1>5 DEF revokeAllForUser, account
  <2>2. \A j \in Changes : job'[j] = job[j] \/ (job'[j] = None /\ job[j] = "revoke")
    BY <1>1, <2>1
  <2> QED
    BY <2>1, <2>2, CacheKept, AccessAssumption
<1>6. CASE Crash(i)
  <2>1. /\ job' = [job EXCEPT ![i] = None]
        /\ lost'.cache = IF job[i] = "cache" THEN lost.cache \cup {i} ELSE lost.cache
        /\ UNCHANGED <<status, history, cache, reader>>
    BY <1>6 DEF Crash, account, redis
  <2>2. \A j \in Changes : job'[j] = job[j] \/ (job'[j] = None /\ j = i)
    BY <1>1, <2>1
  <2>3. CASE job[i] = "cache"
    BY <2>1, <2>2, <2>3, CacheLost, AccessAssumption
  <2>4. CASE job[i] # "cache"
    BY <2>1, <2>2, <2>4, CacheKept, AccessAssumption
  <2> QED
    BY <2>3, <2>4
<1> QED
  BY <1>2, <1>3, <1>4, <1>5, <1>6, WriteCached

\* What a request loads is the status; SET NX fills an empty cache only.
LEMMA ReaderCached ==
    ASSUME IInv, CacheInv, NEW r \in Readers, MissCache(r) \/ LoadStatus(r) \/ FillCache(r)
    PROVE  CacheInv'
<1>1. UNCHANGED <<status, history, job, lost>>
  BY DEF MissCache, LoadStatus, FillCache, account
<1>2. Unwritten' = Unwritten /\ Len(history) \in Nat
  BY <1>1, HistoryRows DEF Unwritten, IInv
<1>3. CASE MissCache(r) \/ LoadStatus(r)
  <2>1. /\ cache' = cache /\ reader' \in [Readers -> {None, "missed"} \cup Statuses]
        /\ reader'[r] \in {"missed", status} /\ \A s \in Readers \ {r} : reader'[s] = reader[s]
    BY <1>3 DEF MissCache, LoadStatus, redis, CacheInv
  <2>2. Cached => Cached'
    BY <1>1, <1>2, <2>1 DEF Cached
  <2> QED
    BY <1>1, <2>1, <2>2 DEF CacheInv
<1>4. CASE FillCache(r)
  <2> DEFINE entry == [v |-> 0, status |-> reader[r]]
  <2>1. /\ reader[r] \in Statuses /\ reader[r] \notin {None, "missed"}
        /\ (cache' = cache /\ (cache # None \/ down)) \/ (cache' = entry /\ cache = None)
        /\ reader' \in [Readers -> {None, "missed"} \cup Statuses]
        /\ reader'[r] = None /\ \A s \in Readers \ {r} : reader'[s] = reader[s]
    BY <1>4 DEF FillCache, CacheInv
  <2>2. entry \in Entries /\ entry # None /\ entry.v = 0 /\ entry.status = reader[r]
    BY <2>1, EntryIsSome DEF Entries
  <2>3. Cached => Cached'
    BY <1>1, <1>2, <2>1, <2>2 DEF Cached
  <2>4. cache' = None \/ (cache' \in Entries /\ cache'.v <= Len(history))
    BY <1>2, <2>1, <2>2 DEF CacheInv
  <2> QED
    BY <1>1, <2>1, <2>3, <2>4 DEF CacheInv
<1> QED
  BY <1>3, <1>4

LEMMA InitCached == Init => CacheInv
<1> SUFFICES ASSUME Init PROVE CacheInv
    OBVIOUS
<1>1. history = <<>> /\ Len(history) = 0 /\ cache = None /\ status = "active"
  BY DEF Init
<1>2. Unwritten = {}
  BY AccessAssumption DEF Init, Unwritten
<1> QED
  BY <1>1, <1>2, AccessAssumption DEF Init, CacheInv, Cached, Statuses

LEMMA NextCached == IInv /\ CacheInv /\ [Next]_vars => CacheInv'
<1> SUFFICES ASSUME IInv, CacheInv, [Next]_vars PROVE CacheInv'
    OBVIOUS
<1>1. CASE UNCHANGED <<status, history, job, cache, lost, reader>>
  BY <1>1, CacheKept
<1>2. ASSUME NEW to \in {"active", "suspended", "banned"}, changeStatus(to) PROVE CacheInv'
  BY <1>2, ChangeCached DEF Statuses
<1>3. ASSUME NEW i \in Changes,
             writeCache(i) \/ DropCache(i) \/ markTokenCutoff(i) \/ revokeAllForUser(i) \/ Crash(i)
      PROVE  CacheInv'
  BY <1>3, PublishCached
<1>4. ASSUME NEW r \in Readers, MissCache(r) \/ LoadStatus(r) \/ FillCache(r) PROVE CacheInv'
  BY <1>4, ReaderCached
<1>5. ASSUME NEW c \in Callers,
             \/ SignIn(c) \/ CheckStatus(c) \/ CheckCutOff(c)
             \/ RotateVerify(c) \/ RotateDelete(c) \/ issueTokenPair(c)
             \/ \E t \in Pairs : verifyRefresh(c, t)
      PROVE  CacheInv'
  BY <1>1, <1>5 DEF SignIn, CheckStatus, CheckCutOff, RotateVerify, RotateDelete, issueTokenPair,
                    verifyRefresh, account, redis
<1>6. ASSUME NEW t \in Pairs, logout(t) PROVE CacheInv'
  BY <1>1, <1>6 DEF logout, account
<1>7. CASE Tick \/ CutOffLapses \/ Outage
  BY <1>1, <1>7 DEF Tick, CutOffLapses, Outage, account, redis
<1>8. CASE CacheLapses
  <2>1. /\ cache' = None /\ Published /\ \A r \in Readers : reader[r] = None
        /\ UNCHANGED <<status, history, job, lost, reader>>
    BY <1>8 DEF CacheLapses, account
  <2>2. Unwritten' = {}
    BY <2>1, AccessAssumption DEF Unwritten, Published
  <2>3. Cached'
    BY <2>1, <2>2 DEF Cached
  <2> QED
    BY <2>1, <2>3 DEF CacheInv
<1>9. CASE UNCHANGED vars
  BY <1>1, <1>9 DEF vars, account, redis
<1> QED
  BY <1>2, <1>3, <1>4, <1>5, <1>6, <1>7, <1>8, <1>9 DEF Next

\* Once every change is published and no request is about to fill the cache, what
\* requests see is the account's own status, however the writes of changes and
\* requests raced, unless one was lost (setIfNotOlder, accessOf).
THEOREM CacheFollowsStatusThm == Spec => []CacheFollowsStatus
<1>1. CacheInv => CacheFollowsStatus
  BY AccessAssumption DEF CacheInv, Cached, CacheFollowsStatus, Published, Unwritten, StatusSeen
<1> QED
  BY <1>1, InitIInv, NextIInv, InitCached, NextCached, PTL DEF Spec
====================================================================================
