------------------- MODULE VerificationDocumentsProofs -------------------
(***************************************************************************)
(* Proofs about VerificationDocuments, for any runners and earlier images, *)
(* any retention, batch and number of pages, and any number of uploads,    *)
(* reviews, restarts and failures of the store.                            *)
(***************************************************************************)
EXTENDS VerificationDocuments, SequenceTheorems, TLAPS

Rows == [runner : Runners, check : Checks \union {"unlabelled"}, status : Statuses,
         active : Nat, purged : BOOLEAN]

Phases == {"idle", "page", "hold", "purge", "destroy", "commit"}

RowsOK ==
    /\ now \in Nat
    /\ rows \in Seq(Rows)
    /\ images \subseteq DOMAIN rows
    /\ level \in [Runners -> {1, 2}]

\* The run's list are rows, and it began before now.
RunOK ==
    /\ run \in [phase : Phases, at : Nat, page : Nat, held : SUBSET Runners,
                skipped : SUBSET Nat, due : SUBSET (DOMAIN rows), doc : Nat]
    /\ run.at <= now
    /\ run.phase \notin {"destroy", "commit"} => run.doc = 0 /\ opened = {}

\* What the purge checked of the row it holds stays true while it holds it.
HeldRow ==
    run.phase \in {"destroy", "commit"} =>
        /\ run.doc \in DOMAIN rows
        /\ ~rows[run.doc].purged /\ rows[run.doc].status # "pending"
        /\ rows[run.doc].active + Retention < run.at
        /\ rows[run.doc].runner \in disputed => rows[run.doc].runner \in opened

\* RecordsTellImages, with what a held row adds before and after its image goes.
StoreInv ==
    /\ \A v \in DOMAIN rows :
           /\ rows[v].purged => v \notin images
           /\ ~rows[v].purged /\ v \notin images =>
                  v \in torn \/ (run.phase = "commit" /\ run.doc = v)
    /\ run.phase = "commit" => run.doc \notin images

IInv == RowsOK /\ RunOK /\ HeldRow /\ StoreInv /\ LevelFollowsRecords
-----------------------------------------------------------------------------
\* DOMAIN and elements of the table.
LEMMA RowsAre ==
    ASSUME RowsOK
    PROVE  /\ Len(rows) \in Nat /\ DOMAIN rows = 1..Len(rows)
           /\ \A i \in DOMAIN rows : rows[i] \in Rows /\ rows[i].active \in Nat
<1>1. rows \in Seq(Rows)
  BY DEF RowsOK
<1>2. /\ Len(rows) \in Nat /\ DOMAIN rows = 1..Len(rows)
      /\ \A i \in DOMAIN rows : rows[i] \in Rows
  BY <1>1, LenProperties, ElementOfSeq
<1> QED
  BY <1>2 DEF Rows

\* A row inserted, or one row rewritten.
LEMMA RowAdded ==
    ASSUME RowsOK, NEW row \in Rows, rows' = Append(rows, row)
    PROVE  /\ rows' \in Seq(Rows) /\ DOMAIN rows' = DOMAIN rows \union {Len(rows) + 1}
           /\ Len(rows) + 1 \notin DOMAIN rows /\ rows'[Len(rows) + 1] = row
           /\ \A i \in DOMAIN rows : rows'[i] = rows[i]
<1>1. /\ rows' \in Seq(Rows) /\ Len(rows') = Len(rows) + 1
      /\ rows'[Len(rows) + 1] = row /\ \A i \in 1..Len(rows) : rows'[i] = rows[i]
  BY AppendProperties DEF RowsOK
<1>2. DOMAIN rows' = 1..(Len(rows) + 1)
  BY <1>1, LenProperties
<1> QED
  BY <1>1, <1>2, RowsAre

LEMMA RowSet ==
    ASSUME RowsOK, NEW v \in DOMAIN rows, NEW row \in Rows, rows' = [rows EXCEPT ![v] = row]
    PROVE  /\ rows' \in Seq(Rows) /\ DOMAIN rows' = DOMAIN rows
           /\ rows'[v] = row /\ \A i \in DOMAIN rows \ {v} : rows'[i] = rows[i]
<1>1. rows' \in Seq(Rows)
  BY ExceptSeq, RowsAre DEF RowsOK
<1> QED
  BY <1>1

\* The level a runner's records give depends on nothing else.
LEMMA SameRule ==
    ASSUME NEW s, NEW t, NEW r,
           \A i : (i \in DOMAIN s /\ s[i].runner = r) <=> (i \in DOMAIN t /\ t[i].runner = r),
           \A i \in DOMAIN s : s[i].runner = r =>
               s[i].check = t[i].check /\ s[i].status = t[i].status
    PROVE  meetsIdVerifiedRule(s, r) <=> meetsIdVerifiedRule(t, r)
<1>1. \A c : RecordsOf(s, r, c) = RecordsOf(t, r, c)
  BY DEF RecordsOf
<1>2. \A c : NewestOf(s, r, c) = NewestOf(t, r, c)
  BY <1>1 DEF NewestOf
<1>3. \A c : \A i \in RecordsOf(s, r, c) : s[i].status = t[i].status
  BY DEF RecordsOf
<1>4. \A c : \A i \in NewestOf(s, r, c) : s[i].status = t[i].status
  BY <1>3 DEF NewestOf
<1>5. {i \in RecordsOf(s, r, "unlabelled") : s[i].status = "approved"}
      = {i \in RecordsOf(t, r, "unlabelled") : t[i].status = "approved"}
  BY <1>1, <1>3
<1>6. {c \in Sides : RecordsOf(s, r, c) = {}} = {c \in Sides : RecordsOf(t, r, c) = {}}
  BY <1>1
<1>7. (\A c \in Checks : \A i \in NewestOf(s, r, c) : s[i].status = "approved")
      <=> (\A c \in Checks : \A i \in NewestOf(t, r, c) : t[i].status = "approved")
  BY <1>2, <1>4
<1> QED
  BY <1>1, <1>5, <1>6, <1>7 DEF meetsIdVerifiedRule

\* One runner's level follows the records; no other runner's records changed.
LEMMA LevelSynced ==
    ASSUME RowsOK, LevelFollowsRecords, NEW r \in Runners,
           level' = Synced(rows', r),
           \A q \in Runners \ {r} : meetsIdVerifiedRule(rows, q) <=> meetsIdVerifiedRule(rows', q)
    PROVE  level' \in [Runners -> {1, 2}] /\ LevelFollowsRecords'
<1>1. level' = [level EXCEPT ![r] = IF meetsIdVerifiedRule(rows', r) THEN 2 ELSE 1]
  BY DEF Synced
<1>2. level'[r] = 2 <=> meetsIdVerifiedRule(rows', r)
  BY <1>1 DEF RowsOK
<1>3. \A q \in Runners \ {r} : level'[q] = level[q]
  BY <1>1 DEF RowsOK
<1> QED
  BY <1>1, <1>2, <1>3 DEF RowsOK, LevelFollowsRecords
-----------------------------------------------------------------------------
\* Requests, that leave the run alone.

\* A new row, its image and its runner's level.
LEMMA UploadKeeps ==
    ASSUME IInv, NEW r \in Runners, NEW c \in Checks, Upload(r, c) PROVE IInv'
<1> DEFINE row == NewRow(r, c, "pending")
<1> USE DEF IInv
<1>1. row \in Rows /\ row.runner = r /\ row.purged = FALSE
  BY DEF NewRow, Rows, RowsOK, Statuses
<1>2. /\ rows' = Append(rows, row) /\ images' = images \union {Len(rows) + 1}
      /\ level' = Synced(rows', r)
      /\ UNCHANGED <<now, disputed, run, opened, torn>>
  BY DEF Upload
<1> HIDE DEF row
<1>3. /\ rows' \in Seq(Rows) /\ DOMAIN rows' = DOMAIN rows \union {Len(rows) + 1}
      /\ Len(rows) + 1 \notin DOMAIN rows /\ rows'[Len(rows) + 1] = row
      /\ \A i \in DOMAIN rows : rows'[i] = rows[i]
  BY <1>1, <1>2, RowAdded
<1>4. \A q \in Runners \ {r} : meetsIdVerifiedRule(rows, q) <=> meetsIdVerifiedRule(rows', q)
  <2> TAKE q \in Runners \ {r}
  <2>1. \A i : (i \in DOMAIN rows /\ rows[i].runner = q) <=> (i \in DOMAIN rows' /\ rows'[i].runner = q)
    BY <1>1, <1>3
  <2>2. \A i \in DOMAIN rows : rows[i].runner = q =>
            rows[i].check = rows'[i].check /\ rows[i].status = rows'[i].status
    BY <1>3
  <2> QED
    BY <2>1, <2>2, SameRule
<1>5. level' \in [Runners -> {1, 2}] /\ LevelFollowsRecords'
  BY <1>2, <1>4, LevelSynced
<1>6. RowsOK'
  BY <1>2, <1>3, <1>5 DEF RowsOK
<1>7. RunOK'
  <2>1. run.due \subseteq DOMAIN rows'
    BY <1>3 DEF RunOK
  <2> QED
    BY <1>2, <2>1 DEF RunOK
<1>8. HeldRow'
  BY <1>2, <1>3 DEF HeldRow
<1>9. StoreInv'
  BY <1>1, <1>2, <1>3 DEF StoreInv, HeldRow
<1> QED
  BY <1>5, <1>6, <1>7, <1>8, <1>9

\* A row rewritten that the purge does not hold, with its runner, check and image.
LEMMA RowRewritten ==
    ASSUME IInv, NEW v \in DOMAIN rows, NEW row \in Rows,
           rows' = [rows EXCEPT ![v] = row],
           row.runner = rows[v].runner, row.check = rows[v].check, row.purged = rows[v].purged,
           run.phase \in {"destroy", "commit"} => run.doc # v,
           UNCHANGED <<now, images, disputed, run, opened, torn>>
    PROVE  /\ RunOK' /\ HeldRow' /\ StoreInv'
           /\ now' \in Nat /\ rows' \in Seq(Rows) /\ images' \subseteq DOMAIN rows'
           /\ \A q : q # row.runner =>
                  (meetsIdVerifiedRule(rows, q) <=> meetsIdVerifiedRule(rows', q))
           /\ row.status = rows[v].status => \A q :
                  (meetsIdVerifiedRule(rows, q) <=> meetsIdVerifiedRule(rows', q))
<1> USE DEF IInv
<1>1. /\ rows' \in Seq(Rows) /\ DOMAIN rows' = DOMAIN rows
      /\ rows'[v] = row /\ \A i \in DOMAIN rows \ {v} : rows'[i] = rows[i]
  BY RowSet
<1>2. \A i \in DOMAIN rows : /\ rows'[i].runner = rows[i].runner
                             /\ rows'[i].check = rows[i].check
                             /\ rows'[i].purged = rows[i].purged
  BY <1>1
<1>3. RunOK'
  BY <1>1 DEF RunOK
<1>4. HeldRow'
  BY <1>1 DEF HeldRow
<1>5. StoreInv'
  BY <1>1, <1>2 DEF StoreInv
<1>6. \A q : \A i : (i \in DOMAIN rows /\ rows[i].runner = q) <=> (i \in DOMAIN rows' /\ rows'[i].runner = q)
  BY <1>1, <1>2
<1>7. ASSUME NEW q, q # row.runner \/ row.status = rows[v].status
      PROVE  meetsIdVerifiedRule(rows, q) <=> meetsIdVerifiedRule(rows', q)
  <2>1. \A i \in DOMAIN rows : rows[i].runner = q =>
            rows[i].check = rows'[i].check /\ rows[i].status = rows'[i].status
    BY <1>1, <1>2, <1>7
  <2>2. \A i : (i \in DOMAIN rows /\ rows[i].runner = q) <=> (i \in DOMAIN rows' /\ rows'[i].runner = q)
    BY <1>6
  <2> QED
    BY <2>1, <2>2, SameRule
<1> QED
  BY <1>1, <1>3, <1>4, <1>5, <1>7 DEF RowsOK

\* A decision is never of the row the purge holds: that one is decided.
LEMMA ReviewKeeps ==
    ASSUME IInv, NEW v \in DOMAIN rows, NEW decision \in {"approved", "rejected"},
           Review(v, decision)
    PROVE  IInv'
<1> DEFINE row == [rows[v] EXCEPT !.status = decision, !.active = now]
<1> USE DEF IInv
<1>1. rows[v] \in Rows /\ now \in Nat
  BY RowsAre DEF RowsOK
<1>2. /\ row \in Rows /\ row.runner = rows[v].runner /\ row.check = rows[v].check
      /\ row.purged = rows[v].purged
  BY <1>1 DEF Rows, Statuses
<1>3. /\ rows[v].status = "pending" /\ rows' = [rows EXCEPT ![v] = row]
      /\ level' = Synced(rows', row.runner)
      /\ UNCHANGED <<now, images, disputed, run, opened, torn>>
  BY <1>2 DEF Review
<1>4. row.runner \in Runners
  BY <1>2 DEF Rows
<1>5. run.phase \in {"destroy", "commit"} => run.doc # v
  BY <1>3 DEF HeldRow
<1> HIDE DEF row
<1>6. /\ RunOK' /\ HeldRow' /\ StoreInv'
      /\ now' \in Nat /\ rows' \in Seq(Rows) /\ images' \subseteq DOMAIN rows'
      /\ \A q : q # row.runner =>
             (meetsIdVerifiedRule(rows, q) <=> meetsIdVerifiedRule(rows', q))
  BY <1>2, <1>3, <1>5, RowRewritten
<1>7. level' \in [Runners -> {1, 2}] /\ LevelFollowsRecords'
  BY <1>3, <1>4, <1>6, LevelSynced
<1> QED
  BY <1>6, <1>7 DEF RowsOK

\* A re-review waits for the row the purge holds.
LEMMA ReReviewKeeps ==
    ASSUME IInv, NEW v \in DOMAIN rows, ReReview(v) PROVE IInv'
<1> DEFINE row == [rows[v] EXCEPT !.active = now]
<1> USE DEF IInv
<1>1. rows[v] \in Rows /\ now \in Nat
  BY RowsAre DEF RowsOK
<1>2. /\ row \in Rows /\ row.runner = rows[v].runner /\ row.check = rows[v].check
      /\ row.purged = rows[v].purged /\ row.status = rows[v].status
  BY <1>1 DEF Rows
<1>3. /\ rows' = [rows EXCEPT ![v] = row]
      /\ UNCHANGED <<now, images, level, disputed, run, opened, torn>>
  BY DEF ReReview
<1>4. run.phase \in {"destroy", "commit"} => run.doc # v
  BY DEF ReReview, Locked
<1> HIDE DEF row
<1>5. /\ RunOK' /\ HeldRow' /\ StoreInv'
      /\ now' \in Nat /\ rows' \in Seq(Rows) /\ images' \subseteq DOMAIN rows'
      /\ \A q : meetsIdVerifiedRule(rows, q) <=> meetsIdVerifiedRule(rows', q)
  BY <1>2, <1>3, <1>4, RowRewritten
<1>6. LevelFollowsRecords'
  BY <1>3, <1>5 DEF LevelFollowsRecords
<1> QED
  BY <1>3, <1>5, <1>6 DEF RowsOK

\* What leaves rows, images and level alone.
LEMMA EvidenceKept ==
    ASSUME IInv, UNCHANGED evidence, now' \in Nat
    PROVE  RowsOK' /\ LevelFollowsRecords' /\ rows' = rows /\ images' = images
BY DEF IInv, RowsOK, LevelFollowsRecords, evidence

\* A dispute that opens under the purge is remembered until the row is let go.
LEMMA DisputeKeeps ==
    ASSUME IInv, NEW r \in Runners, OpenDispute(r) \/ ResolveDispute(r) PROVE IInv'
<1> USE DEF IInv
<1>1. UNCHANGED <<now, evidence, run, torn>> /\ now' \in Nat
  BY DEF OpenDispute, ResolveDispute, RowsOK
<1>2. RowsOK' /\ LevelFollowsRecords' /\ rows' = rows /\ images' = images
  BY <1>1, EvidenceKept
<1>3. RunOK'
  BY <1>1, <1>2 DEF RunOK, OpenDispute, ResolveDispute
<1>4. HeldRow'
  <2>1. CASE OpenDispute(r)
    <3>1. run.doc \in DOMAIN rows => run.doc # 0
      BY RowsAre
    <3> QED
      BY <1>1, <1>2, <2>1, <3>1 DEF HeldRow, OpenDispute
  <2>2. CASE ResolveDispute(r)
    BY <1>1, <1>2, <2>2 DEF HeldRow, ResolveDispute
  <2> QED
    BY <2>1, <2>2
<1>5. StoreInv'
  BY <1>1, <1>2 DEF StoreInv
<1> QED
  BY <1>2, <1>3, <1>4, <1>5
-----------------------------------------------------------------------------
\* The purge.

\* The run lets go of the row it held, if any; one whose image is gone is torn.
LEMMA RunMoves ==
    ASSUME IInv, UNCHANGED requests,
           run'.phase \in {"idle", "page", "hold", "purge"}, run'.doc = 0, opened' = {},
           run' \in [phase : Phases, at : Nat, page : Nat, held : SUBSET Runners,
                     skipped : SUBSET Nat, due : SUBSET (DOMAIN rows), doc : Nat],
           run'.at <= now,
           torn \subseteq torn', run.phase = "commit" => run.doc \in torn'
    PROVE  IInv'
<1> USE DEF IInv
<1>1. now' = now /\ disputed' = disputed /\ UNCHANGED evidence
  BY DEF requests
<1>2. RowsOK' /\ LevelFollowsRecords' /\ rows' = rows /\ images' = images
  BY <1>1, EvidenceKept DEF RowsOK
<1>3. RunOK'
  BY <1>1, <1>2 DEF RunOK
<1>4. HeldRow'
  BY DEF HeldRow
<1>5. StoreInv'
  BY <1>2 DEF StoreInv
<1> QED
  BY <1>2, <1>3, <1>4, <1>5

\* Pages and holds are read while no row is held.
LEMMA RunStepKeeps ==
    ASSUME IInv, BeginRun \/ ReadPage \/ ReadHolds \/ EndPage PROVE IInv'
<1> USE DEF IInv, RunOK
<1>1. UNCHANGED requests /\ opened' = opened /\ torn' = torn
  BY DEF BeginRun, ReadPage, ReadHolds, EndPage
<1>2. run.phase \in {"idle", "page", "hold", "purge"} /\ opened = {} /\ run.doc = 0
  BY DEF BeginRun, ReadPage, ReadHolds, EndPage, IdleRun
<1>3. now \in Nat /\ 0 <= now
  BY DEF RowsOK
<1>4. Oldest(Due) \subseteq DOMAIN rows
  BY DEF Oldest, Due
<1>5. CASE BeginRun
  <2>1. /\ run'.phase = "page" /\ run'.doc = 0 /\ run'.at = now
        /\ run' \in [phase : Phases, at : Nat, page : Nat, held : SUBSET Runners,
                     skipped : SUBSET Nat, due : SUBSET (DOMAIN rows), doc : Nat]
    BY <1>3, <1>5 DEF BeginRun, IdleRun, Phases
  <2> QED
    BY <1>1, <1>2, <1>3, <2>1, RunMoves
<1>6. CASE ReadPage
  <2>1. /\ run'.phase \in {"idle", "hold"} /\ run'.doc = 0 /\ run'.at <= now
        /\ run' \in [phase : Phases, at : Nat, page : Nat, held : SUBSET Runners,
                     skipped : SUBSET Nat, due : SUBSET (DOMAIN rows), doc : Nat]
    <3>1. CASE run' = IdleRun
      BY <1>3, <3>1 DEF IdleRun, Phases
    <3>2. CASE run' = [run EXCEPT !.phase = "hold", !.page = @ + 1, !.due = Oldest(Due)]
      <4>1. PICK S \in SUBSET (DOMAIN rows) :
                run' = [run EXCEPT !.phase = "hold", !.page = @ + 1, !.due = S]
        BY <1>4, <3>2
      <4>2. run.page + 1 \in Nat
        OBVIOUS
      <4> QED
        BY <1>2, <4>1, <4>2 DEF Phases
    <3> QED
      BY <1>6, <3>1, <3>2 DEF ReadPage
  <2> QED
    BY <1>1, <1>2, <2>1, RunMoves
<1>7. CASE ReadHolds
  <2>1. \A r : (\E i \in run.due : rows[i].runner = r) => r \in Runners
    BY RowsAre DEF Rows
  <2>2. /\ run'.phase = "purge" /\ run'.doc = 0 /\ run'.at <= now
        /\ run' \in [phase : Phases, at : Nat, page : Nat, held : SUBSET Runners,
                     skipped : SUBSET Nat, due : SUBSET (DOMAIN rows), doc : Nat]
    BY <1>2, <1>7, <2>1 DEF ReadHolds, Phases
  <2> QED
    BY <1>1, <1>2, <2>2, RunMoves
<1>8. CASE EndPage
  <2>1. /\ run'.phase = "page" /\ run'.doc = 0 /\ run'.at <= now
        /\ run' \in [phase : Phases, at : Nat, page : Nat, held : SUBSET Runners,
                     skipped : SUBSET Nat, due : SUBSET (DOMAIN rows), doc : Nat]
    BY <1>2, <1>8 DEF EndPage, Phases
  <2> QED
    BY <1>1, <1>2, <2>1, RunMoves
<1> QED
  BY <1>5, <1>6, <1>7, <1>8

\* A row left for another day.
LEMMA Skipped ==
    ASSUME IInv, NEW v \in DOMAIN rows
    PROVE  /\ Skip(v).phase = "purge" /\ Skip(v).doc = 0 /\ Skip(v).at <= now
           /\ Skip(v) \in [phase : Phases, at : Nat, page : Nat, held : SUBSET Runners,
                           skipped : SUBSET Nat, due : SUBSET (DOMAIN rows), doc : Nat]
<1>1. v \in Nat
  BY RowsAre DEF IInv
<1> QED
  BY <1>1 DEF IInv, RunOK, Skip, Phases

\* The row is looked at again when it is locked.
LEMMA LockRowKeeps ==
    ASSUME IInv, NEW v \in run.due, LockRow(v) PROVE IInv'
<1> USE DEF IInv
<1>1. /\ UNCHANGED requests /\ opened' = opened /\ torn' = torn /\ run.phase = "purge"
      /\ now' = now /\ disputed' = disputed /\ UNCHANGED evidence
  BY DEF LockRow, requests
<1>2. v \in DOMAIN rows /\ v \in Nat /\ opened = {}
  BY <1>1, RowsAre DEF RunOK
<1>3. CASE run' = Skip(v)
  BY <1>1, <1>2, <1>3, Skipped, RunMoves
<1>4. CASE run' # Skip(v)
  <2>1. /\ run' = [run EXCEPT !.phase = "destroy", !.doc = v]
        /\ ~rows[v].purged /\ rows[v].status # "pending"
        /\ PastRetention(rows[v].runner, run.at)
        /\ rows[v].runner \notin disputed
    BY <1>4 DEF LockRow
  <2>2. rows[v].active + Retention < run.at
    BY <1>2, <2>1 DEF PastRetention, RowsOf
  <2>3. RowsOK' /\ LevelFollowsRecords' /\ rows' = rows /\ images' = images
    BY <1>1, EvidenceKept DEF RowsOK
  <2>4. /\ run'.phase = "destroy" /\ run'.doc = v /\ run'.at = run.at
        /\ run' \in [phase : Phases, at : Nat, page : Nat, held : SUBSET Runners,
                     skipped : SUBSET Nat, due : SUBSET (DOMAIN rows), doc : Nat]
    BY <1>2, <2>1 DEF RunOK, Phases
  <2>5. RunOK'
    BY <1>1, <2>3, <2>4 DEF RunOK
  <2>6. HeldRow'
    BY <1>1, <1>2, <2>1, <2>2, <2>3, <2>4 DEF HeldRow
  <2>7. StoreInv'
    BY <1>1, <2>3, <2>4 DEF StoreInv
  <2> QED
    BY <2>3, <2>5, <2>6, <2>7
<1> QED
  BY <1>3, <1>4

\* The image deleted was due: what was checked of its row still holds.
LEMMA DestroyKeeps ==
    ASSUME IInv, Destroy PROVE IInv'
<1> USE DEF IInv
<1>1. /\ UNCHANGED <<now, rows, level, disputed, opened, torn>> /\ run.phase = "destroy"
      /\ images' = images \ {run.doc} /\ run' = [run EXCEPT !.phase = "commit"]
  BY DEF Destroy
<1>2. /\ run'.phase = "commit" /\ run'.doc = run.doc /\ run'.at = run.at
      /\ run' \in [phase : Phases, at : Nat, page : Nat, held : SUBSET Runners,
                   skipped : SUBSET Nat, due : SUBSET (DOMAIN rows), doc : Nat]
  BY <1>1 DEF RunOK, Phases
<1>3. RowsOK' /\ LevelFollowsRecords'
  BY <1>1 DEF RowsOK, LevelFollowsRecords
<1>4. RunOK' /\ HeldRow'
  BY <1>1, <1>2 DEF RunOK, HeldRow
<1>5. StoreInv'
  BY <1>1, <1>2 DEF StoreInv
<1> QED
  BY <1>3, <1>4, <1>5

\* A failure of the store or of the commit, or a restart.
LEMMA FailureKeeps ==
    ASSUME IInv, DestroyFails \/ CommitFails \/ Crash PROVE IInv'
<1> USE DEF IInv
<1>1. UNCHANGED requests /\ opened' = {}
  BY DEF DestroyFails, CommitFails, Crash
<1>2. CASE run' = IdleRun
  <2>1. /\ run'.phase = "idle" /\ run'.doc = 0 /\ run'.at <= now
        /\ run' \in [phase : Phases, at : Nat, page : Nat, held : SUBSET Runners,
                     skipped : SUBSET Nat, due : SUBSET (DOMAIN rows), doc : Nat]
    BY <1>2 DEF IdleRun, Phases, RowsOK
  <2>2. CASE Crash
    BY <1>1, <2>1, <2>2, RunMoves DEF Crash
  <2>3. CASE DestroyFails
    BY <1>1, <2>1, <2>3, RunMoves DEF DestroyFails
  <2>4. CASE CommitFails
    BY <1>1, <2>1, <2>4, RunMoves DEF CommitFails
  <2> QED
    BY <2>2, <2>3, <2>4
<1>3. CASE run' # IdleRun
  <2>1. /\ run' = Skip(run.doc) /\ run.phase \in {"destroy", "commit"}
        /\ torn \subseteq torn'
        /\ run.phase = "commit" => run.doc \in torn'
    BY <1>3 DEF DestroyFails, CommitFails, Crash
  <2>2. run.doc \in DOMAIN rows
    BY <2>1 DEF HeldRow
  <2>3. /\ run'.phase = "purge" /\ run'.doc = 0 /\ run'.at <= now
        /\ run' \in [phase : Phases, at : Nat, page : Nat, held : SUBSET Runners,
                     skipped : SUBSET Nat, due : SUBSET (DOMAIN rows), doc : Nat]
    BY <2>1, <2>2, Skipped
  <2> QED
    BY <1>1, <2>1, <2>3, RunMoves
<1> QED
  BY <1>2, <1>3

\* The record of the purge changes nothing the level looks at.
LEMMA CommitKeeps ==
    ASSUME IInv, Commit PROVE IInv'
<1> DEFINE v == run.doc
           row == [rows[v] EXCEPT !.purged = TRUE]
<1> USE DEF IInv
<1>1. /\ UNCHANGED <<now, images, level, disputed>> /\ run.phase = "commit"
      /\ rows' = [rows EXCEPT ![v] = row] /\ opened' = {} /\ torn' = torn \ {v}
      /\ run' = [run EXCEPT !.phase = "purge", !.due = @ \ {v}, !.doc = 0]
  BY DEF Commit
<1>2. v \in DOMAIN rows
  BY <1>1 DEF HeldRow
<1>3. rows[v] \in Rows
  BY <1>2, RowsAre
<1>4. /\ row \in Rows /\ row.runner = rows[v].runner /\ row.check = rows[v].check
      /\ row.status = rows[v].status /\ row.purged = TRUE
  BY <1>3 DEF Rows
<1> HIDE DEF row
<1>5. /\ rows' \in Seq(Rows) /\ DOMAIN rows' = DOMAIN rows
      /\ rows'[v] = row /\ \A i \in DOMAIN rows \ {v} : rows'[i] = rows[i]
  BY <1>1, <1>2, <1>4, RowSet
<1>6. /\ run'.phase = "purge" /\ run'.doc = 0 /\ run'.at = run.at
      /\ run' \in [phase : Phases, at : Nat, page : Nat, held : SUBSET Runners,
                   skipped : SUBSET Nat, due : SUBSET (DOMAIN rows), doc : Nat]
  BY <1>1 DEF RunOK, Phases
<1>7. RowsOK'
  BY <1>1, <1>5 DEF RowsOK
<1>8. RunOK' /\ HeldRow'
  BY <1>1, <1>5, <1>6 DEF RunOK, HeldRow
<1>9. StoreInv'
  BY <1>1, <1>4, <1>5, <1>6 DEF StoreInv
<1>10. LevelFollowsRecords'
  <2>1. \A r \in Runners : meetsIdVerifiedRule(rows, r) <=> meetsIdVerifiedRule(rows', r)
    <3> TAKE r \in Runners
    <3>1. \A i : (i \in DOMAIN rows /\ rows[i].runner = r) <=> (i \in DOMAIN rows' /\ rows'[i].runner = r)
      BY <1>4, <1>5
    <3>2. \A i \in DOMAIN rows : rows[i].runner = r =>
              rows[i].check = rows'[i].check /\ rows[i].status = rows'[i].status
      BY <1>4, <1>5
    <3> QED
      BY <3>1, <3>2, SameRule
  <2> QED
    BY <1>1, <2>1 DEF LevelFollowsRecords
<1> QED
  BY <1>7, <1>8, <1>9, <1>10

\* What is past retention stays so.
LEMMA TickKeeps ==
    ASSUME IInv, Tick PROVE IInv'
<1> USE DEF IInv
<1>1. UNCHANGED <<evidence, disputed, run, opened, torn>> /\ now' = now + 1 /\ now' \in Nat
  BY DEF Tick, RowsOK
<1>2. RowsOK' /\ LevelFollowsRecords' /\ rows' = rows /\ images' = images
  BY <1>1, EvidenceKept
<1>3. now < now' /\ run.at <= now'
  BY <1>1 DEF RowsOK, RunOK
<1>4. RunOK' /\ HeldRow' /\ StoreInv'
  BY <1>1, <1>2, <1>3 DEF RunOK, HeldRow, StoreInv
<1> QED
  BY <1>2, <1>4
-----------------------------------------------------------------------------
\* The earlier rows all have their images.
LEMMA InitIInv == Init => IInv
<1> SUFFICES ASSUME Init PROVE IInv
  OBVIOUS
<1> DEFINE Row(i) == NewRow(Earlier[i].runner, Earlier[i].check, Earlier[i].status)
<1>1. rows = [i \in DOMAIN Earlier |-> Row(i)] /\ now = 0 /\ images = DOMAIN rows
  BY DEF Init
<1>2. DOMAIN Earlier = 1..Len(Earlier) /\ Len(Earlier) \in Nat
      /\ \A i \in DOMAIN Earlier :
             Earlier[i] \in [runner : Runners, check : Checks \union {"unlabelled"}, status : Statuses]
  BY DocumentsAssumption, LenProperties, ElementOfSeq
<1>3. \A i \in DOMAIN Earlier : Row(i) \in Rows /\ Row(i).purged = FALSE
  BY <1>1, <1>2 DEF NewRow, Rows
<1> HIDE DEF Row
<1>4. rows \in [1..Len(Earlier) -> Rows]
  BY <1>1, <1>2, <1>3
<1>5. rows \in Seq(Rows)
  BY <1>2, <1>4, SeqDef
<1>6. level \in [Runners -> {1, 2}] /\ LevelFollowsRecords
  BY DEF Init, LevelFollowsRecords
<1>7. RowsOK
  BY <1>1, <1>5, <1>6 DEF RowsOK
<1>8. RunOK /\ HeldRow
  BY <1>1 DEF Init, RunOK, HeldRow, IdleRun, Phases
<1>9. StoreInv
  BY <1>1, <1>3 DEF Init, StoreInv, IdleRun
<1> QED
  BY <1>6, <1>7, <1>8, <1>9 DEF IInv

\* Every step keeps the invariant.
LEMMA NextIInv ==
    ASSUME IInv, [Next]_vars PROVE IInv'
<1>1. CASE Next
  <2>1. CASE \E r \in Uploaders, c \in Checks : Upload(r, c)
    BY <2>1, UploadKeeps, DocumentsAssumption
  <2>2. CASE \E v \in DOMAIN rows :
               ReReview(v) \/ \E decision \in {"approved", "rejected"} : Review(v, decision)
    BY <2>2, ReReviewKeeps, ReviewKeeps
  <2>3. CASE \E r \in Runners : OpenDispute(r) \/ ResolveDispute(r)
    BY <2>3, DisputeKeeps
  <2>4. CASE BeginRun \/ ReadPage \/ ReadHolds \/ EndPage
    BY <2>4, RunStepKeeps
  <2>5. CASE \E v \in run.due : LockRow(v)
    BY <2>5, LockRowKeeps
  <2>6. CASE DestroyFails \/ CommitFails \/ Crash
    BY <2>6, FailureKeeps
  <2>7. CASE Destroy \/ Commit \/ Tick
    BY <2>7, DestroyKeeps, CommitKeeps, TickKeeps
  <2> QED
    BY <1>1, <2>1, <2>2, <2>3, <2>4, <2>5, <2>6, <2>7 DEF Next, Step
<1>2. CASE UNCHANGED vars
  BY <1>2 DEF vars, evidence, counters, IInv, RowsOK, RunOK, HeldRow, StoreInv, LevelFollowsRecords
<1> QED
  BY <1>1, <1>2

\* The inductive invariant.
LEMMA DocumentsInvariant == Spec => []IInv
<1>1. Init => IInv
  BY InitIInv
<1>2. IInv /\ [Next]_vars => IInv'
  BY NextIInv
<1> QED
  BY <1>1, <1>2, PTL DEF Spec
-----------------------------------------------------------------------------
\* A runner's level follows the newest record of each check, for any runners
\* and images, whichever upload is decided first (syncIdVerifiedLevel).
THEOREM LevelFollowsRecordsThm == Spec => []LevelFollowsRecords
<1>1. IInv => LevelFollowsRecords
  BY DEF IInv
<1> QED
  BY <1>1, DocumentsInvariant, PTL

\* What is recorded as purged is gone, and a record of an image that is gone is
\* left only by a purge that stopped before its commit (purgeDocuments).
THEOREM RecordsTellImagesThm == Spec => []RecordsTellImages
<1>1. IInv => RecordsTellImages
  BY DEF IInv, StoreInv, RecordsTellImages, Locked
<1> QED
  BY <1>1, DocumentsInvariant, PTL

\* An image is deleted only when it was due, whatever was uploaded, reviewed or
\* disputed since the page that listed it was read (purgeDocuments).
THEOREM PurgedImagesWereDueThm == Spec => PurgedImagesWereDue
<1> DEFINE WasDue(v) == /\ rows[v].status # "pending"
                        /\ rows[v].active + Retention < now
                        /\ rows[v].runner \in disputed => rows[v].runner \in opened
<1>1. ASSUME IInv, [Next]_vars PROVE [\A v \in images \ images' : WasDue(v)]_vars
  <2>1. CASE Destroy
    <3>1. images \ images' \subseteq {run.doc} /\ run.phase = "destroy"
      BY <2>1 DEF Destroy
    <3>2. rows[run.doc].active \in Nat /\ Retention \in Nat /\ run.at \in Nat /\ now \in Nat
      BY <1>1, <3>1, RowsAre, DocumentsAssumption DEF IInv, HeldRow, RowsOK, RunOK
    <3>3. WasDue(run.doc)
      BY <1>1, <3>1, <3>2 DEF IInv, HeldRow, RunOK
    <3> QED
      BY <3>1, <3>3
  <2>2. CASE ~Destroy
    <3>1. images \subseteq images'
      BY <1>1, <2>2 DEF Next, Step, Tick, BeginRun, Crash, OpenDispute, ResolveDispute, Upload,
         ReReview, Review, ReadPage, ReadHolds, EndPage, LockRow, DestroyFails, Commit,
         CommitFails, vars, evidence, requests
    <3> QED
      BY <3>1
  <2> QED
    BY <2>1, <2>2
<1> QED
  BY <1>1, DocumentsInvariant, PTL DEF Spec, PurgedImagesWereDue
================================================================================
