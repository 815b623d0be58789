--------------------------- MODULE ClipStoreSafety ---------------------------
(***************************************************************************)
(* The safety properties of ClipStore, proved for every value of its       *)
(* constants.  None of them is inductive: whether a delete may take a file *)
(* depends on what the process that asks for it read some steps before, so *)
(* the invariant Safe says, of everything a process holds between two of   *)
(* its steps, what is still true of it.                                    *)
(***************************************************************************)
EXTENDS ClipStoreProofs

\* An upload that has not inserted its row has written its file lately.
WritesAreYoung == \A f \in Files : pc[f] \in Uploading => age[f] <= SaveLag

\* An upload that has not started has no file.
NotStarted == \A f \in Files : pc[f] \in {"idle", "admitted"} => file[f] = "none"

\* A row was inserted, by a handler that will not insert it again.
RowsPast == \A i \in rows : pc[i] \in Past /\ created[i] > 0

\* What has not been inserted has no created_at; no created_at is in the future.
CreatedInOrder ==
  \A i \in Items :
    /\ created[i] <= second
    /\ pc[i] \in {"idle", "admitted"} \cup Uploading => created[i] = 0

\* A DELETE request holds rows of its user; once they are deleted they stay so.
DeletesPast ==
  \A d \in Requests : \A i \in del[d].ids :
    /\ pc[i] \in Past
    /\ Owner[i] = del[d].by
    /\ del[d].pc = "gone" => i \notin rows

\* The cleanup goroutine holds rows that are expired, or the oldest of a user
\* over quota, and keys whose rows it has deleted.
CleanupPast ==
  /\ \A i \in sched.ids :
       /\ pc[i] \in Past
       /\ sched.pc = "expired" => (i \in rows => i \in expired)
       /\ sched.pc = "oldest" =>
            /\ Owner[i] = sched.user
            /\ dialect = "sqlite" =>
                 \A j \in rows \ sched.ids : Owner[j] = sched.user => created[i] <= created[j]
  /\ \A f \in sched.keys : pc[f] \in Past /\ f \notin rows
  /\ sched.pc \in {"excess", "oldest"} => sched.excess > 0

\* The grace period at work: a row that the snapshot misses was inserted after
\* it, and its file is no older than an upload and a reclaim round can make it.
ReclaimPast ==
  /\ recl.pc # "idle" =>
       \A f \in (rows \cap Files) \ recl.db : age[f] <= SaveLag + recl.age
  /\ \A f \in recl.victim : pc[f] \in Past /\ f \notin rows

Safe ==
  /\ TypeOK
  /\ UploadsIntact
  /\ RowsServable
  /\ WritesAreYoung
  /\ NotStarted
  /\ RowsPast
  /\ CreatedInOrder
  /\ DeletesPast
  /\ CleanupPast
  /\ ReclaimPast

------------------------------------------------------------------------------

\* The types the steps below use, without the records of the goroutines.
LEMMA Typed ==
  ASSUME TypeOK
  PROVE  /\ users \subseteq Users /\ rows \subseteq Items /\ expired \subseteq rows
         /\ file \in [Files -> {"none", "tmp", "blob"}]
         /\ age \in [Files -> Nat]
         /\ pc \in [Items -> PC]
         /\ created \in [Items -> Nat] /\ second \in Nat \ {0}
BY ConstantTypes DEF TypeOK

\* A deployment keeps its database.
LEMMA DialectKept ==
  ASSUME [Next]_vars
  PROVE  dialect' = dialect
<1>1. ASSUME NEW i \in Items, Admit(i) \/ Expire(i) \/ CreateStep(i) PROVE dialect' = dialect
  BY <1>1 DEF Admit, Expire, CreateStep, OpenTmp, Rename, SaveFails, Validate, Insert, InsertFails, Backfill,
       CreateFails, dbVars
<1>2. ASSUME NEW f \in Files, WriteChunk(f) PROVE dialect' = dialect
  BY <1>2 DEF WriteChunk, dbVars
<1>3. ASSUME NEW d \in Requests, DeleteStep(d) \/ \E u \in Users, j \in Items : FindForDelete(d, u, j)
      PROVE  dialect' = dialect
  BY <1>3 DEF DeleteStep, DeleteRow, DeleteBlob, FindForDelete, dbVars
<1>4. ASSUME NEW u \in Users, DeleteUser(u) \/ \E q \in Quotas : SetQuota(u, q) PROVE dialect' = dialect
  BY <1>4 DEF DeleteUser, SetQuota
<1>5. ASSUME CleanupStep PROVE dialect' = dialect
  BY <1>5 DEF CleanupStep, GetExpired, BatchDeleteExpired, BatchDeleteOldest, BatchDelete, ListUsers, CheckUsage,
       GetOldest, UserDone, CleanupDone, PurgeKey, SchedTo
<1>6. ASSUME ReclaimStep PROVE dialect' = dialect
  BY <1>6 DEF ReclaimStep, Snapshot, ListFiles, CheckKey, DeleteOrphan, CleanStaleTmpFiles, ReclTo, dbVars
<1>7. ASSUME Tick \/ Crash \/ UNCHANGED vars PROVE dialect' = dialect
  BY <1>7 DEF Tick, Crash, vars, dbVars
<1> QED
  BY <1>1, <1>2, <1>3, <1>4, <1>5, <1>6, <1>7 DEF Next

\* A handler that will not insert a row any more stays so: its row, if there is
\* one, is not inserted again, keeps its created_at, its mark if it has one, and
\* on SQLite is not younger than the rows that are inserted later.
LEMMA PastIsPast ==
  ASSUME TypeOK, CreatedInOrder, [Next]_vars
  PROVE  /\ rows' \subseteq Items
         /\ \A i \in Items : pc[i] \in Past =>
              /\ pc'[i] \in Past
              /\ created'[i] = created[i]
              /\ i \in rows' => i \in rows
              /\ i \in expired /\ i \in rows' => i \in expired'
              /\ dialect = "sqlite" => \A j \in rows' \ rows : created[i] <= created'[j]
<1> DEFINE P == 
         /\ rows' \subseteq Items
         /\ \A i \in Items : pc[i] \in Past =>
              /\ pc'[i] \in Past
              /\ created'[i] = created[i]
              /\ i \in rows' => i \in rows
              /\ i \in expired /\ i \in rows' => i \in expired'
              /\ dialect = "sqlite" => \A j \in rows' \ rows : created[i] <= created'[j]
<1> USE Typed, ConstantTypes
<1>1. ASSUME NEW i \in Items, Admit(i) \/ InsertFails(i) \/ Backfill(i) \/ CreateFails(i) PROVE P
  BY <1>1 DEF Admit, InsertFails, ReadyToInsert, Backfill, CreateFails, SetPc, Past, Uploading, dbVars
<1>2. ASSUME NEW f \in Files, OpenTmp(f) \/ WriteChunk(f) \/ Rename(f) \/ SaveFails(f) \/ Validate(f)
      PROVE P
  BY <1>2 DEF OpenTmp, WriteChunk, Rename, SaveFails, Validate, SetPc, Past, Uploading, dbVars
<1>3. ASSUME NEW i \in Items, Insert(i) PROVE P
  BY <1>3 DEF Insert, ReadyToInsert, SetPc, Past, Uploading, CreatedInOrder
<1>4. ASSUME NEW d \in Requests, NEW u \in Users, NEW i \in Items, FindForDelete(d, u, i) PROVE P
  BY <1>4 DEF FindForDelete, dbVars
<1>5. ASSUME NEW d \in Requests, DeleteStep(d) PROVE P
  BY <1>5 DEF DeleteStep, DeleteRow, DeleteRows, DeleteRowsFails, DeleteBlob, dbVars
<1>6. ASSUME NEW u \in Users, DeleteUser(u) \/ \E q \in Quotas : SetQuota(u, q) PROVE P
  BY <1>6 DEF DeleteUser, DeleteRows, SetQuota
<1>7. ASSUME CleanupStep PROVE P
  BY <1>7 DEF CleanupStep, GetExpired, BatchDeleteExpired, BatchDeleteOldest,
       BatchDelete, DeleteRows, DeleteRowsFails, ListUsers, CheckUsage, GetOldest, UserDone, CleanupDone,
       PurgeKey, SchedTo
<1>8. ASSUME ReclaimStep PROVE P
  BY <1>8 DEF ReclaimStep, Snapshot, ListFiles, CheckKey, DeleteOrphan,
       CleanStaleTmpFiles, ReclTo, dbVars
<1>9. ASSUME Tick \/ UNCHANGED vars \/ \E i \in Items : Expire(i) PROVE P
  BY <1>9 DEF Tick, Expire, vars, dbVars
<1>10. ASSUME Crash PROVE P
  BY <1>10 DEF Crash, Past, Uploading, dbVars
<1> QED
  BY <1>1, <1>2, <1>3, <1>4, <1>5, <1>6, <1>7, <1>8, <1>9, <1>10 DEF Next, CreateStep

\* A file is changed by the handler that owns it, or removed: then its upload is
\* past and its row gone, or it is a .tmp file that no upload is writing.
Unowned(f) ==
  /\ file'[f] = "none"
  /\ pc'[f] = pc[f]
  /\ \/ pc[f] \in Past /\ f \notin rows
     \/ file[f] = "tmp" /\ pc[f] \notin Uploading

LEMMA FileChanges ==
  ASSUME Safe, [Next]_vars, NEW f \in Files, file'[f] # file[f]
  PROVE  OpenTmp(f) \/ Rename(f) \/ SaveFails(f) \/ Validate(f) \/ CreateFails(f) \/ Unowned(f)
<1> USE Typed, ConstantTypes DEF Safe
<1>1. ASSUME NEW i \in Items, Admit(i) \/ Insert(i) \/ InsertFails(i) \/ Backfill(i) \/ Expire(i)
      PROVE  FALSE
  BY <1>1 DEF Admit, Insert, InsertFails, Backfill, Expire, fsVars
<1>2. ASSUME NEW g \in Files, OpenTmp(g) \/ Rename(g) \/ WriteChunk(g) \/ SaveFails(g) \/ Validate(g)
                                \/ CreateFails(g)
      PROVE  f = g /\ ~WriteChunk(g)
  BY <1>2 DEF OpenTmp, Rename, WriteChunk, SaveFails, Validate, CreateFails, RemoveOrFail, Remove, fsVars
<1>3. ASSUME NEW i \in Items \ Files, CreateFails(i) PROVE FALSE
  BY <1>3 DEF CreateFails, fsVars
<1>4. ASSUME NEW d \in Requests, DeleteStep(d) PROVE Unowned(f)
  BY <1>4 DEF DeleteStep, DeleteRow, DeleteBlob, Remove, fsVars, DeletesPast, Unowned
<1>5. ASSUME NEW d \in Requests, NEW u \in Users, NEW i \in Items, FindForDelete(d, u, i) PROVE FALSE
  BY <1>5 DEF FindForDelete, fsVars
<1>6. ASSUME NEW u \in Users, DeleteUser(u) \/ \E q \in Quotas : SetQuota(u, q) PROVE FALSE
  BY <1>6 DEF DeleteUser, SetQuota, fsVars
<1>7. ASSUME CleanupStep PROVE Unowned(f)
  <2>1. \E g \in Files : PurgeKey(g)
    BY <1>7 DEF CleanupStep, GetExpired, BatchDeleteExpired, BatchDeleteOldest,
       BatchDelete, ListUsers, CheckUsage, GetOldest, UserDone, CleanupDone, fsVars
  <2> QED
    BY <2>1 DEF PurgeKey, RemoveOrFail, Remove, SchedTo, fsVars, CleanupPast, Unowned
<1>8. ASSUME ReclaimStep PROVE Unowned(f)
  <2>1. CASE \E g \in Files : DeleteOrphan(g)
    BY <2>1 DEF DeleteOrphan, RemoveOrFail, Remove, ReclTo, fsVars, ReclaimPast, Unowned
  <2>2. CASE CleanStaleTmpFiles
    <3>1. /\ file[f] = "tmp" /\ age[f] >= StaleTmp
          /\ file'[f] = "none" /\ pc'[f] = pc[f]
      BY <2>2 DEF CleanStaleTmpFiles, Remove, ReclTo
    <3> QED
      BY <3>1 DEF WritesAreYoung, Unowned
  <2> QED
    BY <1>8, <2>1, <2>2 DEF ReclaimStep, Snapshot, ListFiles, CheckKey, fsVars
<1>9. ASSUME Tick \/ Crash \/ UNCHANGED vars PROVE FALSE
  BY <1>9 DEF Tick, Crash, vars, fsVars
<1> QED
  BY <1>1, <1>2, <1>3, <1>4, <1>5, <1>6, <1>7, <1>8, <1>9 DEF Next, CreateStep

\* Who changes what: the place of a handler, the rows, the age of a file.
LEMMA PcChanges ==
  ASSUME TypeOK, [Next]_vars, NEW i \in Items, pc'[i] # pc[i]
  PROVE  Admit(i) \/ CreateStep(i) \/ Crash
<1> USE Typed, ConstantTypes
<1>1. ASSUME NEW j \in Items, Admit(j) \/ CreateStep(j) PROVE i = j
  BY <1>1 DEF Admit, CreateStep, OpenTmp, Rename, SaveFails, Validate, Insert, InsertFails, Backfill,
       CreateFails, SetPc
<1>2. (\E j \in Items : Expire(j)) \/ (\E f \in Files : WriteChunk(f)) => FALSE
  BY DEF Expire, WriteChunk
<1>3. ASSUME NEW d \in Requests, DeleteStep(d) \/ \E u \in Users, j \in Items : FindForDelete(d, u, j)
      PROVE  FALSE
  BY <1>3 DEF DeleteStep, DeleteRow, DeleteBlob, FindForDelete
<1>4. ASSUME NEW u \in Users, DeleteUser(u) \/ \E q \in Quotas : SetQuota(u, q) PROVE FALSE
  BY <1>4 DEF DeleteUser, SetQuota
<1>5. ASSUME CleanupStep PROVE FALSE
  BY <1>5 DEF CleanupStep, GetExpired, BatchDeleteExpired, BatchDeleteOldest, BatchDelete,
       ListUsers, CheckUsage, GetOldest, UserDone, CleanupDone, PurgeKey, SchedTo
<1>6. ASSUME ReclaimStep PROVE FALSE
  BY <1>6 DEF ReclaimStep, Snapshot, ListFiles, CheckKey, DeleteOrphan, CleanStaleTmpFiles, ReclTo
<1>7. ASSUME Tick \/ UNCHANGED vars PROVE FALSE
  BY <1>7 DEF Tick, vars
<1> QED
  BY <1>1, <1>2, <1>3, <1>4, <1>5, <1>6, <1>7 DEF Next

LEMMA RowChanges ==
  ASSUME TypeOK, [Next]_vars
  PROVE  /\ \A i \in rows' \ rows : i \in Items /\ Insert(i)
         /\ \A i \in Items : created'[i] # created[i] => Insert(i)
         /\ second' # second => \E i \in Items : Insert(i)
<1> DEFINE P == /\ rows' \subseteq rows
                /\ created' = created /\ second' = second
<1>1. ASSUME NEW i \in Items, Admit(i) \/ Expire(i) \/ (CreateStep(i) /\ ~Insert(i)) PROVE P
  BY <1>1 DEF Admit, Expire, CreateStep, OpenTmp, Rename, SaveFails, Validate, InsertFails, Backfill,
       CreateFails, dbVars
<1>2. ASSUME NEW i \in Items, Insert(i)
      PROVE  /\ rows' = rows \cup {i}
             /\ \A j \in Items : created'[j] # created[j] => j = i
  BY <1>2, Typed DEF Insert
<1>3. ASSUME NEW f \in Files, WriteChunk(f) PROVE P
  BY <1>3 DEF WriteChunk, dbVars
<1>4. ASSUME NEW d \in Requests, DeleteStep(d) \/ \E u \in Users, j \in Items : FindForDelete(d, u, j)
      PROVE  P
  BY <1>4 DEF DeleteStep, DeleteRow, DeleteRows, DeleteRowsFails, DeleteBlob, FindForDelete, dbVars
<1>5. ASSUME NEW u \in Users, DeleteUser(u) \/ \E q \in Quotas : SetQuota(u, q) PROVE P
  BY <1>5 DEF DeleteUser, DeleteRows, SetQuota
<1>6. ASSUME CleanupStep PROVE P
  BY <1>6 DEF CleanupStep, GetExpired, BatchDeleteExpired, BatchDeleteOldest, BatchDelete, DeleteRows, DeleteRowsFails,
       ListUsers, CheckUsage, GetOldest, UserDone, CleanupDone, PurgeKey, SchedTo
<1>7. ASSUME ReclaimStep PROVE P
  BY <1>7 DEF ReclaimStep, Snapshot, ListFiles, CheckKey, DeleteOrphan, CleanStaleTmpFiles, ReclTo, dbVars
<1>8. ASSUME Tick \/ Crash \/ UNCHANGED vars PROVE P
  BY <1>8 DEF Tick, Crash, vars, dbVars
<1> QED
  BY <1>1, <1>2, <1>3, <1>4, <1>5, <1>6, <1>7, <1>8 DEF Next

\* Only time makes a file older.
LEMMA AgeChanges ==
  ASSUME TypeOK, [Next]_vars, NEW f \in Files
  PROVE  age'[f] = age[f] \/ age'[f] = 0 \/ (Tick /\ age'[f] <= age[f] + 1)
<1> DEFINE P == age'[f] = age[f] \/ age'[f] = 0
<1> USE Typed, ConstantTypes
<1>1. ASSUME NEW i \in Items, Admit(i) \/ Expire(i) \/ CreateStep(i) PROVE P
  BY <1>1 DEF Admit, Expire, CreateStep, OpenTmp, Rename, SaveFails, Validate, Insert, InsertFails,
       Backfill, CreateFails, RemoveOrFail, Remove, fsVars
<1>2. ASSUME NEW g \in Files, WriteChunk(g) PROVE P
  BY <1>2 DEF WriteChunk
<1>3. ASSUME NEW d \in Requests, DeleteStep(d) \/ \E u \in Users, j \in Items : FindForDelete(d, u, j)
      PROVE  P
  BY <1>3 DEF DeleteStep, DeleteRow, DeleteBlob, Remove, FindForDelete, fsVars
<1>4. ASSUME NEW u \in Users, DeleteUser(u) \/ \E q \in Quotas : SetQuota(u, q) PROVE P
  BY <1>4 DEF DeleteUser, SetQuota, fsVars
<1>5. ASSUME CleanupStep PROVE P
  BY <1>5 DEF CleanupStep, GetExpired, BatchDeleteExpired, BatchDeleteOldest, BatchDelete, ListUsers,
       CheckUsage, GetOldest, UserDone, CleanupDone, PurgeKey, RemoveOrFail, Remove, fsVars
<1>6. ASSUME ReclaimStep PROVE P
  BY <1>6 DEF ReclaimStep, Snapshot, ListFiles, CheckKey, DeleteOrphan, CleanStaleTmpFiles,
       RemoveOrFail, Remove, fsVars
<1>7. ASSUME Tick PROVE age'[f] = age[f] \/ age'[f] = age[f] + 1
  BY <1>7 DEF Tick
<1>8. ASSUME Crash \/ UNCHANGED vars PROVE P
  BY <1>8 DEF Crash, vars, fsVars
<1> QED
  BY <1>1, <1>2, <1>3, <1>4, <1>5, <1>6, <1>7, <1>8 DEF Next

\* Who changes what a process holds.
LEMMA HolderChanges ==
  ASSUME TypeOK, [Next]_vars
  PROVE  /\ \A d \in Requests : del'[d] # del[d] =>
              DeleteStep(d) \/ Crash \/ \E u \in Users, i \in Items : FindForDelete(d, u, i)
         /\ sched' # sched => CleanupStep \/ Crash
         /\ recl' # recl => ReclaimStep \/ Tick \/ Crash
<1> USE DEF TypeOK
<1>1. ASSUME NEW i \in Items, Admit(i) \/ Expire(i) \/ CreateStep(i) PROVE UNCHANGED <<del, sched, recl>>
  BY <1>1 DEF Admit, Expire, CreateStep, OpenTmp, Rename, SaveFails, Validate, Insert, InsertFails,
       Backfill, CreateFails
<1>2. ASSUME NEW f \in Files, WriteChunk(f) PROVE UNCHANGED <<del, sched, recl>>
  BY <1>2 DEF WriteChunk
<1>3. ASSUME NEW d \in Requests, DeleteStep(d) \/ \E u \in Users, i \in Items : FindForDelete(d, u, i)
      PROVE  UNCHANGED <<sched, recl>> /\ \A e \in Requests : del'[e] # del[e] => e = d
  BY <1>3 DEF DeleteStep, DeleteRow, DeleteBlob, FindForDelete
<1>4. ASSUME NEW u \in Users, DeleteUser(u) \/ \E q \in Quotas : SetQuota(u, q)
      PROVE  UNCHANGED <<del, sched, recl>>
  BY <1>4 DEF DeleteUser, SetQuota
<1>5. ASSUME CleanupStep PROVE UNCHANGED <<del, recl>>
  BY <1>5 DEF CleanupStep, GetExpired, BatchDeleteExpired, BatchDeleteOldest, BatchDelete, ListUsers,
       CheckUsage, GetOldest, UserDone, CleanupDone, PurgeKey, SchedTo
<1>6. ASSUME ReclaimStep PROVE UNCHANGED <<del, sched>>
  BY <1>6 DEF ReclaimStep, Snapshot, ListFiles, CheckKey, DeleteOrphan, CleanStaleTmpFiles, ReclTo
<1>7. ASSUME Tick PROVE UNCHANGED <<del, sched>>
  BY <1>7 DEF Tick
<1> QED
  BY <1>1, <1>2, <1>3, <1>4, <1>5, <1>6, <1>7 DEF Next, vars

------------------------------------------------------------------------------
(* The invariant *)

LEMMA SafeInit == Init => Safe
<1> SUFFICES ASSUME Init PROVE Safe
  OBVIOUS
<1>1. UploadsIntact /\ RowsServable /\ NotStarted /\ RowsPast
  BY ConstantTypes DEF Init, UploadsIntact, RowsServable, NotStarted, RowsPast
<1>2. WritesAreYoung
  BY ConstantTypes DEF Init, WritesAreYoung, Uploading
<1>3. CreatedInOrder
  BY DEF Init, CreatedInOrder
<1>4. DeletesPast /\ CleanupPast /\ ReclaimPast
  BY DEF Init, DeletesPast, CleanupPast, ReclaimPast, DelIdle, SchedIdle, ReclIdle
<1> QED
  BY TypeInit, <1>1, <1>2, <1>3, <1>4 DEF Safe

LEMMA SafeStep ==
  ASSUME Safe, [Next]_vars, TypeOK'
  PROVE  Safe'
<1>0. TypeOK /\ CreatedInOrder
  BY DEF Safe
<1> USE <1>0, Typed, ConstantTypes
<1>1. UploadsIntact'
  <2> SUFFICES ASSUME NEW f \in Files
               PROVE  /\ pc'[f] = "saving" => file'[f] = "tmp"
                      /\ pc'[f] \in {"saved", "validated"} => file'[f] = "blob"
    BY DEF UploadsIntact
  <2>1. CASE file'[f] = file[f]
    <3>1. CASE pc'[f] = pc[f]
      BY <2>1, <3>1 DEF Safe, UploadsIntact
    <3>2. CASE pc'[f] # pc[f]
      BY <2>1, <3>2, PcChanges DEF Safe, UploadsIntact, Admit, CreateStep, OpenTmp, Rename, SaveFails,
         Validate, Insert, InsertFails, Backfill, CreateFails, Crash, SetPc, Uploading
    <3> QED
      BY <3>1, <3>2
  <2>2. CASE file'[f] # file[f]
    <3>1. CASE OpenTmp(f) \/ Rename(f)
      BY <3>1 DEF OpenTmp, Rename, SetPc
    <3>2. CASE SaveFails(f) \/ CreateFails(f)
      BY <3>2 DEF SaveFails, CreateFails, SetPc
    <3>3. CASE Validate(f)
      BY <2>2, <3>3 DEF Validate, SetPc, fsVars
    <3>4. CASE Unowned(f)
      BY <3>4 DEF Unowned, Safe, UploadsIntact, Past, Uploading
    <3> QED
      BY <2>2, <3>1, <3>2, <3>3, <3>4, FileChanges
  <2> QED
    BY <2>1, <2>2
<1>2. RowsServable'
  <2> SUFFICES ASSUME NEW f \in rows' \cap Files
               PROVE  file'[f] = "blob" \/ pc'[f] = "failed"
    BY DEF RowsServable
  <2>1. CASE f \notin rows
    <3>1. Insert(f)
      BY <2>1, RowChanges
    <3> QED
      BY <3>1 DEF Safe, UploadsIntact, Insert, ReadyToInsert, fsVars
  <2>2. CASE f \in rows /\ file'[f] = file[f]
    <3>1. pc[f] = "failed" => pc'[f] = "failed"
      BY PcChanges DEF Admit, CreateStep, OpenTmp, Rename, SaveFails,
         Validate, Insert, ReadyToInsert, InsertFails, Backfill, CreateFails, Crash, SetPc, Uploading
    <3> QED
      BY <2>2, <3>1 DEF Safe, RowsServable
  <2>3. CASE f \in rows /\ file'[f] # file[f]
    <3>1. pc[f] \in Past
      BY <2>3 DEF Safe, RowsPast
    <3>2. CreateFails(f) \/ Unowned(f)
      BY <2>3, <3>1, FileChanges DEF OpenTmp, Rename, SaveFails, Validate, Past
    <3>3. CASE CreateFails(f)
      BY <2>3, <3>3 DEF CreateFails, SetPc
    <3>4. CASE Unowned(f)
      BY <2>3, <3>4 DEF Unowned, Safe, RowsServable
    <3> QED
      BY <3>2, <3>3, <3>4
  <2> QED
    BY <2>1, <2>2, <2>3
<1>3. WritesAreYoung'
  <2> SUFFICES ASSUME NEW f \in Files, pc'[f] \in Uploading PROVE age'[f] <= SaveLag
    BY DEF WritesAreYoung
  <2>1. pc[f] \in Uploading \/ OpenTmp(f)
    BY PcChanges DEF Admit, CreateStep, OpenTmp, Rename, SaveFails,
       Validate, Insert, ReadyToInsert, InsertFails, Backfill, CreateFails, Crash, SetPc, Uploading
  <2>2. CASE OpenTmp(f)
    BY <2>2 DEF OpenTmp, SetPc, Uploading
  <2>3. CASE pc[f] \in Uploading
    BY <2>3, AgeChanges DEF Tick, Safe, WritesAreYoung
  <2> QED
    BY <2>1, <2>2, <2>3
<1>4. NotStarted'
  <2> SUFFICES ASSUME NEW f \in Files, pc'[f] \in {"idle", "admitted"} PROVE file'[f] = "none"
    BY DEF NotStarted
  <2>1. pc[f] \in {"idle", "admitted"}
    BY PcChanges DEF Admit, CreateStep, OpenTmp, Rename, SaveFails,
       Validate, Insert, ReadyToInsert, InsertFails, Backfill, CreateFails, Crash, SetPc, Uploading
  <2> QED
    BY <2>1, FileChanges DEF Safe, NotStarted, OpenTmp, SetPc, Rename, SaveFails, Validate, CreateFails, Unowned
<1>5. RowsPast'
  BY PastIsPast, RowChanges DEF Safe, RowsPast, Insert, SetPc, Past
<1>6. CreatedInOrder'
  <2> SUFFICES ASSUME NEW i \in Items
               PROVE  /\ created'[i] <= second'
                      /\ pc'[i] \in {"idle", "admitted"} \cup Uploading => created'[i] = 0
    BY DEF CreatedInOrder
  <2>1. created'[i] <= second'
    BY RowChanges DEF CreatedInOrder, Insert
  <2>2. ASSUME pc'[i] \in {"idle", "admitted"} \cup Uploading PROVE created'[i] = 0
    <3>1. pc[i] \in {"idle", "admitted"} \cup Uploading
      BY <2>2, PastIsPast DEF Past, Uploading, PC
    <3>2. ~Insert(i)
      BY <2>2 DEF Insert, SetPc, Uploading
    <3> QED
      BY <3>1, <3>2, RowChanges DEF CreatedInOrder
  <2> QED
    BY <2>1, <2>2
<1>7. DeletesPast'
  <2> SUFFICES ASSUME NEW d \in Requests, NEW i \in del'[d].ids
               PROVE  /\ pc'[i] \in Past
                      /\ Owner[i] = del'[d].by
                      /\ del'[d].pc = "gone" => i \notin rows'
    BY DEF DeletesPast
  <2>0. i \in Items /\ del \in [Requests -> DelType]
    BY DEF TypeOK, DelType
  <2>1. CASE del'[d] = del[d]
    BY <2>0, <2>1, PastIsPast DEF Safe, DeletesPast
  <2>2. CASE \E u \in Users, j \in Items : FindForDelete(d, u, j)
    <3>1. PICK u \in Users, j \in Items : FindForDelete(d, u, j)
      BY <2>2
    <3>2. del'[d] = [pc |-> "found", by |-> u, ids |-> {j}]
      BY <2>0, <3>1 DEF FindForDelete
    <3> QED
      BY <3>1, <3>2 DEF FindForDelete, Safe, RowsPast
  <2>3. CASE DeleteRow(d)
    <3>1. CASE del'[d] = DelIdle
      BY <3>1 DEF DelIdle
    <3>2. CASE del'[d] # DelIdle
      <4>1. del'[d] = [del[d] EXCEPT !.pc = "gone"] /\ rows' = rows \ del[d].ids /\ pc' = pc
        BY <2>0, <2>3, <3>2 DEF DeleteRow, DeleteRows, DeleteRowsFails
      <4>2. del[d] \in DelType
        BY <2>0
      <4>3. del'[d].by = del[d].by /\ del'[d].ids = del[d].ids
        BY <4>1, <4>2 DEF DelType
      <4> QED
        BY <4>1, <4>3 DEF Safe, DeletesPast
    <3> QED
      BY <3>1, <3>2
  <2>4. CASE DeleteBlob(d) \/ Crash
    BY <2>0, <2>4 DEF DeleteBlob, Crash, DelIdle
  <2> QED
    BY <2>1, <2>2, <2>3, <2>4, HolderChanges DEF DeleteStep
<1>8. CleanupPast'
  <2>0. sched \in SchedType
    BY DEF TypeOK
  <2>1. CASE sched' = sched
    <3>1. ASSUME NEW i \in sched.ids
          PROVE  /\ pc'[i] \in Past
                 /\ sched.pc = "expired" => (i \in rows' => i \in expired')
                 /\ sched.pc = "oldest" =>
                      /\ Owner[i] = sched.user
                      /\ dialect' = "sqlite" =>
                           \A j \in rows' \ sched.ids :
                             Owner[j] = sched.user => created'[i] <= created'[j]
      <4>1. i \in Items /\ pc[i] \in Past
        BY <2>0, <3>1 DEF SchedType, Safe, CleanupPast
      <4>2. pc'[i] \in Past /\ created'[i] = created[i]
        BY <4>1, PastIsPast
      <4>3. sched.pc = "expired" => (i \in rows' => i \in expired')
        BY <3>1, <4>1, PastIsPast DEF Safe, CleanupPast
      <4>4. ASSUME dialect' = "sqlite", sched.pc = "oldest", NEW j \in rows' \ sched.ids,
                   Owner[j] = sched.user
            PROVE  created'[i] <= created'[j]
        <5>0. dialect = "sqlite"
          BY <4>4, DialectKept
        <5>1. CASE j \in rows
          <6>1. created'[j] = created[j]
            BY <5>1, PastIsPast DEF Safe, RowsPast
          <6> QED
            BY <3>1, <4>2, <4>4, <5>0, <5>1, <6>1 DEF Safe, CleanupPast
        <5>2. CASE j \notin rows
          BY <4>1, <4>2, <4>4, <5>0, <5>2, PastIsPast DEF Safe
        <5> QED
          BY <5>1, <5>2
      <4> QED
        BY <3>1, <4>2, <4>3, <4>4 DEF Safe, CleanupPast
    <3>2. ASSUME NEW f \in sched.keys PROVE pc'[f] \in Past /\ f \notin rows'
      <4>1. f \in Items /\ pc[f] \in Past /\ f \notin rows
        BY <2>0, <3>2 DEF SchedType, Safe, CleanupPast
      <4> QED
        BY <4>1, PastIsPast
    <3> QED
      BY <2>1, <3>1, <3>2 DEF Safe, CleanupPast
  <2>2. CASE Crash
    BY <2>2 DEF Crash, SchedIdle, CleanupPast
  <2>3. CASE CleanupStep
    <3> USE <2>0 DEF SchedTo
    <3>0. UNCHANGED <<created, pc>>
      BY <2>3 DEF CleanupStep, GetExpired, BatchDeleteExpired, BatchDeleteOldest, BatchDelete, ListUsers,
         CheckUsage, GetOldest, UserDone, CleanupDone, PurgeKey
    <3>1. CASE GetExpired
      <4>1. UNCHANGED <<rows, expired>>
        BY <3>1 DEF GetExpired
      <4>2. /\ sched'.pc \in {"purge", "expired"}
            /\ sched'.keys = sched.keys
            /\ sched'.ids \subseteq rows \cap expired \/ (sched'.ids = sched.ids /\ sched'.pc = "purge")
        BY <3>1 DEF GetExpired, SchedType
      <4> QED
        BY <3>0, <4>1, <4>2 DEF Safe, CleanupPast, RowsPast
    <3>2. CASE BatchDeleteExpired \/ BatchDeleteOldest
      <4>1. PICK onto \in {"purge", "sweep"} :
              \/ sched' = [QuotaStage(onto) EXCEPT !.keys = sched.ids \cap Files] /\ rows' = rows \ sched.ids
              \/ sched' = QuotaStage(onto)
        BY <3>2 DEF BatchDeleteExpired, BatchDeleteOldest, BatchDelete, DeleteRows, DeleteRowsFails
      <4>2. /\ sched'.ids = {} /\ sched'.pc = onto
            /\ sched'.keys = {} \/ (sched'.keys = sched.ids \cap Files /\ rows' = rows \ sched.ids)
        BY <4>1 DEF QuotaStage, SchedIdle
      <4> QED
        BY <3>0, <4>2 DEF Safe, CleanupPast
    <3>3. CASE ListUsers \/ \E f \in Files : PurgeKey(f)
      <4>1. /\ UNCHANGED <<rows, expired>>
            /\ sched'.ids \subseteq sched.ids /\ sched'.keys \subseteq sched.keys
            /\ sched'.pc \in {"users", "idle", "purge", "sweep"}
        <5>1. CASE sched' = SchedIdle
          BY <3>3, <5>1 DEF ListUsers, PurgeKey, SchedIdle
        <5>2. CASE ListUsers /\ sched' # SchedIdle
          BY <5>2 DEF ListUsers, SchedType
        <5>3. CASE \E f \in Files : PurgeKey(f)
          BY <5>3 DEF PurgeKey, SchedType
        <5> QED
          BY <3>3, <5>1, <5>2, <5>3
      <4> QED
        BY <3>0, <4>1 DEF Safe, CleanupPast
    <3>4. CASE \E u \in Users : CheckUsage(u)
      <4>0. PICK u \in Users : CheckUsage(u)
        BY <3>4
      <4> DEFINE excess == GetUserStorageUsage(u) - sched.limit[u]
      <4>1. \/ sched' = [sched EXCEPT !.todo = @ \ {u}] /\ sched.pc = "users"
            \/ /\ sched' = [sched EXCEPT !.pc = "excess", !.todo = @ \ {u}, !.user = u, !.excess = excess]
               /\ excess \in Nat \ {0}
        BY <4>0 DEF CheckUsage
      <4> HIDE DEF excess
      <4>2. /\ UNCHANGED <<rows, expired>>
            /\ sched'.ids = sched.ids /\ sched'.keys = sched.keys
            /\ sched'.pc = "users" \/ (sched'.pc = "excess" /\ sched'.excess > 0)
        <5>1. CASE sched' = [sched EXCEPT !.todo = @ \ {u}] /\ sched.pc = "users"
          BY <4>0, <5>1 DEF SchedType, CheckUsage
        <5>2. CASE /\ sched' = [sched EXCEPT !.pc = "excess", !.todo = @ \ {u}, !.user = u, !.excess = excess]
                   /\ excess \in Nat \ {0}
          BY <4>0, <5>2 DEF SchedType, CheckUsage
        <5> QED
          BY <4>1, <5>1, <5>2
      <4> QED
        BY <3>0, <4>2 DEF Safe, CleanupPast
    <3>5. CASE GetOldest
      <4>1. UNCHANGED <<rows, expired>> /\ sched.pc = "excess"
        BY <3>5 DEF GetOldest
      <4>2. CASE sched' = QuotaStage("users")
        BY <4>2 DEF QuotaStage, SchedIdle, CleanupPast
      <4>3. CASE sched' # QuotaStage("users")
        <5>1. PICK S \in SUBSET rows : /\ IsOldestCover(S, sched.user, sched.excess)
                                       /\ sched' = [sched EXCEPT !.pc = "oldest", !.ids = S]
          BY <3>5, <4>3 DEF GetOldest
        <5>2. sched'.pc = "oldest" /\ sched'.ids = S /\ sched'.keys = sched.keys
              /\ sched'.user = sched.user /\ sched'.excess = sched.excess
          BY <5>1 DEF SchedType
        <5>3. \A i \in S : /\ Owner[i] = sched.user
                           /\ \A j \in rows \ S : Owner[j] = sched.user => created[i] <= created[j]
          BY <5>1 DEF IsOldestCover, RowsOf
        <5> QED
          BY <3>0, <4>1, <5>2, <5>3 DEF Safe, CleanupPast, RowsPast
      <4> QED
        BY <4>2, <4>3
    <3>6. CASE UserDone \/ CleanupDone
      <4>1. sched'.ids = {} /\ sched'.keys = {} /\ sched'.pc \in {"users", "idle"}
        <5>1. CASE UserDone
          BY <5>1 DEF UserDone, QuotaStage, SchedIdle
        <5>2. CASE CleanupDone
          BY <5>2 DEF CleanupDone, SchedIdle
        <5> QED
          BY <3>6, <5>1, <5>2
      <4> QED
        BY <4>1 DEF CleanupPast
    <3> QED
      BY <2>3, <3>1, <3>2, <3>3, <3>4, <3>5, <3>6 DEF CleanupStep
  <2> QED
    BY <2>1, <2>2, <2>3, HolderChanges
<1>9. ReclaimPast'
  <2>0. recl \in ReclType
    BY DEF TypeOK
  <2>1. CASE recl' = recl /\ ~Tick
    <3>1. ASSUME recl.pc # "idle", NEW f \in (rows' \cap Files) \ recl.db
          PROVE  age'[f] <= SaveLag + recl.age
      <4>1. CASE f \in rows
        BY <2>0, <2>1, <3>1, <4>1, AgeChanges DEF ReclType, Safe, ReclaimPast
      <4>2. CASE f \notin rows
        <5>1. Insert(f)
          BY <4>2, <3>1, RowChanges
        <5>2. age'[f] <= SaveLag
          BY <5>1, <1>0 DEF Insert, ReadyToInsert, fsVars, Safe, WritesAreYoung, Uploading
        <5> QED
          BY <2>0, <5>2, <2>1, AgeChanges DEF ReclType
      <4> QED
        BY <4>1, <4>2
    <3> QED
      BY <2>0, <2>1, <3>1, PastIsPast DEF ReclType, Safe, ReclaimPast
  <2>2. CASE Crash
    BY <2>2 DEF Crash, ReclIdle, ReclaimPast
  <2>3. CASE Tick
    <3>1. UNCHANGED <<rows, pc>>
      BY <2>3 DEF Tick, dbVars
    <3>2. /\ recl'.pc = recl.pc /\ recl'.db = recl.db /\ recl'.victim = recl.victim
          /\ recl.pc # "idle" => recl'.age = recl.age + 1
      BY <2>0, <2>3 DEF Tick, ReclType
    <3>3. ASSUME recl.pc # "idle", NEW f \in (rows \cap Files) \ recl.db
          PROVE  age'[f] <= SaveLag + recl'.age
      <4>1. age[f] <= SaveLag + recl.age
        BY <3>3 DEF Safe, ReclaimPast
      <4>2. age'[f] <= age[f] + 1
        BY <2>3 DEF Tick
      <4> QED
        BY <2>0, <3>2, <3>3, <4>1, <4>2, TypeStep DEF ReclType, TypeOK
    <3> QED
      BY <3>1, <3>2, <3>3 DEF Safe, ReclaimPast
  <2>4. CASE ReclaimStep
    <3> USE <2>0 DEF ReclTo
    <3>0. UNCHANGED <<rows, pc>>
      BY <2>4 DEF ReclaimStep, Snapshot, ListFiles, CheckKey, DeleteOrphan, CleanStaleTmpFiles, dbVars
    <3>1. CASE Snapshot
      <4>1. recl'.db = rows \cap Files /\ recl'.victim = recl.victim
        BY <3>1 DEF Snapshot, ReclType
      <4> QED
        BY <3>0, <4>1 DEF Safe, ReclaimPast
    <3>2. CASE recl' = ReclIdle
      BY <3>2 DEF ReclIdle, ReclaimPast
    <3>3. CASE ListFiles /\ recl' # ReclIdle
      <4>1. /\ recl.pc # "idle" /\ recl'.db = recl.db /\ recl'.victim = recl.victim
            /\ recl'.age = recl.age /\ age' = age
        BY <3>3 DEF ListFiles, ReclType, fsVars
      <4> QED
        BY <3>0, <4>1 DEF Safe, ReclaimPast
    <3>4. CASE \E f \in Files : CheckKey(f)
      <4>0. PICK f \in Files : CheckKey(f)
        BY <3>4
      <4>1. /\ recl.pc # "idle" /\ recl'.db = recl.db /\ recl'.age = recl.age /\ age' = age
            /\ recl'.victim = {} \/ (/\ recl'.victim = {f} /\ f \notin recl.db
                                    /\ file[f] = "blob" /\ age[f] >= Grace)
        <5>1. CASE recl' = [recl EXCEPT !.todo = @ \ {f}]
          BY <4>0, <5>1 DEF CheckKey, ReclType, fsVars
        <5>2. CASE recl' # [recl EXCEPT !.todo = @ \ {f}]
          <6> DEFINE V == {k \in {f} : /\ k \notin recl.db /\ file[k] = "blob" /\ age[k] >= Grace}
          <6>1. recl' = [recl EXCEPT !.todo = @ \ {f}, !.victim = V] /\ age' = age
            BY <4>0, <5>2 DEF CheckKey, fsVars
          <6>2. V = {} \/ (V = {f} /\ f \notin recl.db /\ file[f] = "blob" /\ age[f] >= Grace)
            OBVIOUS
          <6> HIDE DEF V
          <6> QED
            BY <4>0, <6>1, <6>2 DEF CheckKey, ReclType
        <5> QED
          BY <5>1, <5>2
      <4>2. ASSUME recl'.victim = {f} /\ f \notin recl.db /\ file[f] = "blob" /\ age[f] >= Grace
            PROVE  f \notin rows /\ pc[f] \in Past
        <5>1. f \notin rows
          BY <4>1, <4>2 DEF Safe, ReclaimPast, ReclType
        <5>2. pc[f] \in Past
          BY <4>2 DEF Safe, WritesAreYoung, NotStarted, PC
        <5> QED
          BY <5>1, <5>2
      <4> QED
        BY <3>0, <4>1, <4>2 DEF Safe, ReclaimPast
    <3>5. CASE \E f \in Files : DeleteOrphan(f)
      <4>1. recl'.db = recl.db /\ recl'.victim = {} /\ recl'.age = recl.age /\ recl'.pc = recl.pc
        BY <3>5 DEF DeleteOrphan, ReclType
      <4>2. \A f \in Files : age'[f] = age[f] \/ age'[f] = 0
        BY <3>5 DEF DeleteOrphan, RemoveOrFail, Remove, fsVars
      <4> QED
        BY <2>0, <3>0, <4>1, <4>2 DEF Safe, ReclaimPast, ReclType
    <3> QED
      BY <2>4, <3>1, <3>2, <3>3, <3>4, <3>5 DEF ReclaimStep, CleanStaleTmpFiles
  <2> QED
    BY <2>1, <2>2, <2>3, <2>4, HolderChanges
<1> QED
  BY <1>1, <1>2, <1>3, <1>4, <1>5, <1>6, <1>7, <1>8, <1>9 DEF Safe

\* Every reachable state satisfies the invariant.
THEOREM Safety == Spec => []Safe
<1>1. Safe /\ [Next]_vars /\ TypeOK' => Safe'
  BY SafeStep
<1> QED
  BY SafeInit, TypeCorrect, <1>1, PTL DEF Spec

\* Nobody takes the file of an upload that has not inserted its row: the grace
\* period of doOrphanReclaim is long enough, and no other delete can reach it.
THEOREM FilesOfUploadsKept == Spec => []UploadsIntact
<1>1. Safe => UploadsIntact
  BY DEF Safe
<1> QED
  BY Safety, <1>1, PTL

\* Every row has its file, but for the error path of createFile.
THEOREM RowsHaveFiles == Spec => []RowsServable
<1>1. Safe => RowsServable
  BY DEF Safe
<1> QED
  BY Safety, <1>1, PTL

------------------------------------------------------------------------------
(* Quota eviction *)

\* On SQLite the rows the quota stage deletes are the oldest of their user when
\* they go, whatever was inserted since they were read.
THEOREM EvictionInOrder == Spec => EvictsOldestFirst
<1>1. ASSUME Safe, [Next]_vars, dialect = "sqlite", sched.pc = "oldest", sched' # sched,
             NEW i \in rows \ rows', NEW j \in rows', Owner[i] = Owner[j]
      PROVE  created[i] <= created[j]
  <2>0. sched \in SchedType /\ TypeOK /\ i \in Items
    BY <1>1, Typed DEF Safe, TypeOK
  <2>1. CASE Crash
    BY <1>1, <2>1 DEF Crash, dbVars
  <2>2. CASE CleanupStep
    <3>1. BatchDeleteOldest
      BY <1>1, <2>2 DEF CleanupStep, GetExpired, BatchDeleteExpired, BatchDelete, ListUsers, CheckUsage,
         GetOldest, UserDone, CleanupDone, PurgeKey
    <3>2. rows' \subseteq rows /\ i \in sched.ids /\ j \notin sched.ids
      BY <1>1, <3>1 DEF BatchDeleteOldest, BatchDelete, DeleteRows, DeleteRowsFails
    <3> QED
      BY <1>1, <3>2 DEF Safe, CleanupPast
  <2> QED
    BY <1>1, <2>0, <2>1, <2>2, HolderChanges
<1>2. Safe /\ [Next]_vars =>
        [ dialect = "sqlite" /\ sched.pc = "oldest" /\ sched' # sched =>
            \A i \in rows \ rows', j \in rows' :
              Owner[i] = Owner[j] => created[i] <= created[j] ]_vars
  BY <1>1
<1> QED
  BY Safety, <1>2, PTL DEF Spec, EvictsOldestFirst

------------------------------------------------------------------------------
(* ClipStore implements ClipPromise *)

\* A row goes for a reason.
LEMMA RowsGone ==
  ASSUME Safe, [Next]_vars, NEW i \in rows \ rows'
  PROVE  i \in Due \/ i \in Due'
<1>0. TypeOK /\ i \in Items
  BY Typed DEF Safe
<1> USE <1>0
<1>1. ASSUME NEW j \in Items, Admit(j) \/ Expire(j) \/ CreateStep(j) PROVE rows \subseteq rows'
  BY <1>1 DEF Admit, Expire, CreateStep, OpenTmp, Rename, SaveFails, Validate, Insert, InsertFails,
       Backfill, CreateFails, dbVars
<1>2. ASSUME NEW f \in Files, WriteChunk(f) PROVE rows \subseteq rows'
  BY <1>2 DEF WriteChunk, dbVars
<1>3. ASSUME NEW d \in Requests, DeleteStep(d) PROVE i \in Due
  <2>1. i \in del[d].ids
    BY <1>3 DEF DeleteStep, DeleteRow, DeleteRows, DeleteRowsFails, DeleteBlob, dbVars
  <2> QED
    BY <2>1 DEF Due, Safe, DeletesPast
<1>4. ASSUME NEW d \in Requests, NEW u \in Users, NEW j \in Items, FindForDelete(d, u, j)
      PROVE  rows \subseteq rows'
  BY <1>4 DEF FindForDelete, dbVars
<1>5. ASSUME NEW u \in Users, DeleteUser(u) PROVE i \in Due'
  BY <1>5 DEF DeleteUser, DeleteRows, RowsOf, Due
<1>6. ASSUME NEW u \in Users, NEW q \in Quotas, SetQuota(u, q) PROVE rows \subseteq rows'
  BY <1>6 DEF SetQuota
<1>7. ASSUME CleanupStep PROVE i \in Due
  <2>1. /\ BatchDeleteExpired \/ BatchDeleteOldest
        /\ i \in sched.ids
    BY <1>7 DEF CleanupStep, GetExpired, BatchDeleteExpired, BatchDeleteOldest, BatchDelete, DeleteRows, DeleteRowsFails,
       ListUsers, CheckUsage, GetOldest, UserDone, CleanupDone, PurgeKey
  <2>2. sched.pc \in {"expired", "oldest"}
    BY <2>1 DEF BatchDeleteExpired, BatchDeleteOldest, BatchDelete
  <2> QED
    BY <2>1, <2>2 DEF Due, Safe, CleanupPast
<1>8. ASSUME ReclaimStep PROVE rows \subseteq rows'
  BY <1>8 DEF ReclaimStep, Snapshot, ListFiles, CheckKey, DeleteOrphan, CleanStaleTmpFiles, ReclTo, dbVars
<1>9. ASSUME Tick \/ Crash \/ UNCHANGED vars PROVE rows \subseteq rows'
  BY <1>9 DEF Tick, Crash, vars, dbVars
<1> QED
  BY <1>1, <1>2, <1>3, <1>4, <1>5, <1>6, <1>7, <1>8, <1>9 DEF Next

\* What stops being downloadable was due; what becomes downloadable was inserted.
LEMMA LiveChanges ==
  ASSUME Safe, [Next]_vars
  PROVE  /\ Live \ Live' \subseteq Due \cup Due'
         /\ \A i \in Live' \ Live : i \in Items /\ Insert(i)
<1>0. TypeOK
  BY DEF Safe
<1> USE <1>0, Typed
<1>1. ASSUME NEW i \in Live \ Live' PROVE i \in Due \/ i \in Due'
  <2>1. CASE i \notin rows'
    BY <1>1, <2>1, RowsGone DEF Live
  <2>2. CASE i \in rows'
    <3>1. /\ i \in Files /\ i \in rows /\ file[i] = "blob" /\ file'[i] # "blob"
          /\ pc[i] \in Past /\ created[i] > 0
      BY <1>1, <2>2 DEF Live, Safe, RowsPast
    <3>2. CreateFails(i)
      BY <3>1, FileChanges DEF OpenTmp, Rename, SaveFails, Validate, Past, Unowned
    <3>3. created'[i] = created[i] /\ pc'[i] = "failed"
      BY <3>1, <3>2, PastIsPast, ConstantTypes DEF CreateFails, SetPc, Safe
    <3> QED
      BY <3>1, <3>3, ConstantTypes DEF Due
  <2> QED
    BY <2>1, <2>2
<1>2. ASSUME NEW i \in Live' \ Live PROVE i \in Items /\ Insert(i)
  <2>1. CASE i \notin rows
    BY <1>2, <2>1, RowChanges DEF Live
  <2>2. CASE i \in rows
    <3>1. i \in Files /\ file[i] # "blob" /\ file'[i] = "blob" /\ pc[i] \in Past
      BY <1>2, <2>2 DEF Live, Safe, RowsPast
    <3>2. CreateFails(i)
      BY <3>1, FileChanges DEF OpenTmp, Rename, SaveFails, Validate, Past, Unowned
    <3> QED
      BY <3>1, <3>2, ConstantTypes DEF CreateFails, RemoveOrFail, Remove, fsVars
  <2> QED
    BY <2>1, <2>2
<1> QED
  BY <1>1, <1>2

\* A step of ClipStore publishes one clip, withdraws clips that are due, or
\* changes nothing a client can see.
LEMMA PromiseStep ==
  ASSUME Safe, [Next]_vars
  PROVE  Promise!Next
<1>0. TypeOK /\ CreatedInOrder /\ Due' \subseteq Items
  BY DEF Safe, Due
<1>1. CASE \E i \in Items : Insert(i)
  <2>0. PICK i \in Items : Insert(i)
    BY <1>1
  <2>1. /\ i \notin Published
        /\ Published' = Published \cup {i}
    <3>1. created[i] = 0
      BY <2>0, <1>0 DEF Insert, ReadyToInsert, CreatedInOrder, Uploading
    <3>2. created'[i] > 0 /\ \A j \in Items : j # i => created'[j] = created[j]
      BY <2>0, <1>0, Typed DEF Insert
    <3> QED
      BY <3>1, <3>2 DEF Published
  <2>2. Live' = Live \cup {i}
    BY <2>0, <1>0 DEF Insert, ReadyToInsert, fsVars, Live, Safe, UploadsIntact
  <2> QED
    BY <1>0, <2>1, <2>2 DEF Promise!Next, Promise!Publish, Published
<1>2. CASE ~ \E i \in Items : Insert(i)
  <2>1. Published' = Published
    BY <1>0, <1>2, RowChanges DEF Published
  <2>2. Live' \subseteq Live /\ Live \ Live' \subseteq Due \cup Due'
    BY <1>2, LiveChanges
  <2> QED
    BY <1>0, <2>1, <2>2 DEF Promise!Next, Promise!Withdraw
<1> QED
  BY <1>1, <1>2

\* The store implements the abstract promise, for every number of users and
\* uploads and every failure and crash.
THEOREM Implements == Spec => KeepsPromise
<1>1. Init => Promise!Init
  <2> SUFFICES ASSUME Init PROVE Published = {} /\ Live = {} /\ Due = {}
    BY DEF Promise!Init
  <2> QED
    BY ConstantTypes DEF Init, Published, Live, Due, DelIdle, SchedIdle
<1>2. Safe /\ [Next]_vars => [Promise!Next]_(Promise!promiseVars)
  BY PromiseStep
<1> QED
  BY Safety, <1>1, <1>2, PTL DEF Spec, KeepsPromise, Promise!Spec
==============================================================================
