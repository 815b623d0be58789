------------------------------ MODULE ClipStore ------------------------------
(***************************************************************************)
(* The life of a clip: the rows of clip_items, the files of the local blob *)
(* store, and everything that creates or removes either of them.           *)
(*                                                                         *)
(*   - the HTTP handlers createText, createFile and Delete, one statement  *)
(*     or file operation per step (internal/api/clip.go, internal/store,   *)
(*     internal/blob/local.go);                                            *)
(*   - the cleanup goroutine: TTL expiry, then quota eviction              *)
(*     (internal/scheduler/scheduler.go, doCleanup);                       *)
(*   - the reclaim goroutine: files without a row, stale .tmp files        *)
(*     (doOrphanReclaim);                                                  *)
(*   - user deletion, whose cascade removes rows and no file;              *)
(*   - failing statements and file operations, and process crashes.        *)
(*                                                                         *)
(* Every upload of a file writes a fresh blob_key (a UUID), so a file is   *)
(* named by the upload that writes it: Files is the set of uploads of      *)
(* files, Texts the set of uploads of texts.                               *)
(*                                                                         *)
(* Time is a tick.  The age of a file is the time since its last write     *)
(* (its mtime: the rename does not change it) and saturates at StaleTmp,   *)
(* the largest age the code compares with.                                 *)
(***************************************************************************)
EXTENDS Integers, FiniteSets, FiniteSetsExt

CONSTANTS
  Users,        \* accounts that exist at the start
  Files,        \* uploads of files and images
  Texts,        \* uploads of texts
  Owner,        \* the user of each upload
  Size,         \* its size in bytes
  Quotas,       \* values users.quota_bytes may have
  Requests,     \* slots for concurrent DELETE requests
  Dialects,     \* the databases considered, out of "sqlite" and "postgres"
  Batch,        \* rows one expiry round takes (500 in the code)
  Grace,        \* orphanGracePeriod
  StaleTmp,     \* staleTmpMaxAge
  SaveLag,      \* most ticks from a file's last write to its row's insert
  RoundLag,     \* most ticks a reclaim round takes after its snapshot
  MaxSecond,    \* bound on the seconds that created_at tells apart
  MaxFaults     \* bound on the failures and crashes of one behaviour

Items == Files \cup Texts

ASSUME UsersAssumption == Users # {}
ASSUME ItemsAssumption ==
  /\ Files \cap Texts = {}
  /\ Owner \in [Items -> Users]
  /\ Size \in [Items -> Nat \ {0}]
  /\ Quotas \subseteq Nat /\ Quotas # {}
ASSUME DialectAssumption == Dialects \subseteq {"sqlite", "postgres"}
\* Nothing in the code enforces the last conjunct: the grace period is safe
\* only while uploads and reclaim rounds are fast compared with it.
ASSUME TimeAssumption ==
  /\ Batch \in Nat \ {0}
  /\ {Grace, StaleTmp, SaveLag, RoundLag, MaxFaults} \subseteq Nat
  /\ MaxSecond \in Nat \ {0}
  /\ Grace <= StaleTmp
  /\ SaveLag + RoundLag < Grace

VARIABLES
  dialect,   \* the database of this deployment; it never changes
  users,     \* rows of users
  quota,     \* their quota_bytes
  rows,      \* rows of clip_items
  created,   \* created_at of each row ever inserted, 0 before
  second,    \* the newest created_at given so far
  expired,   \* rows whose expires_at has passed
  file,      \* each upload's path: nothing, the .tmp file, the final file
  age,       \* ticks since the file's last write, saturating at StaleTmp
  pc,        \* where the handler of each upload stands
  del,       \* the DELETE requests in flight
  sched,     \* the cleanup goroutine
  recl,      \* the reclaim goroutine
  faults     \* failures so far

dbVars == <<dialect, users, quota, rows, created, second, expired>>
fsVars == <<file, age>>
vars == <<dialect, users, quota, rows, created, second, expired, file, age, pc, del,
          sched, recl, faults>>

\* Handlers that own the file they are writing: its row is not inserted yet.
Uploading == {"saving", "saved", "validated"}
\* Handlers that will never insert a row any more.
Past == {"rejected", "inserted", "failing", "failed", "acked", "lost"}
PC == {"idle", "admitted"} \cup Uploading \cup Past

Anyone == CHOOSE u \in Users : TRUE

DelIdle == [pc |-> "idle", by |-> Anyone, ids |-> {}]
SchedIdle == [pc |-> "idle", ids |-> {}, keys |-> {}, todo |-> {},
              limit |-> [u \in Users |-> 0], user |-> Anyone, excess |-> 0]
ReclIdle == [pc |-> "idle", db |-> {}, todo |-> {}, victim |-> {}, age |-> 0]

DelType == [pc : {"idle", "found", "gone"}, by : Users, ids : SUBSET Items]

SchedType ==
  [pc : {"idle", "expired", "purge", "users", "excess", "oldest", "sweep"},
   ids : SUBSET Items, keys : SUBSET Files, todo : SUBSET Users,
   limit : [Users -> Nat], user : Users, excess : Nat]

ReclType == [pc : {"idle", "listing", "walking"}, db : SUBSET Files,
             todo : SUBSET Files, victim : SUBSET Files, age : 0..RoundLag]

TypeOK ==
  /\ dialect \in Dialects
  /\ users \subseteq Users
  /\ quota \in [Users -> Quotas]
  /\ rows \subseteq Items
  /\ created \in [Items -> Nat]
  /\ second \in Nat \ {0}
  /\ expired \subseteq rows
  /\ file \in [Files -> {"none", "tmp", "blob"}]
  /\ age \in [Files -> 0..StaleTmp]
  /\ pc \in [Items -> PC]
  /\ del \in [Requests -> DelType]
  /\ sched \in SchedType
  /\ recl \in ReclType
  /\ faults \in 0..MaxFaults

Init ==
  /\ dialect \in Dialects
  /\ users = Users
  /\ quota \in [Users -> Quotas]
  /\ rows = {}
  /\ created = [i \in Items |-> 0]
  /\ second = 1
  /\ expired = {}
  /\ file = [f \in Files |-> "none"]
  /\ age = [f \in Files |-> 0]
  /\ pc = [i \in Items |-> "idle"]
  /\ del = [d \in Requests |-> DelIdle]
  /\ sched = SchedIdle
  /\ recl = ReclIdle
  /\ faults = 0

------------------------------------------------------------------------------
(* Shared operations *)

RowsOf(u) == {i \in rows : Owner[i] = u}

\* Mutant of DeleteRows: an expired row loses its row and keeps its mark.
DeleteRowsKeepingMarks(S) ==
  /\ rows' = rows \ S
  /\ UNCHANGED expired

\* DELETE FROM clip_items for the given rows.
DeleteRows(S) ==
  /\ rows' = rows \ S
  /\ expired' = expired \ S

\* SUM(size) over every row of the user, the expired ones included.
GetUserStorageUsage(u) == MapThenSumSet(LAMBDA i : Size[i], RowsOf(u))

\* A statement or a file operation fails, or the process dies.
Fault == faults < MaxFaults /\ faults' = faults + 1
NoFault == UNCHANGED faults

\* A DELETE that returns an error: it had no effect, or the connection to
\* PostgreSQL was lost, or the request cancelled, after the commit.
DeleteRowsFails(S) ==
  /\ Fault
  /\ \/ UNCHANGED <<rows, expired>>
     \/ dialect = "postgres" /\ DeleteRows(S)

SetPc(i, to) == pc' = [pc EXCEPT ![i] = to]

\* os.Remove of the given files; what is not there stays not there.
Remove(S) ==
  /\ file' = [f \in Files |-> IF f \in S THEN "none" ELSE file[f]]
  /\ age' = [f \in Files |-> IF f \in S THEN 0 ELSE age[f]]

\* os.Remove of one file whose error is ignored or only logged.
RemoveOrFail(f) ==
  \/ Remove({f}) /\ NoFault
  \/ Fault /\ UNCHANGED fsVars

------------------------------------------------------------------------------
(* createText and createFile *)

\* The user is read, then the quota is checked against the rows of the moment;
\* an error of either read rejects the upload.
Admit(i) ==
  /\ pc[i] = "idle"
  /\ Owner[i] \in users
  /\ \/ /\ SetPc(i, IF GetUserStorageUsage(Owner[i]) + Size[i] > quota[Owner[i]]
                    THEN "rejected" ELSE "admitted")
        /\ NoFault
     \/ SetPc(i, "rejected") /\ Fault
  /\ UNCHANGED <<dbVars, fsVars, del, sched, recl>>

\* blob.Save opens the .tmp file, or cannot ...
OpenTmp(f) ==
  /\ pc[f] = "admitted"
  /\ \/ /\ SetPc(f, "saving")
        /\ file' = [file EXCEPT ![f] = "tmp"]
        /\ age' = [age EXCEPT ![f] = 0]
        /\ NoFault
     \/ SetPc(f, "rejected") /\ Fault /\ UNCHANGED fsVars
  /\ UNCHANGED <<dbVars, del, sched, recl>>

\* ... io.Copy writes it ...
WriteChunk(f) ==
  /\ pc[f] = "saving"
  /\ age' = [age EXCEPT ![f] = 0]
  /\ NoFault
  /\ UNCHANGED <<dbVars, file, pc, del, sched, recl>>

\* ... and renames it, its mtime unchanged.
Rename(f) ==
  /\ pc[f] = "saving"
  /\ SetPc(f, "saved")
  /\ file' = [file EXCEPT ![f] = "blob"]
  /\ NoFault
  /\ UNCHANGED <<dbVars, age, del, sched, recl>>

\* Content over max_item_size, a failing write, close or rename: the .tmp file
\* is removed, if it can be.
SaveFails(f) ==
  /\ pc[f] = "saving"
  /\ SetPc(f, "rejected")
  /\ RemoveOrFail(f)
  /\ UNCHANGED <<dbVars, del, sched, recl>>

\* The saved file is read back; a MIME type that is not allowed, or a file that
\* cannot be read, rejects the upload and deletes the file.
Validate(f) ==
  /\ pc[f] = "saved"
  /\ \/ /\ file[f] = "blob"
        /\ SetPc(f, "validated")
        /\ NoFault
        /\ UNCHANGED fsVars
     \/ /\ SetPc(f, "rejected")
        /\ RemoveOrFail(f)
  /\ UNCHANGED <<dbVars, del, sched, recl>>

ReadyToInsert(i) == pc[i] = IF i \in Files THEN "validated" ELSE "admitted"

\* The INSERT of CreateClipItem.  created_at has a resolution of one second, so
\* consecutive rows may carry the same one.  SQLite has one connection, and gives
\* it in the order in which rows become visible; on PostgreSQL it is the time the
\* statement began at, and rows with a later one may have been committed since.
\* SQLite reads created_at back in a second statement.  PostgreSQL returns it with
\* the INSERT, but the answer may be lost after the commit: then the handler sees
\* an error.
Insert(i) ==
  /\ ReadyToInsert(i)
  /\ Owner[i] \in users
  /\ rows' = rows \cup {i}
  /\ second' \in {second, second + 1} /\ second' <= MaxSecond
  /\ \E began \in IF dialect = "sqlite" THEN {second'} ELSE 1..second' :
       created' = [created EXCEPT ![i] = began]
  /\ \/ SetPc(i, IF dialect = "sqlite" THEN "inserted" ELSE "acked") /\ NoFault
     \/ dialect = "postgres" /\ SetPc(i, "failing") /\ Fault
  /\ UNCHANGED <<dialect, users, quota, expired, fsVars, del, sched, recl>>

\* The INSERT fails: the user is gone (foreign key), or the statement failed.
InsertFails(i) ==
  /\ ReadyToInsert(i)
  /\ \/ Owner[i] \notin users /\ NoFault
     \/ Owner[i] \in users /\ Fault
  /\ SetPc(i, "failing")
  /\ UNCHANGED <<dbVars, fsVars, del, sched, recl>>

\* SQLite: SELECT created_at of the new row, then 201 and the broadcast.  The
\* row may have been deleted meanwhile, and the statement may fail on its own.
Backfill(i) ==
  /\ pc[i] = "inserted"
  /\ \/ i \in rows /\ SetPc(i, "acked") /\ NoFault
     \/ i \notin rows /\ SetPc(i, "failing") /\ NoFault
     \/ i \in rows /\ SetPc(i, "failing") /\ Fault
  /\ UNCHANGED <<dbVars, fsVars, del, sched, recl>>

\* The error path of CreateClipItem: a file upload deletes its blob, then 500.
CreateFails(i) ==
  /\ pc[i] = "failing"
  /\ SetPc(i, "failed")
  /\ IF i \in Files THEN RemoveOrFail(i) ELSE NoFault /\ UNCHANGED fsVars
  /\ UNCHANGED <<dbVars, del, sched, recl>>

CreateStep(i) ==
  \/ /\ i \in Files
     /\ OpenTmp(i) \/ Rename(i) \/ SaveFails(i) \/ Validate(i)
  \/ Insert(i) \/ InsertFails(i) \/ Backfill(i) \/ CreateFails(i)

------------------------------------------------------------------------------
(* Delete *)

\* Mutant of FindForDelete: the row of any user is found.
FindAnyForDelete(d, u, i) ==
  /\ del[d].pc = "idle"
  /\ i \in rows \ expired
  /\ del' = [del EXCEPT ![d] = [pc |-> "found", by |-> u, ids |-> {i}]]
  /\ NoFault
  /\ UNCHANGED <<dbVars, fsVars, pc, sched, recl>>

\* GetClipItem: only the owner's row, and only while it has not expired.
FindForDelete(d, u, i) ==
  /\ del[d].pc = "idle"
  /\ i \in rows
  /\ Owner[i] = u
  /\ i \notin expired
  /\ del' = [del EXCEPT ![d] = [pc |-> "found", by |-> u, ids |-> {i}]]
  /\ NoFault
  /\ UNCHANGED <<dbVars, fsVars, pc, sched, recl>>

\* Mutant of DeleteRow: the error of the statement is ignored.
DeleteRowIgnoringError(d) ==
  /\ del[d].pc = "found"
  /\ \/ DeleteRows(del[d].ids) /\ NoFault
     \/ Fault /\ UNCHANGED <<rows, expired>>
  /\ del' = [del EXCEPT ![d].pc = "gone"]
  /\ UNCHANGED <<dialect, users, quota, created, second, fsVars, pc, sched, recl>>

\* The DELETE statement, whose affected rows nobody counts.
DeleteRow(d) ==
  /\ del[d].pc = "found"
  /\ \/ /\ DeleteRows(del[d].ids)
        /\ del' = [del EXCEPT ![d].pc = "gone"]
        /\ NoFault
     \/ /\ DeleteRowsFails(del[d].ids)
        /\ del' = [del EXCEPT ![d] = DelIdle]
  /\ UNCHANGED <<dialect, users, quota, created, second, fsVars, pc, sched, recl>>

\* The blob goes after the row; an error is only logged.
DeleteBlob(d) ==
  /\ del[d].pc = "gone"
  /\ \/ Remove(del[d].ids) /\ NoFault
     \/ del[d].ids \cap Files # {} /\ Fault /\ UNCHANGED fsVars
  /\ del' = [del EXCEPT ![d] = DelIdle]
  /\ UNCHANGED <<dbVars, pc, sched, recl>>

DeleteStep(d) == DeleteRow(d) \/ DeleteBlob(d)

\* An administrator deletes an account; the cascade deletes its rows.
DeleteUser(u) ==
  /\ u \in users
  /\ users' = users \ {u}
  /\ DeleteRows(RowsOf(u))
  /\ NoFault
  /\ UNCHANGED <<dialect, quota, created, second, fsVars, pc, del, sched, recl>>

\* An administrator changes quota_bytes.
SetQuota(u, q) ==
  /\ u \in users
  /\ q \in Quotas \ {quota[u]}
  /\ quota' = [quota EXCEPT ![u] = q]
  /\ NoFault
  /\ UNCHANGED <<dialect, users, rows, created, second, expired, fsVars, pc, del, sched, recl>>

------------------------------------------------------------------------------
(* The cleanup goroutine: doCleanup, enforceQuotas, enforceUserQuota *)

SchedTo(s) ==
  /\ sched' = s
  /\ UNCHANGED <<dialect, users, quota, created, second, pc, del, recl>>

\* Mutant of GetExpired: expires_at is not compared with the time.
GetAnyRows ==
  /\ sched.pc = "idle"
  /\ \E S \in SUBSET rows :
       SchedTo([sched EXCEPT !.pc = IF S = {} THEN "purge" ELSE "expired", !.ids = S])
  /\ NoFault
  /\ UNCHANGED <<rows, expired, fsVars>>

\* Mutant of GetExpired: the last row of each batch stays.
GetExpiredButOne ==
  /\ sched.pc = "idle"
  /\ \/ /\ \E S \in SUBSET (rows \cap expired) :
             /\ Cardinality(S) = Max({0, Min({Batch, Cardinality(rows \cap expired)}) - 1})
             /\ SchedTo([sched EXCEPT !.pc = IF S = {} THEN "purge" ELSE "expired",
                                      !.ids = S])
        /\ NoFault
     \/ SchedTo([sched EXCEPT !.pc = "purge"]) /\ Fault
  /\ UNCHANGED <<rows, expired, fsVars>>

\* GetExpiredClipItems takes at most Batch rows; an error skips this stage.
GetExpired ==
  /\ sched.pc = "idle"
  /\ \/ /\ \E S \in SUBSET (rows \cap expired) :
             /\ Cardinality(S) = Min({Batch, Cardinality(rows \cap expired)})
             /\ SchedTo([sched EXCEPT !.pc = IF S = {} THEN "purge" ELSE "expired",
                                      !.ids = S])
        /\ NoFault
     \/ SchedTo([sched EXCEPT !.pc = "purge"]) /\ Fault
  /\ UNCHANGED <<rows, expired, fsVars>>

\* What the quota stage still holds when it goes on to stage "to".
QuotaStage(to) == [SchedIdle EXCEPT !.pc = to, !.todo = sched.todo, !.limit = sched.limit]

\* BatchDeleteClipItems, then the blobs of what was read; an error skips both.
BatchDelete(from, onto) ==
  /\ sched.pc = from
  /\ \/ /\ DeleteRows(sched.ids)
        /\ SchedTo([QuotaStage(onto) EXCEPT !.keys = sched.ids \cap Files])
        /\ NoFault
     \/ /\ SchedTo(QuotaStage(onto))
        /\ DeleteRowsFails(sched.ids)
  /\ UNCHANGED fsVars

\* deleteBlobs: one goroutine per key, in any order; an error is only logged.
PurgeKey(f) ==
  /\ sched.pc \in {"purge", "sweep"}
  /\ f \in sched.keys
  /\ SchedTo([sched EXCEPT !.keys = @ \ {f}])
  /\ RemoveOrFail(f)
  /\ UNCHANGED <<rows, expired>>

\* ListUsers starts the quota stage with the users and their quotas as they are
\* now; an error ends the round.
ListUsers ==
  /\ sched.pc = "purge"
  /\ sched.keys = {}
  /\ \/ SchedTo([sched EXCEPT !.pc = "users", !.todo = users, !.limit = quota]) /\ NoFault
     \/ SchedTo(SchedIdle) /\ Fault
  /\ UNCHANGED <<rows, expired, fsVars>>

\* The usage of one user is read and compared with the quota listed before; only
\* a user over quota goes on.  An error skips the user.
CheckUsage(u) ==
  /\ sched.pc = "users"
  /\ u \in sched.todo
  /\ \/ /\ LET excess == GetUserStorageUsage(u) - sched.limit[u]
           IN  IF excess \in Nat \ {0}
               THEN SchedTo([sched EXCEPT !.pc = "excess", !.todo = @ \ {u},
                                          !.user = u, !.excess = excess])
               ELSE SchedTo([sched EXCEPT !.todo = @ \ {u}])
        /\ NoFault
     \/ SchedTo([sched EXCEPT !.todo = @ \ {u}]) /\ Fault
  /\ UNCHANGED <<rows, expired, fsVars>>

TotalSize(S) == MapThenSumSet(LAMBDA i : Size[i], S)

\* Mutant of IsOldestCover: no ORDER BY.
UnorderedCover(S, u, excess) ==
  /\ S \subseteq RowsOf(u)
  /\ S = RowsOf(u) \/ TotalSize(S) >= excess
  /\ \A i \in S : TotalSize(S \ {i}) < excess

\* Mutant of IsOldestCover: the scan stops one byte early.
ShortCover(S, u, excess) ==
  /\ S \subseteq RowsOf(u)
  /\ \A i \in S, j \in RowsOf(u) \ S : created[i] <= created[j]
  /\ S = RowsOf(u) \/ TotalSize(S) >= excess - 1
  /\ \A i \in S : TotalSize(S \ {i}) < excess - 1

\* What a scan of the user's rows ORDER BY created_at ASC returns when it stops
\* as soon as the sizes reach the excess; rows of one second come in any order.
IsOldestCover(S, u, excess) ==
  /\ S \subseteq RowsOf(u)
  /\ \A i \in S, j \in RowsOf(u) \ S : created[i] <= created[j]
  /\ S = RowsOf(u) \/ TotalSize(S) >= excess
  /\ S = {} \/ \E i \in S : /\ TotalSize(S \ {i}) < excess
                            /\ \A j \in S : created[j] <= created[i]

\* GetOldestClipItemsForQuota, with the excess read a step before.
GetOldest ==
  /\ sched.pc = "excess"
  /\ \/ /\ \E S \in SUBSET rows :
             /\ IsOldestCover(S, sched.user, sched.excess)
             /\ SchedTo(IF S = {}
                        THEN QuotaStage("users")
                        ELSE [sched EXCEPT !.pc = "oldest", !.ids = S])
        /\ NoFault
     \/ /\ SchedTo(QuotaStage("users"))
        /\ Fault
  /\ UNCHANGED <<rows, expired, fsVars>>

\* The blobs of the evicted rows are gone: on to the next user.
UserDone ==
  /\ sched.pc = "sweep"
  /\ sched.keys = {}
  /\ SchedTo(QuotaStage("users"))
  /\ NoFault
  /\ UNCHANGED <<rows, expired, fsVars>>

CleanupDone ==
  /\ sched.pc = "users"
  /\ sched.todo = {}
  /\ SchedTo(SchedIdle)
  /\ NoFault
  /\ UNCHANGED <<rows, expired, fsVars>>

BatchDeleteExpired == BatchDelete("expired", "purge")
BatchDeleteOldest == BatchDelete("oldest", "sweep")

CleanupStep ==
  \/ GetExpired \/ BatchDeleteExpired \/ ListUsers
  \/ \E u \in Users : CheckUsage(u)
  \/ GetOldest \/ BatchDeleteOldest \/ UserDone \/ CleanupDone
  \/ \E f \in Files : PurgeKey(f)

------------------------------------------------------------------------------
(* The reclaim goroutine: doOrphanReclaim *)

ReclTo(r) ==
  /\ recl' = r
  /\ UNCHANGED <<dbVars, pc, del, sched>>

\* GetAllBlobKeys; an error ends the round before it starts.
Snapshot ==
  /\ recl.pc = "idle"
  /\ ReclTo([recl EXCEPT !.pc = "listing", !.db = rows \cap Files])
  /\ NoFault
  /\ UNCHANGED fsVars

\* List skips the .tmp files; an error ends the round.
ListFiles ==
  /\ recl.pc = "listing"
  /\ \/ /\ ReclTo([recl EXCEPT !.pc = "walking",
                               !.todo = {f \in Files : file[f] = "blob"}])
        /\ NoFault
     \/ ReclTo(ReclIdle) /\ Fault
  /\ UNCHANGED fsVars

\* Mutant of CheckKey: no grace period.
CheckKeyAtOnce(f) ==
  /\ recl.pc = "walking"
  /\ recl.victim = {}
  /\ f \in recl.todo
  /\ ReclTo([recl EXCEPT !.todo = @ \ {f},
                         !.victim = {k \in {f} : k \notin recl.db /\ file[k] = "blob"}])
  /\ NoFault
  /\ UNCHANGED fsVars

\* One key of the list: known, gone, unreadable or too young keys are skipped.
CheckKey(f) ==
  /\ recl.pc = "walking"
  /\ recl.victim = {}
  /\ f \in recl.todo
  /\ \/ /\ ReclTo([recl EXCEPT
                     !.todo = @ \ {f},
                     !.victim = {k \in {f} : /\ k \notin recl.db
                                             /\ file[k] = "blob"
                                             /\ age[k] >= Grace}])
        /\ NoFault
     \/ ReclTo([recl EXCEPT !.todo = @ \ {f}]) /\ Fault
  /\ UNCHANGED fsVars

DeleteOrphan(f) ==
  /\ f \in recl.victim
  /\ ReclTo([recl EXCEPT !.victim = {}])
  /\ RemoveOrFail(f)

\* Mutant of CleanStaleTmpFiles: the round ends without it.
LeaveStaleTmpFiles ==
  /\ recl.pc = "walking"
  /\ recl.todo = {} /\ recl.victim = {}
  /\ NoFault
  /\ UNCHANGED fsVars
  /\ ReclTo(ReclIdle)

\* CleanStaleTmpFiles ends the round; a file it cannot remove stays.
CleanStaleTmpFiles ==
  /\ recl.pc = "walking"
  /\ recl.todo = {} /\ recl.victim = {}
  /\ LET stale == {f \in Files : file[f] = "tmp" /\ age[f] >= StaleTmp}
     IN  \/ Remove(stale) /\ NoFault
         \/ Fault /\ \E S \in SUBSET stale : Remove(S)
  /\ ReclTo(ReclIdle)

ReclaimStep ==
  \/ Snapshot \/ ListFiles \/ CleanStaleTmpFiles
  \/ \E f \in Files : CheckKey(f) \/ DeleteOrphan(f)

------------------------------------------------------------------------------
(* Time and crashes *)

\* expires_at of a row passes.
Expire(i) ==
  /\ i \in rows \ expired
  /\ expired' = expired \cup {i}
  /\ NoFault
  /\ UNCHANGED <<dialect, users, quota, rows, created, second, fsVars, pc, del, sched, recl>>

\* An upload between its last write and its insert, and a reclaim round, do not
\* outlast their lags.
Tick ==
  /\ \A f \in Files : pc[f] \in Uploading => age[f] < SaveLag
  /\ recl.pc # "idle" => recl.age < RoundLag
  /\ age' = [f \in Files |-> IF file[f] = "none" \/ age[f] = StaleTmp
                             THEN age[f] ELSE age[f] + 1]
  /\ recl' = IF recl.pc = "idle" THEN recl ELSE [recl EXCEPT !.age = @ + 1]
  /\ NoFault
  /\ UNCHANGED <<dbVars, file, pc, del, sched>>

\* The process dies and is started again: rows and files stay, everything the
\* goroutines held is gone.
Crash ==
  /\ Fault
  /\ pc' = [i \in Items |-> CASE pc[i] \in {"admitted", "inserted"} \cup Uploading -> "lost"
                             [] pc[i] = "failing" -> "failed"
                             [] OTHER -> pc[i]]
  /\ del' = [d \in Requests |-> DelIdle]
  /\ sched' = SchedIdle
  /\ recl' = ReclIdle
  /\ UNCHANGED <<dbVars, fsVars>>

------------------------------------------------------------------------------

Next ==
  \/ \E i \in Items : Admit(i) \/ CreateStep(i) \/ Expire(i)
  \/ \E f \in Files : WriteChunk(f)
  \/ \E d \in Requests :
       DeleteStep(d) \/ \E u \in Users, i \in Items : FindForDelete(d, u, i)
  \/ \E u \in Users : DeleteUser(u) \/ \E q \in Quotas : SetQuota(u, q)
  \/ CleanupStep
  \/ ReclaimStep
  \/ Tick
  \/ Crash

Spec == Init /\ [][Next]_vars

\* Goroutines are scheduled, started handlers run to their end, time passes.
\* Clients and administrators owe nothing.
Fairness ==
  /\ \A i \in Items : WF_vars(CreateStep(i))
  /\ \A d \in Requests : WF_vars(DeleteStep(d))
  /\ WF_vars(CleanupStep)
  /\ WF_vars(ReclaimStep)
  /\ WF_vars(Tick)

FairSpec == Spec /\ Fairness

------------------------------------------------------------------------------
(* Properties *)

\* Until its row is inserted, the file an upload is writing is not removed or
\* replaced by anyone else: not by the reclaim goroutine, which sees a file
\* without a row (scheduler.go, doOrphanReclaim), nor by its .tmp sweep.
UploadsIntact ==
  \A f \in Files :
    /\ pc[f] = "saving" => file[f] = "tmp"
    /\ pc[f] \in {"saved", "validated"} => file[f] = "blob"

\* No delete, expiry, eviction, reclaim round or crash takes the file of a row
\* before the row (scheduler.go:163).  The one exception is the error path of
\* createFile, which deletes the blob of a row it takes for missing.
RowsServable == \A f \in rows \cap Files : file[f] = "blob" \/ pc[f] = "failed"

\* No row at all is left without its file: what clip.go:345 and scheduler.go:163
\* want, and what that error path breaks.
NoDanglingRow == \A f \in rows \cap Files : file[f] = "blob"

\* On SQLite a batch of the quota stage never takes a row and leaves an older one
\* of the same user, although other requests run between its three statements
\* (scheduler.go, enforceUserQuota).  On PostgreSQL a row with an older created_at
\* may become visible after the batch was read, and stays.
EvictsOldestFirst ==
  [][ dialect = "sqlite" /\ sched.pc = "oldest" /\ sched' # sched =>
        \A i \in rows \ rows', j \in rows' :
          Owner[i] = Owner[j] => created[i] <= created[j] ]_vars

\* The clips that may be withdrawn now: one its owner is deleting, an expired
\* one, one of a deleted account, one of an account the quota stage found over
\* quota, one whose create ended in an error.
Due == {i \in Items :
          \/ \E d \in Requests : i \in del[d].ids /\ del[d].by = Owner[i]
          \/ i \in expired
          \/ Owner[i] \notin users
          \/ sched.user = Owner[i] /\ sched.excess > 0
          \/ created[i] > 0 /\ pc[i] \in {"failing", "failed"}}

Published == {i \in Items : created[i] > 0}
Live == {i \in rows : i \in Files => file[i] = "blob"}

Promise == INSTANCE ClipPromise
             WITH published <- Published, live <- Live, due <- Due

\* The store keeps the promise of ClipPromise: a clip is complete the moment it
\* becomes visible, its content never changes its mind about being there, and it
\* disappears for a reason only.
KeepsPromise == Promise!Spec

\* A file without a row, whose handler has gone, is eventually removed, whatever
\* left it there: a failed delete, a crash, the cascade of a user's deletion
\* (clip.go:533 counts on it).
OrphansReclaimed ==
  \A f \in Files :
    (file[f] # "none" /\ f \notin rows /\ pc[f] \notin Uploading)
      ~> (file[f] = "none")

\* An expired row is eventually deleted.
ExpiredRemoved == \A i \in Items : (i \in expired) ~> (i \notin rows)

\* Concurrent uploads may pass the quota check together and exceed the quota;
\* the cleanup goroutine brings every user back under it.
QuotaRestored ==
  \A u \in Users : []<>(GetUserStorageUsage(u) <= quota[u])
==============================================================================
