--------------------------- MODULE ClipStoreProofs ---------------------------
(***************************************************************************)
(* Proofs about ClipStore for every set of users and uploads, every quota, *)
(* any number of failures and crashes, and every choice of the periods     *)
(* that satisfies TimeAssumption.                                          *)
(***************************************************************************)
EXTENDS ClipStore, TLAPS

LEMMA ConstantTypes ==
  /\ Anyone \in Users
  /\ Files \subseteq Items
  /\ \A i \in Items : Owner[i] \in Users
  /\ Quotas \subseteq Nat
  /\ Grace \in Nat /\ StaleTmp \in Nat /\ SaveLag \in Nat /\ RoundLag \in Nat
  /\ MaxFaults \in Nat
  /\ Grace <= StaleTmp /\ SaveLag + RoundLag < Grace
BY UsersAssumption, ItemsAssumption, TimeAssumption DEF Anyone, Items

\* The idle values have the types of the processes they reset.
LEMMA IdleTypes ==
  /\ SchedIdle \in SchedType
  /\ ReclIdle \in ReclType
  /\ DelIdle \in DelType
BY ConstantTypes DEF SchedIdle, ReclIdle, DelIdle, SchedType, ReclType, DelType

LEMMA FaultType == TypeOK /\ (Fault \/ NoFault) => faults' \in 0..MaxFaults
BY ConstantTypes DEF TypeOK, Fault, NoFault

LEMMA RemoveType ==
  ASSUME TypeOK, NEW S, Remove(S)
  PROVE  /\ file' \in [Files -> {"none", "tmp", "blob"}]
         /\ age' \in [Files -> 0..StaleTmp]
BY ConstantTypes DEF Remove, TypeOK

LEMMA RemoveOrFailType ==
  ASSUME TypeOK, NEW f \in Files, RemoveOrFail(f)
  PROVE  /\ file' \in [Files -> {"none", "tmp", "blob"}]
         /\ age' \in [Files -> 0..StaleTmp]
         /\ faults' \in 0..MaxFaults
BY RemoveType, FaultType DEF RemoveOrFail, fsVars, TypeOK

\* The record of the cleanup goroutine keeps its type.
LEMMA CleanupTypes ==
  ASSUME sched \in SchedType, users \subseteq Users, rows \subseteq Items,
         quota \in [Users -> Quotas], CleanupStep
  PROVE  sched' \in SchedType
<1> USE ConstantTypes, IdleTypes DEF SchedTo
<1>0. /\ QuotaStage("purge") \in SchedType
      /\ QuotaStage("users") \in SchedType
      /\ QuotaStage("sweep") \in SchedType
  BY DEF QuotaStage, SchedType
<1>1. ASSUME GetExpired PROVE sched' \in SchedType
  <2>1. PICK S \in SUBSET Items :
          \/ sched' = [sched EXCEPT !.pc = "purge", !.ids = S]
          \/ sched' = [sched EXCEPT !.pc = "expired", !.ids = S]
          \/ sched' = [sched EXCEPT !.pc = "purge"]
    BY <1>1 DEF GetExpired
  <2> QED
    BY <2>1 DEF SchedType
<1>2. ASSUME NEW onto \in {"purge", "sweep"},
             sched' = QuotaStage(onto) \/
             sched' = [QuotaStage(onto) EXCEPT !.keys = sched.ids \cap Files]
      PROVE sched' \in SchedType
  <2>1. QuotaStage(onto) \in SchedType
    BY <1>0
  <2> QED
    BY <1>2, <2>1 DEF SchedType
<1>3. ASSUME BatchDeleteExpired \/ BatchDeleteOldest PROVE sched' \in SchedType
  BY <1>3, <1>2 DEF BatchDeleteExpired, BatchDeleteOldest, BatchDelete
<1>4. ASSUME ListUsers PROVE sched' \in SchedType
  <2>1. quota \in [Users -> Nat]
    OBVIOUS
  <2> QED
    BY <1>4, <2>1 DEF ListUsers, SchedType
<1>5. ASSUME NEW u \in Users, CheckUsage(u) PROVE sched' \in SchedType
  <2> DEFINE excess == GetUserStorageUsage(u) - sched.limit[u]
  <2>0. CASE sched' = [sched EXCEPT !.todo = @ \ {u}]
    BY <2>0 DEF SchedType
  <2>1. CASE sched' # [sched EXCEPT !.todo = @ \ {u}] /\ excess \in Nat \ {0}
    <3>1. sched' = [sched EXCEPT !.pc = "excess", !.todo = @ \ {u}, !.user = u, !.excess = excess]
      BY <1>5, <2>1 DEF CheckUsage
    <3> HIDE DEF excess
    <3> QED
      BY <2>1, <3>1 DEF SchedType
  <2>2. CASE excess \notin Nat \ {0}
    BY <1>5, <2>0, <2>2 DEF CheckUsage
  <2> QED
    BY <2>0, <2>1, <2>2
<1>6. ASSUME GetOldest PROVE sched' \in SchedType
  <2>1. CASE sched' = QuotaStage("users")
    BY <2>1, <1>0
  <2>2. CASE \E S \in SUBSET rows : sched' = [sched EXCEPT !.pc = "oldest", !.ids = S]
    BY <2>2 DEF SchedType
  <2> QED
    BY <1>6, <2>1, <2>2 DEF GetOldest
<1>7. ASSUME UserDone \/ CleanupDone PROVE sched' \in SchedType
  BY <1>7, <1>0 DEF UserDone, CleanupDone
<1>8. ASSUME NEW f \in Files, PurgeKey(f) PROVE sched' \in SchedType
  BY <1>8 DEF PurgeKey, SchedType
<1> QED
  BY <1>1, <1>3, <1>4, <1>5, <1>6, <1>7, <1>8 DEF CleanupStep

\* The record of the reclaim goroutine keeps its type.
LEMMA ReclaimTypes ==
  ASSUME recl \in ReclType, rows \subseteq Items, ReclaimStep
  PROVE  recl' \in ReclType
<1> USE ConstantTypes, IdleTypes DEF ReclTo
<1>1. ASSUME Snapshot PROVE recl' \in ReclType
  BY <1>1 DEF Snapshot, ReclType
<1>2. ASSUME ListFiles PROVE recl' \in ReclType
  BY <1>2 DEF ListFiles, ReclType
<1>3. ASSUME NEW f \in Files, CheckKey(f) PROVE recl' \in ReclType
  BY <1>3 DEF CheckKey, ReclType
<1>4. ASSUME NEW f \in Files, DeleteOrphan(f) PROVE recl' \in ReclType
  BY <1>4 DEF DeleteOrphan, ReclType
<1>5. ASSUME CleanStaleTmpFiles PROVE recl' \in ReclType
  BY <1>5 DEF CleanStaleTmpFiles
<1> QED
  BY <1>1, <1>2, <1>3, <1>4, <1>5 DEF ReclaimStep

LEMMA TypeInit == Init => TypeOK
BY ConstantTypes, IdleTypes, TimeAssumption DEF Init, TypeOK, SchedType, ReclType, DelType, PC

LEMMA TypeStep ==
  ASSUME TypeOK, [Next]_vars
  PROVE  TypeOK'
<1>0. /\ users \subseteq Users /\ rows \subseteq Items /\ expired \subseteq rows
      /\ quota \in [Users -> Quotas]
      /\ sched \in SchedType /\ recl \in ReclType /\ del \in [Requests -> DelType]
  BY DEF TypeOK
<1> USE ConstantTypes, FaultType
<1>1. ASSUME NEW i \in Items, Admit(i) PROVE TypeOK'
  <2>1. pc' = [pc EXCEPT ![i] = "rejected"] \/ pc' = [pc EXCEPT ![i] = "admitted"]
    BY <1>1 DEF Admit, SetPc
  <2> QED
    BY <1>1, <2>1 DEF Admit, TypeOK, PC, Past, dbVars, fsVars
<1>2. ASSUME NEW f \in Files, OpenTmp(f) PROVE TypeOK'
  BY <1>2 DEF OpenTmp, TypeOK, SetPc, PC, Uploading, Past, dbVars, fsVars
<1>3. ASSUME NEW f \in Files, WriteChunk(f) PROVE TypeOK'
  BY <1>3 DEF WriteChunk, TypeOK, dbVars
<1>4. ASSUME NEW f \in Files, Rename(f) PROVE TypeOK'
  BY <1>4 DEF Rename, TypeOK, SetPc, PC, Uploading, dbVars
<1>5. ASSUME NEW f \in Files, SaveFails(f) PROVE TypeOK'
  BY <1>5, RemoveOrFailType DEF SaveFails, TypeOK, SetPc, PC, Past, dbVars
<1>6. ASSUME NEW f \in Files, Validate(f) PROVE TypeOK'
  BY <1>6, RemoveOrFailType DEF Validate, TypeOK, SetPc, PC, Uploading, Past, dbVars, fsVars
<1>7. ASSUME NEW i \in Items, Insert(i) PROVE TypeOK'
  BY <1>7 DEF Insert, TypeOK, SetPc, PC, Past, fsVars
<1>8. ASSUME NEW i \in Items, InsertFails(i) PROVE TypeOK'
  BY <1>8 DEF InsertFails, TypeOK, SetPc, PC, Past, dbVars, fsVars
<1>9. ASSUME NEW i \in Items, Backfill(i) PROVE TypeOK'
  BY <1>9 DEF Backfill, TypeOK, SetPc, PC, Past, dbVars, fsVars
<1>10. ASSUME NEW i \in Items, CreateFails(i) PROVE TypeOK'
  BY <1>10, RemoveOrFailType DEF CreateFails, TypeOK, SetPc, PC, Past, dbVars, fsVars
<1>11. ASSUME NEW d \in Requests, NEW u \in Users, NEW i \in Items, FindForDelete(d, u, i)
       PROVE  TypeOK'
  BY <1>11 DEF FindForDelete, TypeOK, DelType, dbVars, fsVars
<1>12. ASSUME NEW d \in Requests, DeleteRow(d) PROVE TypeOK'
  <2>1. del' \in [Requests -> DelType]
    BY <1>12, <1>0, IdleTypes DEF DeleteRow, DelType
  <2>2. rows' \subseteq Items /\ expired' \subseteq rows' /\ rows' \subseteq rows
    BY <1>12, <1>0 DEF DeleteRow, DeleteRows, DeleteRowsFails
  <2>3. faults' \in 0..MaxFaults
    BY <1>12 DEF DeleteRow, DeleteRowsFails
  <2> QED
    BY <1>12, <2>1, <2>2, <2>3 DEF DeleteRow, TypeOK, fsVars
<1>13. ASSUME NEW d \in Requests, DeleteBlob(d) PROVE TypeOK'
  BY <1>13, IdleTypes, RemoveType DEF DeleteBlob, TypeOK, DelType, dbVars, fsVars
<1>14. ASSUME NEW u \in Users, DeleteUser(u) PROVE TypeOK'
  BY <1>14 DEF DeleteUser, DeleteRows, TypeOK, fsVars
<1>15. ASSUME NEW u \in Users, NEW q \in Quotas, SetQuota(u, q) PROVE TypeOK'
  BY <1>15 DEF SetQuota, TypeOK, fsVars
<1>16. ASSUME CleanupStep PROVE TypeOK'
  <2>1. sched' \in SchedType
    BY <1>16, CleanupTypes, <1>0
  <2>2. rows' \subseteq Items /\ expired' \subseteq rows'
    BY <1>16, <1>0 DEF CleanupStep, GetExpired, BatchDeleteExpired, BatchDeleteOldest,
         BatchDelete, DeleteRows, DeleteRowsFails, ListUsers, CheckUsage, GetOldest, UserDone, CleanupDone,
         PurgeKey
  <2>3. /\ file' \in [Files -> {"none", "tmp", "blob"}]
        /\ age' \in [Files -> 0..StaleTmp]
        /\ faults' \in 0..MaxFaults
    <3>1. CASE \E f \in Files : PurgeKey(f)
      BY <3>1, RemoveOrFailType DEF PurgeKey
    <3>2. CASE ~ \E f \in Files : PurgeKey(f)
      <4>1. UNCHANGED fsVars /\ (Fault \/ NoFault)
        BY <1>16, <3>2 DEF CleanupStep, GetExpired, BatchDeleteExpired, BatchDeleteOldest,
             BatchDelete, DeleteRowsFails, ListUsers, CheckUsage, GetOldest, UserDone, CleanupDone
      <4> QED
        BY <4>1 DEF fsVars, TypeOK
    <3> QED
      BY <3>1, <3>2
  <2>4. UNCHANGED <<dialect, users, quota, created, second, pc, del, recl>>
    BY <1>16 DEF CleanupStep, GetExpired, BatchDeleteExpired, BatchDeleteOldest,
         BatchDelete, DeleteRowsFails, ListUsers, CheckUsage, GetOldest, UserDone, CleanupDone,
         PurgeKey, SchedTo
  <2> QED
    BY <2>1, <2>2, <2>3, <2>4 DEF TypeOK
<1>17. ASSUME ReclaimStep PROVE TypeOK'
  <2>1. recl' \in ReclType
    BY <1>17, ReclaimTypes, <1>0
  <2>2. /\ file' \in [Files -> {"none", "tmp", "blob"}]
        /\ age' \in [Files -> 0..StaleTmp]
        /\ faults' \in 0..MaxFaults
    <3>1. CASE \E f \in Files : DeleteOrphan(f)
      BY <3>1, RemoveOrFailType DEF DeleteOrphan
    <3>2. CASE CleanStaleTmpFiles
      BY <3>2, RemoveType DEF CleanStaleTmpFiles
    <3>3. CASE Snapshot \/ ListFiles \/ \E f \in Files : CheckKey(f)
      <4>1. UNCHANGED fsVars /\ (Fault \/ NoFault)
        BY <3>3 DEF Snapshot, ListFiles, CheckKey
      <4> QED
        BY <4>1 DEF fsVars, TypeOK
    <3> QED
      BY <1>17, <3>1, <3>2, <3>3 DEF ReclaimStep
  <2>3. UNCHANGED <<dbVars, pc, del, sched>>
    BY <1>17 DEF ReclaimStep, Snapshot, ListFiles, CheckKey, DeleteOrphan,
         CleanStaleTmpFiles, ReclTo
  <2> QED
    BY <2>1, <2>2, <2>3 DEF TypeOK, dbVars
<1>18. ASSUME NEW i \in Items, Expire(i) PROVE TypeOK'
  BY <1>18 DEF Expire, TypeOK, fsVars
<1>19. ASSUME Tick PROVE TypeOK'
  <2>1. recl' \in ReclType
    BY <1>19, <1>0 DEF Tick, ReclType
  <2>2. age' \in [Files -> 0..StaleTmp]
    BY <1>19 DEF Tick, TypeOK
  <2>3. faults' \in 0..MaxFaults
    BY <1>19 DEF Tick
  <2> QED
    BY <1>19, <2>1, <2>2, <2>3 DEF Tick, TypeOK, dbVars
<1>20. ASSUME Crash PROVE TypeOK'
  BY <1>20, IdleTypes DEF Crash, TypeOK, DelType, SchedType, ReclType, PC, Past, Uploading, dbVars, fsVars
<1>21. CASE UNCHANGED vars
  BY <1>21 DEF vars, TypeOK
<1> QED
  BY <1>1, <1>2, <1>3, <1>4, <1>5, <1>6, <1>7, <1>8, <1>9, <1>10, <1>11, <1>12, <1>13,
     <1>14, <1>15, <1>16, <1>17, <1>18, <1>19, <1>20, <1>21 DEF Next, CreateStep, DeleteStep

\* The variables keep their types: every state of the program is one the other
\* properties are stated for.
THEOREM TypeCorrect == Spec => []TypeOK
BY TypeInit, TypeStep, PTL DEF Spec
==============================================================================
