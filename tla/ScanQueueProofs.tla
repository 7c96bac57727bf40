--------------------------- MODULE ScanQueueProofs ---------------------------
(***************************************************************************)
(* Proofs about ScanQueue, for any number of uploads, contents, workers    *)
(* and attempts: the types, that no document is stranded in the queue, and *)
(* -- for the single worker that production runs -- that the scanner       *)
(* implements ScanLifecycle.                                               *)
(***************************************************************************)
EXTENDS ScanQueue, TLAPS

USE ScanAssumption

\* A write of the status takes the lock and the visibility timer away with it.
LEMMA SetStatusTypes ==
  ASSUME RowTypes, NEW s \in Scans, NEW st \in {"queued"} \cup Settled, NEW now \in BOOLEAN,
         now => st = "queued", SetStatus(s, st, now), UNCHANGED attempts
  PROVE  RowTypes'
  BY DEF RowTypes, SetStatus, Settled

\* An unlink, failed or not, changes one file and what is known of it.
FileTypes == file \in [Scans -> BOOLEAN] /\ left \subseteq Scans

LEMMA UnlinkTypes ==
  ASSUME FileTypes, NEW s \in Scans, Unlink(s)
  PROVE  FileTypes'
  BY DEF FileTypes, Unlink

\* No action disturbs a type, the agreement of the lock and the timers with the
\* status, or that of a worker's job with its progress.
LEMMA TypeStep ==
  ASSUME TypeOK, [Next]_vars
  PROVE  TypeOK'
<1> USE DEF vars, rowVars, workVars, histVars,
            TypeOK, RowTypes, StoreTypes, WorkTypes, PurgeTypes, Settled
<1>1. ASSUME NEW s \in Scans, Receive(s) PROVE TypeOK'
  BY <1>1 DEF Receive
<1>2. ASSUME NEW s \in Scans, CheckDuplicate(s) PROVE TypeOK'
  <2>1. RowTypes'
    BY <1>2 DEF CheckDuplicate, Unlink
  <2>2. StoreTypes'
    BY <1>2 DEF CheckDuplicate, Unlink
  <2>3. WorkTypes'
    BY <1>2 DEF CheckDuplicate, Unlink
  <2>4. PurgeTypes'
    BY <1>2 DEF CheckDuplicate, Unlink
  <2>5. QED
    BY <2>1, <2>2, <2>3, <2>4
<1>3. ASSUME NEW s \in Scans, Insert(s) PROVE TypeOK'
  BY <1>3 DEF Insert, NewRow, SetStatus
<1>4. ASSUME NEW s \in Scans, InsertThrows(s) PROVE TypeOK'
  <2>1. RowTypes'
    <3>1. CASE UNCHANGED rowVars
      BY <3>1
    <3>2. CASE SetStatus(s, "queued", TRUE) /\ UNCHANGED attempts
      <4> HIDE DEF RowTypes
      <4>1. QED
        BY <3>2, SetStatusTypes
    <3>3. QED
      BY <1>4, <3>1, <3>2 DEF InsertThrows, NewRow
  <2>2. StoreTypes'
    BY <1>4 DEF InsertThrows, NewRow, SetStatus, RemoveUpload, Unlink
  <2>3. WorkTypes'
    BY <1>4 DEF InsertThrows, NewRow, SetStatus, RemoveUpload, Unlink
  <2>4. PurgeTypes'
    BY <1>4 DEF InsertThrows, NewRow, SetStatus, RemoveUpload, Unlink
  <2>5. QED
    BY <2>1, <2>2, <2>3, <2>4
<1>5. ASSUME NEW s \in Scans, BackoffElapses(s) PROVE TypeOK'
  BY <1>5 DEF BackoffElapses
<1>6. ASSUME NEW s \in Scans, VisibilityElapses(s) PROVE TypeOK'
  BY <1>6 DEF VisibilityElapses
<1>7. ASSUME NEW s \in Scans, ConfirmScan(s) PROVE TypeOK'
  BY <1>7 DEF ConfirmScan, SetStatus
<1>8. ASSUME NEW s \in Scans, PurgeSelect(s) PROVE TypeOK'
  BY <1>8 DEF PurgeSelect, Idle
<1>9. ASSUME NEW s \in Scans, PurgeFailedFile(s) PROVE TypeOK'
  <2>1. FileTypes'
    BY <1>9, UnlinkTypes DEF PurgeFailedFile, FileTypes
  <2>2. path' \in [Scans -> BOOLEAN]
    BY <1>9 DEF PurgeFailedFile
  <2>3. QED
    BY <1>9, <2>1, <2>2 DEF PurgeFailedFile, FileTypes
<1>10. ASSUME NEW w \in Workers, NEW s \in Scans, ClaimNextJob(w, s) PROVE TypeOK'
  BY <1>10 DEF ClaimNextJob, Claimable
<1>11. ASSUME NEW w \in Workers, ProcessScanJob(w) PROVE TypeOK'
  <2>1. RowTypes'
    BY <1>11 DEF ProcessScanJob, Unlink
  <2>2. StoreTypes'
    <3>1. FileTypes'
      <4>1. job[w] \in Scans
        BY <1>11 DEF ProcessScanJob
      <4>2. QED
        BY <1>11, <4>1, UnlinkTypes DEF ProcessScanJob, FileTypes
    <3>2. QED
      BY <1>11, <3>1 DEF ProcessScanJob, FileTypes
  <2>3. WorkTypes'
    <3>1. \E p \in {"commit", "fail"} : pc' = [pc EXCEPT ![w] = p]
      BY <1>11 DEF ProcessScanJob, Unlink
    <3>2. \E f \in BOOLEAN : final' = final \/ final' = [final EXCEPT ![w] = f]
      BY <1>11 DEF ProcessScanJob, Unlink
    <3>3. pc[w] = "work" /\ UNCHANGED <<job, stopping>>
      BY <1>11 DEF ProcessScanJob, Unlink
    <3>4. QED
      BY <3>1, <3>2, <3>3
  <2>4. PurgeTypes'
    BY <1>11 DEF ProcessScanJob, Unlink
  <2>5. QED
    BY <2>1, <2>2, <2>3, <2>4
<1>12. ASSUME NEW w \in Workers, CommitScanResults(w) PROVE TypeOK'
  BY <1>12 DEF CommitScanResults, Commit, SetStatus, Finish, Fenced
<1>13. ASSUME NEW w \in Workers, CommitThrows(w) PROVE TypeOK'
  BY <1>13 DEF CommitThrows, Throws
<1>13a. ASSUME NEW w \in Workers, CommitAnswerLost(w) PROVE TypeOK'
  BY <1>13a DEF CommitAnswerLost, Commit, Throws, SetStatus, Fenced
<1>14. ASSUME NEW w \in Workers, FailScanJob(w) PROVE TypeOK'
  <2>1. RowTypes'
    <3>1. CASE UNCHANGED <<status, owner, due, stale>>
      BY <1>14, <3>1 DEF FailScanJob
    <3>2. CASE \E st \in {"queued", "failed"} : SetStatus(job[w], st, FALSE)
      <4>1. job[w] \in Scans /\ UNCHANGED attempts
        BY <1>14 DEF FailScanJob
      <4> HIDE DEF RowTypes
      <4>2. QED
        BY <3>2, <4>1, SetStatusTypes
    <3>3. QED
      BY <1>14, <3>1, <3>2 DEF FailScanJob
  <2>2. StoreTypes'
    BY <1>14 DEF FailScanJob, SetStatus, Finish, Exhausted
  <2>3. WorkTypes'
    BY <1>14 DEF FailScanJob, SetStatus, Finish, Exhausted
  <2>4. PurgeTypes'
    BY <1>14 DEF FailScanJob, SetStatus, Finish, Exhausted
  <2>5. QED
    BY <2>1, <2>2, <2>3, <2>4
<1>15. ASSUME NEW w \in Workers, RecoverStuckJobs(w) PROVE TypeOK'
  BY <1>15 DEF RecoverStuckJobs, Stuck, Exhausted
<1>16. ASSUME NEW w \in Workers, Crash(w) PROVE TypeOK'
  BY <1>16 DEF Crash, Gone
<1>17. ASSUME NEW w \in Workers, Stop(w) PROVE TypeOK'
  <2>1. RowTypes'
    <3>1. job[w] \in Scans /\ UNCHANGED attempts
      BY <1>17 DEF Stop
    <3>2. CASE Fenced(w)
      <4>1. SetStatus(job[w], "queued", TRUE)
        BY <1>17, <3>2 DEF Stop
      <4> HIDE DEF RowTypes
      <4>2. QED
        BY <3>1, <4>1, SetStatusTypes
    <3>3. CASE ~Fenced(w)
      BY <1>17, <3>3 DEF Stop
    <3>4. QED
      BY <3>2, <3>3
  <2>2. StoreTypes'
    BY <1>17 DEF Stop, SetStatus, Fenced
  <2>3. WorkTypes'
    BY <1>17 DEF Stop, SetStatus, Fenced
  <2>4. PurgeTypes'
    BY <1>17 DEF Stop, SetStatus, Fenced
  <2>5. QED
    BY <2>1, <2>2, <2>3, <2>4
<1>18. ASSUME NEW w \in Workers, Exit(w) PROVE TypeOK'
  BY <1>18 DEF Exit, Gone
<1>19. ASSUME NEW w \in Workers, Restart(w) PROVE TypeOK'
  BY <1>19 DEF Restart
<1>20. ASSUME PurgeUnlink PROVE TypeOK'
  <2>1. FileTypes'
    <3>1. purge.scan \in Scans
      BY <1>20 DEF PurgeUnlink
    <3>2. QED
      BY <1>20, <3>1, UnlinkTypes DEF PurgeUnlink, UnlinkNamed, FileTypes
  <2>2. QED
    BY <1>20, <2>1 DEF PurgeUnlink, Proceed, Then, FileTypes
<1>21. ASSUME PurgeUpdate PROVE TypeOK'
  BY <1>21 DEF PurgeUpdate, Proceed, Then, SetStatus
<1>22. ASSUME PurgeDelete PROVE TypeOK'
  BY <1>22 DEF PurgeDelete, Proceed, Then
<1>23. ASSUME PurgeFails PROVE TypeOK'
  BY <1>23 DEF PurgeFails, Idle
<1>24. CASE UNCHANGED vars
  BY <1>24
<1>25. QED
  BY <1>1, <1>2, <1>3, <1>4, <1>5, <1>6, <1>7, <1>8, <1>9, <1>10, <1>11, <1>12,
     <1>13, <1>13a, <1>14, <1>15, <1>16, <1>17, <1>18, <1>19, <1>20, <1>21, <1>22, <1>23, <1>24
  DEF Next, WorkerStep

\* Rows are never deleted, so the row a worker or the purge works on stays.
LEMMA RowsStep ==
  ASSUME TypeOK, TypeOK', RowsExist, [Next]_vars
  PROVE  RowsExist'
<1> USE DEF vars, rowVars, workVars, histVars,
            TypeOK, RowTypes, StoreTypes, WorkTypes, PurgeTypes, Settled,
            RowsExist
<1>1. ASSUME NEW s \in Scans, Receive(s) PROVE RowsExist'
  BY <1>1 DEF Receive
<1>2. ASSUME NEW s \in Scans, CheckDuplicate(s) PROVE RowsExist'
  BY <1>2 DEF CheckDuplicate, Unlink
<1>3. ASSUME NEW s \in Scans, Insert(s) PROVE RowsExist'
  BY <1>3 DEF Insert, NewRow, SetStatus
<1>4. ASSUME NEW s \in Scans, InsertThrows(s) PROVE RowsExist'
  BY <1>4 DEF InsertThrows, NewRow, SetStatus, RemoveUpload, Unlink
<1>5. ASSUME NEW s \in Scans, BackoffElapses(s) PROVE RowsExist'
  BY <1>5 DEF BackoffElapses
<1>6. ASSUME NEW s \in Scans, VisibilityElapses(s) PROVE RowsExist'
  BY <1>6 DEF VisibilityElapses
<1>7. ASSUME NEW s \in Scans, ConfirmScan(s) PROVE RowsExist'
  BY <1>7 DEF ConfirmScan, SetStatus, Held
<1>8. ASSUME NEW s \in Scans, PurgeSelect(s) PROVE RowsExist'
  BY <1>8 DEF PurgeSelect, Idle
<1>9. ASSUME NEW s \in Scans, PurgeFailedFile(s) PROVE RowsExist'
  BY <1>9 DEF PurgeFailedFile, Unlink
<1>10. ASSUME NEW w \in Workers, NEW s \in Scans, ClaimNextJob(w, s) PROVE RowsExist'
  BY <1>10 DEF ClaimNextJob, Claimable
<1>11. ASSUME NEW w \in Workers, ProcessScanJob(w) PROVE RowsExist'
  BY <1>11 DEF ProcessScanJob, Unlink
<1>12. ASSUME NEW w \in Workers, CommitScanResults(w) PROVE RowsExist'
  BY <1>12 DEF CommitScanResults, Commit, SetStatus, Finish, Fenced
<1>13. ASSUME NEW w \in Workers, CommitThrows(w) PROVE RowsExist'
  BY <1>13 DEF CommitThrows, Throws
<1>13a. ASSUME NEW w \in Workers, CommitAnswerLost(w) PROVE RowsExist'
  BY <1>13a DEF CommitAnswerLost, Commit, Throws, SetStatus, Fenced
<1>14. ASSUME NEW w \in Workers, FailScanJob(w) PROVE RowsExist'
  BY <1>14 DEF FailScanJob, SetStatus, Finish, Exhausted
<1>15. ASSUME NEW w \in Workers, RecoverStuckJobs(w) PROVE RowsExist'
  BY <1>15 DEF RecoverStuckJobs, Stuck, Exhausted
<1>16. ASSUME NEW w \in Workers, Crash(w) PROVE RowsExist'
  BY <1>16 DEF Crash, Gone
<1>17. ASSUME NEW w \in Workers, Stop(w) PROVE RowsExist'
  BY <1>17 DEF Stop, SetStatus, Fenced
<1>18. ASSUME NEW w \in Workers, Exit(w) PROVE RowsExist'
  BY <1>18 DEF Exit, Gone
<1>19. ASSUME NEW w \in Workers, Restart(w) PROVE RowsExist'
  BY <1>19 DEF Restart
<1>20. ASSUME PurgeUnlink PROVE RowsExist'
  BY <1>20 DEF PurgeUnlink, UnlinkNamed, Unlink, Proceed, Then
<1>21. ASSUME PurgeUpdate PROVE RowsExist'
  BY <1>21 DEF PurgeUpdate, Proceed, Then, SetStatus, Held
<1>22. ASSUME PurgeDelete PROVE RowsExist'
  BY <1>22 DEF PurgeDelete, Proceed, Then
<1>23. ASSUME PurgeFails PROVE RowsExist'
  BY <1>23 DEF PurgeFails, Idle
<1>24. CASE UNCHANGED vars
  BY <1>24
<1>25. QED
  BY <1>1, <1>2, <1>3, <1>4, <1>5, <1>6, <1>7, <1>8, <1>9, <1>10, <1>11, <1>12,
     <1>13, <1>13a, <1>14, <1>15, <1>16, <1>17, <1>18, <1>19, <1>20, <1>21, <1>22, <1>23, <1>24
  DEF Next, WorkerStep

\* Every action that writes 'queued' has looked at the attempts, or records the
\* document in cut.
LEMMA StrandedStep ==
  ASSUME TypeOK, TypeOK', RowsExist, NoStrandedScan, [Next]_vars
  PROVE  NoStrandedScan'
<1> USE DEF vars, rowVars, workVars, histVars,
            TypeOK, RowTypes, StoreTypes, WorkTypes, PurgeTypes, Settled,
            RowsExist, NoStrandedScan
<1>1. ASSUME NEW s \in Scans, Receive(s) PROVE NoStrandedScan'
  BY <1>1 DEF Receive
<1>2. ASSUME NEW s \in Scans, CheckDuplicate(s) PROVE NoStrandedScan'
  BY <1>2 DEF CheckDuplicate, Unlink
<1>3. ASSUME NEW s \in Scans, Insert(s) PROVE NoStrandedScan'
  BY <1>3 DEF Insert, NewRow, SetStatus
<1>4. ASSUME NEW s \in Scans, InsertThrows(s) PROVE NoStrandedScan'
  BY <1>4 DEF InsertThrows, NewRow, SetStatus, RemoveUpload, Unlink
<1>5. ASSUME NEW s \in Scans, BackoffElapses(s) PROVE NoStrandedScan'
  BY <1>5 DEF BackoffElapses
<1>6. ASSUME NEW s \in Scans, VisibilityElapses(s) PROVE NoStrandedScan'
  BY <1>6 DEF VisibilityElapses
<1>7. ASSUME NEW s \in Scans, ConfirmScan(s) PROVE NoStrandedScan'
  BY <1>7 DEF ConfirmScan, SetStatus
<1>8. ASSUME NEW s \in Scans, PurgeSelect(s) PROVE NoStrandedScan'
  BY <1>8 DEF PurgeSelect, Idle
<1>9. ASSUME NEW s \in Scans, PurgeFailedFile(s) PROVE NoStrandedScan'
  BY <1>9 DEF PurgeFailedFile, Unlink
<1>10. ASSUME NEW w \in Workers, NEW s \in Scans, ClaimNextJob(w, s) PROVE NoStrandedScan'
  BY <1>10 DEF ClaimNextJob, Claimable
<1>11. ASSUME NEW w \in Workers, ProcessScanJob(w) PROVE NoStrandedScan'
  BY <1>11 DEF ProcessScanJob, Unlink
<1>12. ASSUME NEW w \in Workers, CommitScanResults(w) PROVE NoStrandedScan'
  BY <1>12 DEF CommitScanResults, Commit, SetStatus, Finish, Fenced
<1>13. ASSUME NEW w \in Workers, CommitThrows(w) PROVE NoStrandedScan'
  BY <1>13 DEF CommitThrows, Throws
<1>13a. ASSUME NEW w \in Workers, CommitAnswerLost(w) PROVE NoStrandedScan'
  BY <1>13a DEF CommitAnswerLost, Commit, Throws, SetStatus, Fenced
<1>14. ASSUME NEW w \in Workers, FailScanJob(w) PROVE NoStrandedScan'
  BY <1>14 DEF FailScanJob, SetStatus, Finish, Exhausted
<1>15. ASSUME NEW w \in Workers, RecoverStuckJobs(w) PROVE NoStrandedScan'
  BY <1>15 DEF RecoverStuckJobs, Stuck, Exhausted
<1>16. ASSUME NEW w \in Workers, Crash(w) PROVE NoStrandedScan'
  BY <1>16 DEF Crash, Gone
<1>17. ASSUME NEW w \in Workers, Stop(w) PROVE NoStrandedScan'
  BY <1>17 DEF Stop, SetStatus, Fenced, Exhausted
<1>18. ASSUME NEW w \in Workers, Exit(w) PROVE NoStrandedScan'
  BY <1>18 DEF Exit, Gone
<1>19. ASSUME NEW w \in Workers, Restart(w) PROVE NoStrandedScan'
  BY <1>19 DEF Restart
<1>20. ASSUME PurgeUnlink PROVE NoStrandedScan'
  BY <1>20 DEF PurgeUnlink, UnlinkNamed, Unlink, Proceed, Then
<1>21. ASSUME PurgeUpdate PROVE NoStrandedScan'
  BY <1>21 DEF PurgeUpdate, Proceed, Then, SetStatus
<1>22. ASSUME PurgeDelete PROVE NoStrandedScan'
  BY <1>22 DEF PurgeDelete, Proceed, Then
<1>23. ASSUME PurgeFails PROVE NoStrandedScan'
  BY <1>23 DEF PurgeFails, Idle
<1>24. CASE UNCHANGED vars
  BY <1>24
<1>25. QED
  BY <1>1, <1>2, <1>3, <1>4, <1>5, <1>6, <1>7, <1>8, <1>9, <1>10, <1>11, <1>12,
     <1>13, <1>13a, <1>14, <1>15, <1>16, <1>17, <1>18, <1>19, <1>20, <1>21, <1>22, <1>23, <1>24
  DEF Next, WorkerStep

\* With one worker nobody else releases its claim: the recovery runs only when
\* it is idle.
LEMMA ClaimStep ==
  ASSUME TypeOK, TypeOK', RowsExist, ClaimKept, \A v, w \in Workers : v = w, [Next]_vars
  PROVE  ClaimKept'
<1> USE DEF vars, rowVars, workVars, histVars,
            TypeOK, RowTypes, StoreTypes, WorkTypes, PurgeTypes, Settled,
            RowsExist, ClaimKept, Fenced
<1>1. ASSUME NEW s \in Scans, Receive(s) PROVE ClaimKept'
  BY <1>1 DEF Receive
<1>2. ASSUME NEW s \in Scans, CheckDuplicate(s) PROVE ClaimKept'
  BY <1>2 DEF CheckDuplicate, Unlink
<1>3. ASSUME NEW s \in Scans, Insert(s) PROVE ClaimKept'
  BY <1>3 DEF Insert, NewRow, SetStatus
<1>4. ASSUME NEW s \in Scans, InsertThrows(s) PROVE ClaimKept'
  BY <1>4 DEF InsertThrows, NewRow, SetStatus, RemoveUpload, Unlink
<1>5. ASSUME NEW s \in Scans, BackoffElapses(s) PROVE ClaimKept'
  BY <1>5 DEF BackoffElapses
<1>6. ASSUME NEW s \in Scans, VisibilityElapses(s) PROVE ClaimKept'
  BY <1>6 DEF VisibilityElapses
<1>7. ASSUME NEW s \in Scans, ConfirmScan(s) PROVE ClaimKept'
  BY <1>7 DEF ConfirmScan, SetStatus, Held
<1>8. ASSUME NEW s \in Scans, PurgeSelect(s) PROVE ClaimKept'
  BY <1>8 DEF PurgeSelect, Idle
<1>9. ASSUME NEW s \in Scans, PurgeFailedFile(s) PROVE ClaimKept'
  BY <1>9 DEF PurgeFailedFile, Unlink
<1>10. ASSUME NEW w \in Workers, NEW s \in Scans, ClaimNextJob(w, s) PROVE ClaimKept'
  BY <1>10 DEF ClaimNextJob, Claimable
<1>11. ASSUME NEW w \in Workers, ProcessScanJob(w) PROVE ClaimKept'
  BY <1>11 DEF ProcessScanJob, Unlink
<1>12. ASSUME NEW w \in Workers, CommitScanResults(w) PROVE ClaimKept'
  BY <1>12 DEF CommitScanResults, Commit, SetStatus, Finish
<1>13. ASSUME NEW w \in Workers, CommitThrows(w) PROVE ClaimKept'
  BY <1>13 DEF CommitThrows, Throws
<1>13a. ASSUME NEW w \in Workers, CommitAnswerLost(w) PROVE ClaimKept'
  BY <1>13a DEF CommitAnswerLost, Commit, Throws, SetStatus, Fenced
<1>14. ASSUME NEW w \in Workers, FailScanJob(w) PROVE ClaimKept'
  BY <1>14 DEF FailScanJob, SetStatus, Finish, Exhausted
<1>15. ASSUME NEW w \in Workers, RecoverStuckJobs(w) PROVE ClaimKept'
  BY <1>15 DEF RecoverStuckJobs, Stuck, Exhausted
<1>16. ASSUME NEW w \in Workers, Crash(w) PROVE ClaimKept'
  BY <1>16 DEF Crash, Gone
<1>17. ASSUME NEW w \in Workers, Stop(w) PROVE ClaimKept'
  BY <1>17 DEF Stop, SetStatus, Fenced, Exhausted
<1>18. ASSUME NEW w \in Workers, Exit(w) PROVE ClaimKept'
  BY <1>18 DEF Exit, Gone
<1>19. ASSUME NEW w \in Workers, Restart(w) PROVE ClaimKept'
  BY <1>19 DEF Restart
<1>20. ASSUME PurgeUnlink PROVE ClaimKept'
  BY <1>20 DEF PurgeUnlink, UnlinkNamed, Unlink, Proceed, Then
<1>21. ASSUME PurgeUpdate PROVE ClaimKept'
  BY <1>21 DEF PurgeUpdate, Proceed, Then, SetStatus, Held
<1>22. ASSUME PurgeDelete PROVE ClaimKept'
  BY <1>22 DEF PurgeDelete, Proceed, Then
<1>23. ASSUME PurgeFails PROVE ClaimKept'
  BY <1>23 DEF PurgeFails, Idle
<1>24. CASE UNCHANGED vars
  BY <1>24
<1>25. QED
  BY <1>1, <1>2, <1>3, <1>4, <1>5, <1>6, <1>7, <1>8, <1>9, <1>10, <1>11, <1>12,
     <1>13, <1>13a, <1>14, <1>15, <1>16, <1>17, <1>18, <1>19, <1>20, <1>21, <1>22, <1>23, <1>24
  DEF Next, WorkerStep

\* The file of a purged row is gone before the row is marked, or its removal failed
\* and is on record, and only an upload in progress, which has no row, makes a file.
LEMMA PurgeStep ==
  ASSUME TypeOK, TypeOK', RowsExist, PurgeOrder, NoOrphanFile, PurgedKeepsNothing, [Next]_vars
  PROVE  (PurgeOrder /\ NoOrphanFile /\ PurgedKeepsNothing)'
<1> USE DEF vars, rowVars, workVars, histVars,
            TypeOK, RowTypes, StoreTypes, WorkTypes, PurgeTypes, Settled,
            RowsExist, PurgeOrder, Unlinked, NoOrphanFile, PurgedKeepsNothing
<1>1. ASSUME NEW s \in Scans, Receive(s)
      PROVE  (PurgeOrder /\ NoOrphanFile /\ PurgedKeepsNothing)'
  BY <1>1 DEF Receive
<1>2. ASSUME NEW s \in Scans, CheckDuplicate(s)
      PROVE  (PurgeOrder /\ NoOrphanFile /\ PurgedKeepsNothing)'
  BY <1>2 DEF CheckDuplicate, Unlink
<1>3. ASSUME NEW s \in Scans, Insert(s)
      PROVE  (PurgeOrder /\ NoOrphanFile /\ PurgedKeepsNothing)'
  BY <1>3 DEF Insert, NewRow, SetStatus
<1>4. ASSUME NEW s \in Scans, InsertThrows(s)
      PROVE  (PurgeOrder /\ NoOrphanFile /\ PurgedKeepsNothing)'
  BY <1>4 DEF InsertThrows, NewRow, SetStatus, RemoveUpload, Unlink
<1>5. ASSUME NEW s \in Scans, BackoffElapses(s)
      PROVE  (PurgeOrder /\ NoOrphanFile /\ PurgedKeepsNothing)'
  BY <1>5 DEF BackoffElapses
<1>6. ASSUME NEW s \in Scans, VisibilityElapses(s)
      PROVE  (PurgeOrder /\ NoOrphanFile /\ PurgedKeepsNothing)'
  BY <1>6 DEF VisibilityElapses
<1>7. ASSUME NEW s \in Scans, ConfirmScan(s)
      PROVE  (PurgeOrder /\ NoOrphanFile /\ PurgedKeepsNothing)'
  BY <1>7 DEF ConfirmScan, SetStatus
<1>8. ASSUME NEW s \in Scans, PurgeSelect(s)
      PROVE  (PurgeOrder /\ NoOrphanFile /\ PurgedKeepsNothing)'
  BY <1>8 DEF PurgeSelect, Idle
<1>9. ASSUME NEW s \in Scans, PurgeFailedFile(s)
      PROVE  (PurgeOrder /\ NoOrphanFile /\ PurgedKeepsNothing)'
  BY <1>9 DEF PurgeFailedFile, Unlink
<1>10. ASSUME NEW w \in Workers, NEW s \in Scans, ClaimNextJob(w, s)
       PROVE  (PurgeOrder /\ NoOrphanFile /\ PurgedKeepsNothing)'
  BY <1>10 DEF ClaimNextJob, Claimable
<1>11. ASSUME NEW w \in Workers, ProcessScanJob(w)
       PROVE  (PurgeOrder /\ NoOrphanFile /\ PurgedKeepsNothing)'
  BY <1>11 DEF ProcessScanJob, Unlink
<1>12. ASSUME NEW w \in Workers, CommitScanResults(w)
       PROVE  (PurgeOrder /\ NoOrphanFile /\ PurgedKeepsNothing)'
  BY <1>12 DEF CommitScanResults, Commit, SetStatus, Finish, Fenced
<1>13. ASSUME NEW w \in Workers, CommitThrows(w)
       PROVE  (PurgeOrder /\ NoOrphanFile /\ PurgedKeepsNothing)'
  BY <1>13 DEF CommitThrows, Throws
<1>13a. ASSUME NEW w \in Workers, CommitAnswerLost(w)
        PROVE  (PurgeOrder /\ NoOrphanFile /\ PurgedKeepsNothing)'
  BY <1>13a DEF CommitAnswerLost, Commit, Throws, SetStatus, Fenced
<1>14. ASSUME NEW w \in Workers, FailScanJob(w)
       PROVE  (PurgeOrder /\ NoOrphanFile /\ PurgedKeepsNothing)'
  BY <1>14 DEF FailScanJob, SetStatus, Finish
<1>15. ASSUME NEW w \in Workers, RecoverStuckJobs(w)
       PROVE  (PurgeOrder /\ NoOrphanFile /\ PurgedKeepsNothing)'
  BY <1>15 DEF RecoverStuckJobs, Stuck, Exhausted
<1>16. ASSUME NEW w \in Workers, Crash(w)
       PROVE  (PurgeOrder /\ NoOrphanFile /\ PurgedKeepsNothing)'
  BY <1>16 DEF Crash, Gone
<1>17. ASSUME NEW w \in Workers, Stop(w)
       PROVE  (PurgeOrder /\ NoOrphanFile /\ PurgedKeepsNothing)'
  BY <1>17 DEF Stop, SetStatus, Fenced
<1>18. ASSUME NEW w \in Workers, Exit(w)
       PROVE  (PurgeOrder /\ NoOrphanFile /\ PurgedKeepsNothing)'
  BY <1>18 DEF Exit, Gone
<1>19. ASSUME NEW w \in Workers, Restart(w)
       PROVE  (PurgeOrder /\ NoOrphanFile /\ PurgedKeepsNothing)'
  BY <1>19 DEF Restart
<1>20. ASSUME PurgeUnlink PROVE (PurgeOrder /\ NoOrphanFile /\ PurgedKeepsNothing)'
  BY <1>20 DEF PurgeUnlink, UnlinkNamed, Unlink, Proceed, Then
<1>21. ASSUME PurgeUpdate PROVE (PurgeOrder /\ NoOrphanFile /\ PurgedKeepsNothing)'
  BY <1>21 DEF PurgeUpdate, Proceed, Then, SetStatus
<1>22. ASSUME PurgeDelete PROVE (PurgeOrder /\ NoOrphanFile /\ PurgedKeepsNothing)'
  BY <1>22 DEF PurgeDelete, Proceed, Then
<1>23. ASSUME PurgeFails PROVE (PurgeOrder /\ NoOrphanFile /\ PurgedKeepsNothing)'
  BY <1>23 DEF PurgeFails, Idle
<1>24. CASE UNCHANGED vars
  BY <1>24
<1>25. QED
  BY <1>1, <1>2, <1>3, <1>4, <1>5, <1>6, <1>7, <1>8, <1>9, <1>10, <1>11, <1>12,
     <1>13, <1>13a, <1>14, <1>15, <1>16, <1>17, <1>18, <1>19, <1>20, <1>21, <1>22, <1>23, <1>24
  DEF Next, WorkerStep

\* Of the rows the lifecycle speaks of, the step changes at most s.
OnlyRow(s) ==
  \A t \in Scans \ {s} : /\ status'[t] = status[t] /\ attempts'[t] = attempts[t]
                         /\ t \in raced' <=> t \in raced

\* The changes of one document that ScanLifecycle allows, or none.
Moves(s) ==
  \/ Phase(s) = "none" /\ Phase(s)' = "pending" /\ Tries(s)' = Tries(s)
  \/ /\ Phase(s) = "pending" /\ Phase(s)' = "running"
     /\ Tries(s) < MaxAttempts /\ Tries(s)' = Tries(s) + 1
  \/ /\ Phase(s) = "running" /\ Phase(s)' = "pending"
     /\ Tries(s) < MaxAttempts /\ Tries(s)' = Tries(s)
  \/ /\ Phase(s) = "running" /\ Phase(s)' = "stranded"
     /\ Tries(s) = MaxAttempts /\ Tries(s)' = Tries(s)
  \/ Phase(s) \in {"pending", "running", "stranded"} /\ Phase(s)' = "settled"
  \/ Phase(s)' = Phase(s) /\ Tries(s)' = Tries(s)

\* The refinement mapping changes at most at that row.
LEMMA OneRow ==
  ASSUME NEW s \in Scans, OnlyRow(s)
  PROVE  /\ PhaseMap' = [PhaseMap EXCEPT ![s] = Phase(s)']
         /\ TriesMap' = [TriesMap EXCEPT ![s] = Tries(s)']
<1>1. ASSUME NEW t \in Scans \ {s}
      PROVE  Phase(t)' = Phase(t) /\ Tries(t)' = Tries(t)
  <2>1. status'[t] = status[t] /\ attempts'[t] = attempts[t] /\ (t \in raced' <=> t \in raced)
    BY <1>1 DEF OnlyRow
  <2>2. Phase(t)' = Phase(t)
    BY <2>1 DEF Phase, Exhausted
  <2>3. QED
    BY <2>1, <2>2 DEF Tries
<1>3. QED
  BY <1>1 DEF PhaseMap, TriesMap

\* It changes nowhere if no status, no attempts and no history of races do.
LEMMA NoRow ==
  ASSUME UNCHANGED <<status, attempts, raced>>
  PROVE  UNCHANGED <<PhaseMap, TriesMap>>
<1>1. \A t \in Scans : Phase(t)' = Phase(t)
  BY DEF Phase, Exhausted
<1>2. \A t \in Scans : Tries(t)' = Tries(t)
  BY <1>1 DEF Tries
<1>3. QED
  BY <1>1, <1>2 DEF PhaseMap, TriesMap

\* An allowed change of one document is a step of ScanLifecycle.
LEMMA PhaseStep ==
  ASSUME NEW s \in Scans, OnlyRow(s), Moves(s)
  PROVE  Lifecycle!Next \/ UNCHANGED Lifecycle!vars
<1>1. /\ PhaseMap' = [PhaseMap EXCEPT ![s] = Phase(s)']
      /\ TriesMap' = [TriesMap EXCEPT ![s] = Tries(s)']
  BY OneRow
<1>2. PhaseMap[s] = Phase(s) /\ TriesMap[s] = Tries(s)
  BY DEF PhaseMap, TriesMap
<1>3. Phase(s)' = "settled" => Tries(s)' = 0
  BY DEF Tries
<1>0. /\ PhaseMap = [PhaseMap EXCEPT ![s] = PhaseMap[s]] 
      /\ TriesMap = [TriesMap EXCEPT ![s] = TriesMap[s]]
  BY DEF PhaseMap, TriesMap
<1> HIDE DEF Phase, Tries, PhaseMap, TriesMap
<1>4. CASE Phase(s) = "none" /\ Phase(s)' = "pending" /\ Tries(s)' = Tries(s)
  <2>1. Lifecycle!Accept(s)
    BY <1>1, <1>2, <1>4, <1>0 DEF Lifecycle!Accept, Lifecycle!Go
  <2>2. QED
    BY <2>1 DEF Lifecycle!Next
<1>5. CASE /\ Phase(s) = "pending" /\ Phase(s)' = "running"
           /\ Tries(s) < MaxAttempts /\ Tries(s)' = Tries(s) + 1
  <2>1. Lifecycle!Start(s)
    BY <1>1, <1>2, <1>5 DEF Lifecycle!Start, Lifecycle!Go
  <2>2. QED
    BY <2>1 DEF Lifecycle!Next
<1>6. CASE /\ Phase(s) = "running" /\ Phase(s)' = "pending"
           /\ Tries(s) < MaxAttempts /\ Tries(s)' = Tries(s)
  <2>1. Lifecycle!GiveBack(s)
    BY <1>1, <1>2, <1>6, <1>0 DEF Lifecycle!GiveBack, Lifecycle!Go
  <2>2. QED
    BY <2>1 DEF Lifecycle!Next
<1>7. CASE /\ Phase(s) = "running" /\ Phase(s)' = "stranded"
           /\ Tries(s) = MaxAttempts /\ Tries(s)' = Tries(s)
  <2>1. Lifecycle!CutOff(s)
    BY <1>1, <1>2, <1>7, <1>0 DEF Lifecycle!CutOff, Lifecycle!Go
  <2>2. QED
    BY <2>1 DEF Lifecycle!Next
<1>8. CASE Phase(s) \in {"pending", "running", "stranded"} /\ Phase(s)' = "settled"
  <2>1. Lifecycle!Settle(s)
    BY <1>1, <1>2, <1>3, <1>8 DEF Lifecycle!Settle, Lifecycle!Go
  <2>2. QED
    BY <2>1 DEF Lifecycle!Next
<1>9. CASE Phase(s)' = Phase(s) /\ Tries(s)' = Tries(s)
  BY <1>1, <1>2, <1>0, <1>9 DEF Lifecycle!vars
<1>10. QED
  BY <1>4, <1>5, <1>6, <1>7, <1>8, <1>9 DEF Moves

\* The recovery is one lifecycle step over all the stuck rows, but for the
\* raced ones, which are settled already.
LEMMA RecoverStep ==
  ASSUME TypeOK, TypeOK', NEW w \in Workers, RecoverStuckJobs(w)
  PROVE  Lifecycle!Next
<1> DEFINE S == {s \in Scans : Stuck(s)} \ raced
<1>1. \A s \in S : PhaseMap[s] = "running"
  BY DEF PhaseMap, Phase, Stuck, Settled
<1>2. ASSUME NEW s \in Scans
      PROVE  /\ Phase(s)' = IF s \notin S THEN Phase(s)
                            ELSE IF Tries(s) < MaxAttempts THEN "pending" ELSE "settled"
             /\ Tries(s)' = IF Phase(s)' = "settled" THEN 0 ELSE Tries(s)
  BY DEF RecoverStuckJobs, Stuck, Phase, Tries, Exhausted, Settled, TypeOK, RowTypes,
         rowVars, workVars, histVars
<1>3. PhaseMap' = [s \in Scans |->
        IF s \notin S THEN PhaseMap[s]
        ELSE IF TriesMap[s] < MaxAttempts THEN "pending" ELSE "settled"]
  BY <1>2 DEF PhaseMap, TriesMap
<1>4. TriesMap' = [s \in Scans |-> IF PhaseMap'[s] = "settled" THEN 0 ELSE TriesMap[s]]
  BY <1>2 DEF PhaseMap, TriesMap
<1>5. S \in SUBSET Scans
  OBVIOUS
<1>6. Lifecycle!Recover
  <2> HIDE DEF S
  <2>1. QED
    BY <1>1, <1>3, <1>4, <1>5 DEF Lifecycle!Recover
<1>7. QED
  BY <1>6 DEF Lifecycle!Next

\* With one worker every step of the scanner is a step of ScanLifecycle, or
\* changes nothing that it speaks of.
LEMMA LifecycleStep ==
  ASSUME TypeOK, TypeOK', RowsExist, ClaimKept, \A v, w \in Workers : v = w, [Next]_vars
  PROVE  Lifecycle!Next \/ UNCHANGED Lifecycle!vars
<1> USE DEF vars, rowVars, workVars, histVars
<1>1. ASSUME NEW s \in Scans, Receive(s) PROVE Lifecycle!Next \/ UNCHANGED Lifecycle!vars
  BY <1>1, NoRow DEF Receive, Lifecycle!vars
<1>2. ASSUME NEW s \in Scans, CheckDuplicate(s)
      PROVE  Lifecycle!Next \/ UNCHANGED Lifecycle!vars
  BY <1>2, NoRow DEF CheckDuplicate, Unlink, Lifecycle!vars
<1>3. ASSUME NEW s \in Scans, Insert(s) PROVE Lifecycle!Next \/ UNCHANGED Lifecycle!vars
  <2>1. OnlyRow(s)
    BY <1>3 DEF Insert, NewRow, SetStatus, OnlyRow, TypeOK, RowTypes
  <2>2. Moves(s)
    BY <1>3
    DEF Insert, NewRow, SetStatus, Moves, Phase, Tries, Exhausted, TypeOK, RowTypes, RowsExist,
        Settled
  <2>3. QED
    BY <2>1, <2>2, PhaseStep
<1>4. ASSUME NEW s \in Scans, InsertThrows(s) PROVE Lifecycle!Next \/ UNCHANGED Lifecycle!vars
  <2>1. OnlyRow(s)
    BY <1>4 DEF InsertThrows, NewRow, SetStatus, RemoveUpload, Unlink, OnlyRow, TypeOK, RowTypes
  <2>2. Moves(s)
    BY <1>4
    DEF InsertThrows, NewRow, SetStatus, RemoveUpload, Unlink, Moves, Phase, Tries, Exhausted, TypeOK, RowTypes,
        RowsExist, Settled
  <2>3. QED
    BY <2>1, <2>2, PhaseStep
<1>5. ASSUME NEW s \in Scans, BackoffElapses(s)
      PROVE  Lifecycle!Next \/ UNCHANGED Lifecycle!vars
  BY <1>5, NoRow DEF BackoffElapses, Lifecycle!vars
<1>6. ASSUME NEW s \in Scans, VisibilityElapses(s)
      PROVE  Lifecycle!Next \/ UNCHANGED Lifecycle!vars
  BY <1>6, NoRow DEF VisibilityElapses, Lifecycle!vars
<1>7. ASSUME NEW s \in Scans, ConfirmScan(s) PROVE Lifecycle!Next \/ UNCHANGED Lifecycle!vars
  <2>1. OnlyRow(s)
    BY <1>7 DEF ConfirmScan, SetStatus, OnlyRow, TypeOK, RowTypes
  <2>2. Moves(s)
    BY <1>7
    DEF ConfirmScan, SetStatus, Moves, Phase, Tries, Exhausted, TypeOK, RowTypes,
        RowsExist, Settled
  <2>3. QED
    BY <2>1, <2>2, PhaseStep
<1>8. ASSUME NEW s \in Scans, PurgeSelect(s) PROVE Lifecycle!Next \/ UNCHANGED Lifecycle!vars
  BY <1>8, NoRow DEF PurgeSelect, Idle, Lifecycle!vars
<1>9. ASSUME NEW s \in Scans, PurgeFailedFile(s)
      PROVE  Lifecycle!Next \/ UNCHANGED Lifecycle!vars
  BY <1>9, NoRow DEF PurgeFailedFile, Unlink, Lifecycle!vars
<1>10. ASSUME NEW w \in Workers, NEW s \in Scans, ClaimNextJob(w, s)
       PROVE  Lifecycle!Next \/ UNCHANGED Lifecycle!vars
  <2>1. OnlyRow(s)
    BY <1>10 DEF ClaimNextJob, Claimable, OnlyRow, TypeOK, RowTypes
  <2>2. Moves(s)
    BY <1>10
    DEF ClaimNextJob, Claimable, Moves, Phase, Tries, Exhausted, TypeOK, RowTypes,
        RowsExist, Settled
  <2>3. QED
    BY <2>1, <2>2, PhaseStep
<1>11. ASSUME NEW w \in Workers, ProcessScanJob(w)
       PROVE  Lifecycle!Next \/ UNCHANGED Lifecycle!vars
  BY <1>11, NoRow DEF ProcessScanJob, Unlink, Lifecycle!vars
<1>12. ASSUME NEW w \in Workers, CommitScanResults(w)
       PROVE  Lifecycle!Next \/ UNCHANGED Lifecycle!vars
  <2>1. PICK s \in Scans : s = job[w]
    BY <1>12 DEF CommitScanResults, Commit, TypeOK, WorkTypes
  <2>2. OnlyRow(s)
    BY <1>12, <2>1 DEF CommitScanResults, Commit, SetStatus, OnlyRow, TypeOK, RowTypes
  <2>3. /\ status[s] = "processing" /\ status'[s] = "done"
        /\ raced' = raced /\ attempts' = attempts
    BY <1>12, <2>1 DEF CommitScanResults, Commit, Fenced, SetStatus, TypeOK, RowTypes
  <2>4. Moves(s)
    BY <2>1, <2>3 DEF Moves, Phase, Tries, Settled
  <2>5. QED
    BY <2>2, <2>4, PhaseStep
<1>13. ASSUME NEW w \in Workers, CommitThrows(w)
       PROVE  Lifecycle!Next \/ UNCHANGED Lifecycle!vars
  BY <1>13, NoRow DEF CommitThrows, Throws, Lifecycle!vars
<1>13a. ASSUME NEW w \in Workers, CommitAnswerLost(w)
        PROVE  Lifecycle!Next \/ UNCHANGED Lifecycle!vars
  <2>1. PICK s \in Scans : s = job[w]
    BY <1>13a DEF CommitAnswerLost, Commit, TypeOK, WorkTypes
  <2>2. OnlyRow(s)
    BY <1>13a, <2>1 DEF CommitAnswerLost, Commit, SetStatus, OnlyRow, TypeOK, RowTypes
  <2>3. /\ status[s] = "processing" /\ status'[s] = "done"
        /\ s \in raced' /\ attempts' = attempts
    BY <1>13a, <2>1 DEF CommitAnswerLost, Commit, Fenced, SetStatus, TypeOK, RowTypes
  <2>4. Moves(s)
    BY <2>1, <2>3 DEF Moves, Phase, Tries, Settled
  <2>5. QED
    BY <2>2, <2>4, PhaseStep
<1>14. ASSUME NEW w \in Workers, FailScanJob(w)
       PROVE  Lifecycle!Next \/ UNCHANGED Lifecycle!vars
  <2>1. PICK s \in Scans : s = job[w] /\ s # NoScan
    BY <1>14 DEF FailScanJob, TypeOK, WorkTypes
  <2>2. OnlyRow(s)
    BY <1>14, <2>1 DEF FailScanJob, SetStatus, OnlyRow, TypeOK, RowTypes
  <2>3. s \in raced \/ status[s] \in {"queued", "processing"}
    BY <2>1 DEF ClaimKept, Fenced
  <2>4. \/ status'[s] = "failed"
        \/ status'[s] = "queued" /\ ~Exhausted(s)
        \/ status'[s] = status[s]
    BY <1>14, <2>1 DEF FailScanJob, SetStatus, TypeOK, RowTypes
  <2>5. raced' = raced /\ attempts' = attempts
    BY <1>14 DEF FailScanJob
  <2>6. Moves(s)
    BY <2>3, <2>4, <2>5 DEF Moves, Phase, Tries, Exhausted, Settled, TypeOK, RowTypes
  <2>7. QED
    BY <2>2, <2>6, PhaseStep
<1>15. ASSUME NEW w \in Workers, RecoverStuckJobs(w)
       PROVE  Lifecycle!Next \/ UNCHANGED Lifecycle!vars
  BY <1>15, RecoverStep
<1>16. ASSUME NEW w \in Workers, Crash(w) PROVE Lifecycle!Next \/ UNCHANGED Lifecycle!vars
  BY <1>16, NoRow DEF Crash, Gone, Lifecycle!vars
<1>17. ASSUME NEW w \in Workers, Stop(w) PROVE Lifecycle!Next \/ UNCHANGED Lifecycle!vars
  <2>1. PICK s \in Scans : s = job[w]
    BY <1>17 DEF Stop, TypeOK, WorkTypes
  <2>2. OnlyRow(s)
    BY <1>17, <2>1 DEF Stop, SetStatus, Fenced, OnlyRow, TypeOK, RowTypes
  <2>3. Moves(s)
    BY <1>17, <2>1
    DEF Stop, SetStatus, Fenced, Moves, Phase, Tries, Exhausted, TypeOK, RowTypes,
        RowsExist, Settled
  <2>4. QED
    BY <2>2, <2>3, PhaseStep
<1>18. ASSUME NEW w \in Workers, Exit(w) PROVE Lifecycle!Next \/ UNCHANGED Lifecycle!vars
  BY <1>18, NoRow DEF Exit, Gone, Lifecycle!vars
<1>19. ASSUME NEW w \in Workers, Restart(w) PROVE Lifecycle!Next \/ UNCHANGED Lifecycle!vars
  BY <1>19, NoRow DEF Restart, Lifecycle!vars
<1>20. ASSUME PurgeUnlink PROVE Lifecycle!Next \/ UNCHANGED Lifecycle!vars
  BY <1>20, NoRow DEF PurgeUnlink, UnlinkNamed, Unlink, Proceed, Then, Lifecycle!vars
<1>21. ASSUME PurgeUpdate PROVE Lifecycle!Next \/ UNCHANGED Lifecycle!vars
  <2>1. PICK s \in Scans : s = purge.scan
    BY <1>21 DEF PurgeUpdate, TypeOK, PurgeTypes
  <2>2. OnlyRow(s)
    BY <1>21, <2>1 DEF PurgeUpdate, Proceed, Then, SetStatus, OnlyRow, TypeOK, RowTypes
  <2>3. Moves(s)
    BY <1>21, <2>1
    DEF PurgeUpdate, Proceed, Then, SetStatus, Moves, Phase, Tries, Exhausted, TypeOK,
        RowTypes, RowsExist, Settled
  <2>4. QED
    BY <2>2, <2>3, PhaseStep
<1>22. ASSUME PurgeDelete PROVE Lifecycle!Next \/ UNCHANGED Lifecycle!vars
  BY <1>22, NoRow DEF PurgeDelete, Proceed, Then, Lifecycle!vars
<1>23. ASSUME PurgeFails PROVE Lifecycle!Next \/ UNCHANGED Lifecycle!vars
  BY <1>23, NoRow DEF PurgeFails, Idle, Lifecycle!vars
<1>24. CASE UNCHANGED vars
  BY <1>24, NoRow DEF Lifecycle!vars
<1>25. QED
  BY <1>1, <1>2, <1>3, <1>4, <1>5, <1>6, <1>7, <1>8, <1>9, <1>10, <1>11, <1>12,
     <1>13, <1>13a, <1>14, <1>15, <1>16, <1>17, <1>18, <1>19, <1>20, <1>21, <1>22, <1>23, <1>24
  DEF Next, WorkerStep

\* Every variable keeps its type, and the lock, the timers and the jobs of the
\* workers agree with the state of the row and of the worker.
THEOREM TypeCorrect == Spec => []TypeOK
<1>1. Init => TypeOK
  BY DEF Init, Idle, TypeOK, RowTypes, StoreTypes, WorkTypes, PurgeTypes, Settled
<1>2. TypeOK /\ [Next]_vars => TypeOK'
  BY TypeStep
<1>3. QED
  BY <1>1, <1>2, PTL DEF Spec

\* Workers and the purge only ever hold rows that exist.
THEOREM RowsCorrect == Spec => []RowsExist
<1>1. Init => RowsExist
  BY DEF Init, Idle, RowsExist
<1>2. TypeOK /\ TypeOK' /\ RowsExist /\ [Next]_vars => RowsExist'
  BY RowsStep
<1>3. QED
  BY <1>1, <1>2, TypeCorrect, PTL DEF Spec

\* However many workers run and wherever they crash, a queued document has
\* attempts left, unless a shutdown cut off its last one.
THEOREM NeverStranded == Spec => []NoStrandedScan
<1>1. Init => NoStrandedScan
  BY DEF Init, NoStrandedScan
<1>2. TypeOK /\ TypeOK' /\ RowsExist /\ NoStrandedScan /\ [Next]_vars => NoStrandedScan'
  BY StrandedStep
<1>3. QED
  BY <1>1, <1>2, TypeCorrect, RowsCorrect, PTL DEF Spec

\* Files and purged rows, together: the purge unlinks before it marks the row,
\* and deletes the fields last.
THEOREM PurgeCorrect == Spec => [](PurgeOrder /\ NoOrphanFile /\ PurgedKeepsNothing)
<1>1. Init => PurgeOrder /\ NoOrphanFile /\ PurgedKeepsNothing
  BY DEF Init, Idle, PurgeOrder, NoOrphanFile, PurgedKeepsNothing
<1>2. /\ TypeOK /\ TypeOK' /\ RowsExist /\ PurgeOrder /\ NoOrphanFile /\ PurgedKeepsNothing
      /\ [Next]_vars
      => (PurgeOrder /\ NoOrphanFile /\ PurgedKeepsNothing)'
  BY PurgeStep
<1>3. QED
  BY <1>1, <1>2, TypeCorrect, RowsCorrect, PTL DEF Spec

\* No file outlives its upload and its row, however uploads and workers race, but
\* one whose removal was tried and failed (documentScanController.js:105-120,
\* scanRetentionPurgeJob.js:49-90).
THEOREM FilesCorrect == Spec => []NoOrphanFile
  BY PurgeCorrect, PTL

\* What was purged without failing half-way has left no data or fields, and no
\* file but one whose unlink failed (scanRetentionPurgeJob.js:40-110).
THEOREM PurgeLeavesNothing == Spec => []PurgedKeepsNothing
  BY PurgeCorrect, PTL

\* The scanner with a single worker implements ScanLifecycle: a document is run
\* at most MaxAttempts times, a run settles it or gives it back with runs left,
\* and what is settled stays so -- but for documents confirmed, purged or
\* committed without an answer while a worker held them, which _failScanJob may
\* requeue by id (scannerService.js:231-238, 324-357).
THEOREM ScannerImplementsLifecycle ==
  ASSUME \A v, w \in Workers : v = w
  PROVE  Spec => Implements
<1>1. Init => ClaimKept
  BY DEF Init, ClaimKept
<1>2. TypeOK /\ TypeOK' /\ RowsExist /\ ClaimKept /\ [Next]_vars => ClaimKept'
  BY ClaimStep
<1>3. Init => Lifecycle!Init
  BY DEF Init, Lifecycle!Init, PhaseMap, TriesMap, Phase, Tries, Settled
<1>4. TypeOK /\ TypeOK' /\ RowsExist /\ ClaimKept /\ [Next]_vars
        => [Lifecycle!Next]_(Lifecycle!vars)
  BY LifecycleStep
<1>5. QED
  BY <1>1, <1>2, <1>3, <1>4, TypeCorrect, RowsCorrect, PTL
  DEF Spec, Implements, Lifecycle!Spec

(***************************************************************************)
(* Confirmation.                                                           *)
(***************************************************************************)
\* Nobody works on a document that was confirmed when nobody worked on it.
ConfirmedIsFree ==
  \A s \in Scans : status[s] = "confirmed" /\ s \notin raced => ~Held(s)

LEMMA FreeStep ==
  ASSUME TypeOK, RowsExist, ConfirmedIsFree, [Next]_vars, NEW s \in Scans
  PROVE  /\ status[s] = "confirmed" /\ s \notin raced
              => status'[s] \in {"confirmed", "purged"}
         /\ status'[s] = "confirmed" /\ s \notin raced' => ~Held(s)'
<1> USE DEF TypeOK, RowTypes, StoreTypes, WorkTypes, PurgeTypes, Settled, Held,
            vars, rowVars, workVars, histVars
<1>1. ASSUME NEW t \in Scans,
             \/ Receive(t) \/ CheckDuplicate(t) \/ BackoffElapses(t) \/ VisibilityElapses(t)
             \/ PurgeSelect(t) \/ PurgeFailedFile(t)
      PROVE  UNCHANGED <<status, job, raced>>
  BY <1>1 DEF Receive, CheckDuplicate, BackoffElapses, VisibilityElapses, PurgeSelect, PurgeFailedFile
<1>2. ASSUME NEW t \in Scans, Insert(t) \/ InsertThrows(t)
      PROVE  /\ UNCHANGED <<job, raced>>
             /\ status' = status \/ (status[t] = "absent" /\ status' = [status EXCEPT ![t] = "queued"])
  BY <1>2 DEF Insert, InsertThrows, NewRow, SetStatus, RowsExist
<1>3. ASSUME NEW t \in Scans, ConfirmScan(t)
      PROVE  /\ status[t] # "confirmed" /\ status' = [status EXCEPT ![t] = "confirmed"]
             /\ job' = job /\ raced \subseteq raced' /\ (Held(t) => t \in raced')
  BY <1>3 DEF ConfirmScan, SetStatus
<1>4. CASE PurgeUpdate
  <2>1. /\ status' = [status EXCEPT ![purge.scan] = "purged"]
        /\ job' = job /\ raced \subseteq raced'
    BY <1>4 DEF PurgeUpdate, SetStatus
  <2> QED BY <2>1 DEF ConfirmedIsFree
<1>5. CASE PurgeUnlink \/ PurgeDelete \/ PurgeFails
  BY <1>5 DEF PurgeUnlink, PurgeDelete, PurgeFails, ConfirmedIsFree
<1>6. ASSUME NEW w \in Workers, NEW t \in Scans, ClaimNextJob(w, t)
      PROVE  /\ status[t] = "queued" /\ status' = [status EXCEPT ![t] = "processing"]
             /\ job' = [job EXCEPT ![w] = t] /\ raced' = raced
  BY <1>6 DEF ClaimNextJob, Claimable
\* A worker writes the row it holds, or frees it.
<1>7. ASSUME NEW w \in Workers,
             \/ ProcessScanJob(w) \/ CommitScanResults(w) \/ CommitThrows(w)
             \/ CommitAnswerLost(w) \/ FailScanJob(w) \/ Crash(w) \/ Stop(w) \/ Exit(w) \/ Restart(w)
      PROVE  /\ raced \subseteq raced' /\ job' \in {job, [job EXCEPT ![w] = NoScan]}
             /\ \/ status' = status
                \/ /\ job[w] \in Scans
                   /\ \E st \in {"queued", "done", "failed"} : status' = [status EXCEPT ![job[w]] = st]
  BY <1>7 DEF ProcessScanJob, CommitScanResults, Commit, CommitThrows, CommitAnswerLost, Throws,
              FailScanJob, Crash, Stop, Exit, Restart, Gone, Finish, SetStatus
<1>8. ASSUME NEW w \in Workers, RecoverStuckJobs(w)
      PROVE  /\ UNCHANGED <<job, raced>>
             /\ \A t \in Scans : status'[t] # status[t] =>
                  status[t] = "processing" /\ status'[t] \in {"queued", "failed"}
  BY <1>8 DEF RecoverStuckJobs, Stuck
<1>9. CASE UNCHANGED vars
  BY <1>9 DEF ConfirmedIsFree
<1> QED BY <1>1, <1>2, <1>3, <1>4, <1>5, <1>6, <1>7, <1>8, <1>9, ScanAssumption
        DEF Next, WorkerStep, ConfirmedIsFree

\* A confirmation is undone only when it overtook a worker: a document that was
\* confirmed while nobody had it in hand stays confirmed until the purge takes it,
\* for any number of workers, crashes and attempts
\* (documentScanController.js, confirmScan; scannerService.js, _failScanJob).
THEOREM FreeConfirmationsStay ==
  Spec => [][\A s \in Scans : status[s] = "confirmed" /\ s \notin raced =>
               status'[s] \in {"confirmed", "purged"}]_vars
<1>1. Init => ConfirmedIsFree
  BY DEF Init, ConfirmedIsFree
<1>2. TypeOK /\ RowsExist /\ ConfirmedIsFree /\ [Next]_vars => ConfirmedIsFree'
  BY FreeStep DEF ConfirmedIsFree
<1>3. TypeOK /\ RowsExist /\ ConfirmedIsFree /\ [Next]_vars =>
        [\A s \in Scans : status[s] = "confirmed" /\ s \notin raced =>
           status'[s] \in {"confirmed", "purged"}]_vars
  BY FreeStep
<1> QED BY <1>1, <1>2, <1>3, TypeCorrect, RowsCorrect, PTL DEF Spec
=============================================================================
