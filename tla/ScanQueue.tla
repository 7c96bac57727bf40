----------------------------- MODULE ScanQueue -----------------------------
(***************************************************************************)
(* The document scanner: uploads (documentScanController.createScan), the  *)
(* queue worker (documentScanWorker, scannerService.processScanJob), the   *)
(* user's confirmation (confirmScan) and the retention purge               *)
(* (scanRetentionPurgeJob), which share the rows of document_scans.        *)
(*                                                                         *)
(* One action is one SQL statement, or the code between two awaits.  Time  *)
(* is abstract: a delay may elapse at any moment, and the purge may find   *)
(* any document past its retention.  Status "done" stands for 'done' and   *)
(* 'needs_review', which the code treats alike.                            *)
(***************************************************************************)
EXTENDS Integers, FiniteSets

CONSTANTS
  Scans,        \* bound: uploads in a behaviour
  Contents,     \* the file hashes the uploads may have, one function each
  Unlucky,      \* bound: uploads whose unlinks and purges may fail and whose INSERT
                \* and commit may go unanswered
  Workers,      \* worker processes; production runs one
  NoScan, NoWorker,
  MaxAttempts   \* max_attempts

ASSUME ScanAssumption ==
  /\ MaxAttempts \in Nat \ {0}
  /\ \A c \in Contents : DOMAIN c = Scans
  /\ NoScan \notin Scans /\ NoWorker \notin Workers

VARIABLES
  content,  \* the file_hash of each upload, fixed
  upload,   \* createScan's progress
  status, attempts,
  owner,    \* locked_by, while 'processing'
  due,      \* next_attempt_at has passed, while 'queued'
  stale,    \* locked_at is past the visibility timeout, while 'processing'
  path,     \* file_path names the uploaded file, and is not '[PURGED]'
  file,     \* the uploaded file is on disk
  data,     \* extracted_data or user_confirmed_data is stored in the row
  fields,   \* the document may have rows in document_scan_fields
  pc, job,  \* of each worker: progress and current job
  final,    \* the error a worker is about to record is permanent
  stopping, \* SIGTERM was received
  purge,    \* the document the purge is at, and its next step
  cut,      \* history: released by SIGTERM on the last attempt
  raced,    \* history: confirmed, purged, or committed without an answer, while
            \* a worker held it
  halted,   \* history: its last purge failed between UPDATE and DELETE
  left      \* history: the last unlink of its file failed

rowVars  == <<status, attempts, owner, due, stale>>
workVars == <<pc, job, final, stopping>>
histVars == <<cut, raced, halted, left>>
vars == <<content, upload, rowVars, path, file, data, fields, workVars, purge, histVars>>

Settled == {"done", "failed", "confirmed", "purged"}
Idle == [scan |-> NoScan, step |-> "none"]

Init ==
  /\ content \in Contents
  /\ upload = [s \in Scans |-> "none"]
  /\ status = [s \in Scans |-> "absent"]
  /\ attempts = [s \in Scans |-> 0]
  /\ owner = [s \in Scans |-> NoWorker]
  /\ due = [s \in Scans |-> FALSE]
  /\ stale = [s \in Scans |-> FALSE]
  /\ path = [s \in Scans |-> FALSE]
  /\ file = [s \in Scans |-> FALSE]
  /\ data = [s \in Scans |-> FALSE]
  /\ fields = [s \in Scans |-> FALSE]
  /\ pc = [w \in Workers |-> "idle"]
  /\ job = [w \in Workers |-> NoScan]
  /\ final = [w \in Workers |-> FALSE]
  /\ stopping = [w \in Workers |-> FALSE]
  /\ purge = Idle
  /\ cut = {} /\ raced = {} /\ halted = {} /\ left = {}

\* Rows of the partial unique index on (org_id, file_hash).
Active(s) == status[s] \notin {"absent", "failed", "purged"}

\* An UPDATE or INSERT that makes s active does not violate that index.
Unique(s) == \A t \in Scans \ {s} : content[t] = content[s] => ~Active(t)

Held(s) == \E w \in Workers : job[w] = s

\* A write of status that ends 'processing' or sets next_attempt_at.
SetStatus(s, st, now) ==
  /\ status' = [status EXCEPT ![s] = st]
  /\ owner' = [owner EXCEPT ![s] = NoWorker]
  /\ stale' = [stale EXCEPT ![s] = FALSE]
  /\ due' = [due EXCEPT ![s] = now]

\* unlinkSync.  Every caller swallows its error and goes on as if the file were
\* gone, or comes here again from its catch block, which swallows the next one.
Unlink(s) ==
  \/ file' = [file EXCEPT ![s] = FALSE] /\ left' = left \ {s}
  \/ s \in Unlucky /\ file[s] /\ file' = file /\ left' = left \cup {s}

(***************************************************************************)
(* createScan.                                                             *)
(***************************************************************************)
\* The upload middleware has stored the file under a name of its own.
Receive(s) ==
  /\ upload[s] = "none"
  /\ upload' = [upload EXCEPT ![s] = "received"]
  /\ file' = [file EXCEPT ![s] = TRUE]
  /\ UNCHANGED <<content, rowVars, path, data, fields, workVars, purge, histVars>>

\* The file type, the consent declared with it and the idempotency check; the
\* file of a refused upload or of a duplicate is removed at once.
CheckDuplicate(s) ==
  /\ upload[s] = "received"
  /\ \/ /\ Unique(s)
        /\ upload' = [upload EXCEPT ![s] = "checked"]
        /\ UNCHANGED <<file, left>>
     \/ /\ upload' = [upload EXCEPT ![s] = "answered"]
        /\ Unlink(s)
  /\ UNCHANGED <<content, rowVars, path, data, fields, workVars, purge,
                 cut, raced, halted>>

\* The INSERT's effect.
NewRow(s) == /\ Unique(s) /\ SetStatus(s, "queued", TRUE)
             /\ path' = [path EXCEPT ![s] = TRUE]
             /\ UNCHANGED attempts

Insert(s) ==
  /\ upload[s] = "checked" /\ NewRow(s)
  /\ upload' = [upload EXCEPT ![s] = "answered"]
  /\ UNCHANGED <<content, file, data, fields, workVars, purge, histVars>>

\* The catch block of a refused upload.
FaultyRemoveUpload(s) == UNCHANGED <<file, left>>
RemoveUpload(s) == Unlink(s)

\* The INSERT throws: the index refused it, or the database failed, before or
\* after it committed the row.
InsertThrows(s) ==
  /\ upload[s] = "checked"
  /\ upload' = [upload EXCEPT ![s] = "answered"]
  /\ RemoveUpload(s)
  /\ \/ UNCHANGED <<rowVars, path>>
     \/ s \in Unlucky /\ NewRow(s)
  /\ UNCHANGED <<content, data, fields, workVars, purge, cut, raced, halted>>

(***************************************************************************)
(* The worker's loop.                                                      *)
(***************************************************************************)
FaultyExhausted(s) == attempts[s] > MaxAttempts
Exhausted(s) == attempts[s] >= MaxAttempts

FaultyStuck(s) == status[s] = "processing" /\ stale[s] /\ attempts[s] < MaxAttempts
Stuck(s) == status[s] = "processing" /\ stale[s]

\* recoverStuckJobs: one UPDATE over every stuck row.
RecoverStuckJobs(w) ==
  LET S == {s \in Scans : Stuck(s)} IN
  /\ pc[w] = "idle" /\ ~stopping[w] /\ S # {}
  /\ status' = [s \in Scans |-> IF s \notin S THEN status[s]
                                ELSE IF Exhausted(s) THEN "failed" ELSE "queued"]
  /\ owner' = [s \in Scans |-> IF s \in S THEN NoWorker ELSE owner[s]]
  /\ stale' = [s \in Scans |-> stale[s] /\ s \notin S]
  /\ due' = [s \in Scans |-> due[s] \/ (s \in S /\ ~Exhausted(s))]
  /\ UNCHANGED <<content, upload, attempts, path, file, data, fields, workVars,
                 purge, histVars>>

FaultyClaimable(s) == status[s] = "queued" /\ due[s]
Claimable(s) == status[s] = "queued" /\ due[s] /\ attempts[s] < MaxAttempts

\* claimNextJob: SKIP LOCKED, so each claim takes a row of its own; the order
\* of next_attempt_at is abstracted with time.  The job starts with the path the
\* claim returned; '[PURGED]' is no file, a permanent error.
ClaimNextJob(w, s) ==
  /\ pc[w] = "idle" /\ ~stopping[w] /\ Claimable(s)
  /\ status' = [status EXCEPT ![s] = "processing"]
  /\ attempts' = [attempts EXCEPT ![s] = @ + 1]
  /\ owner' = [owner EXCEPT ![s] = w]
  /\ due' = [due EXCEPT ![s] = FALSE]
  /\ pc' = [pc EXCEPT ![w] = IF path[s] THEN "work" ELSE "fail"]
  /\ final' = [final EXCEPT ![w] = ~path[s]]
  /\ job' = [job EXCEPT ![w] = s]
  /\ UNCHANGED <<content, upload, stale, path, file, data, fields, stopping,
                 purge, histVars>>

\* processScanJob up to the result: the fields are extracted; or an error,
\* permanent if the file is gone; or consent is missing and the file is removed.
ProcessScanJob(w) ==
  LET s == job[w] IN
  /\ pc[w] = "work"
  /\ \/ /\ file[s] /\ pc' = [pc EXCEPT ![w] = "commit"]
        /\ UNCHANGED <<file, left, final>>
     \/ /\ pc' = [pc EXCEPT ![w] = "fail"]
        /\ \E permanent \in BOOLEAN :
             /\ file[s] \/ permanent
             /\ final' = [final EXCEPT ![w] = permanent]
        /\ UNCHANGED <<file, left>>
     \/ /\ file[s] /\ Unlink(s)
        /\ pc' = [pc EXCEPT ![w] = "fail"]
        /\ final' = [final EXCEPT ![w] = TRUE]
  /\ UNCHANGED <<content, upload, rowVars, path, data, fields, job, stopping, purge,
                 cut, raced, halted>>

Fenced(w) == status[job[w]] = "processing" /\ owner[job[w]] = w

FaultyFinish(w) == /\ pc' = [pc EXCEPT ![w] = "idle"]
                   /\ final' = [final EXCEPT ![w] = FALSE]
                   /\ UNCHANGED <<job, stopping>>

\* The finally block of pollAndProcess.
Finish(w) == /\ pc' = [pc EXCEPT ![w] = "idle"]
             /\ job' = [job EXCEPT ![w] = NoScan]
             /\ final' = [final EXCEPT ![w] = FALSE]
             /\ UNCHANGED stopping

\* _commitScanResults, one transaction.
Commit(w) ==
  /\ pc[w] = "commit" /\ Fenced(w)
  /\ SetStatus(job[w], "done", FALSE)
  /\ data' = [data EXCEPT ![job[w]] = TRUE]
  /\ fields' = [fields EXCEPT ![job[w]] = TRUE]
  /\ UNCHANGED <<content, upload, attempts, path, file, purge, cut, halted, left>>

CommitScanResults(w) == Commit(w) /\ Finish(w) /\ UNCHANGED raced

\* It throws: the fence is lost, or the database failed, before or after it
\* committed.  Neither error is marked permanent.
Throws(w) ==
  /\ pc' = [pc EXCEPT ![w] = "fail"]
  /\ final' = [final EXCEPT ![w] = FALSE]
  /\ UNCHANGED <<job, stopping>>

CommitThrows(w) ==
  /\ pc[w] = "commit" /\ Throws(w)
  /\ UNCHANGED <<content, upload, rowVars, path, file, data, fields, purge, histVars>>

CommitAnswerLost(w) ==
  /\ job[w] \in Unlucky
  /\ Commit(w) /\ Throws(w)
  /\ raced' = raced \cup {job[w]}

\* _failScanJob updates by id alone; an error of its own is only logged.
FailScanJob(w) ==
  LET s  == job[w]
      st == IF final[w] \/ Exhausted(s) THEN "failed" ELSE "queued" IN
  /\ pc[w] = "fail"
  /\ \/ /\ st = "failed" \/ Unique(s)
        /\ SetStatus(s, st, FALSE)
     \/ UNCHANGED <<status, owner, due, stale>>
  /\ Finish(w)
  /\ UNCHANGED <<content, upload, attempts, path, file, data, fields, purge, histVars>>

(***************************************************************************)
(* The worker's process.  Stopping or losing an idle worker has no effect  *)
(* and is left out.                                                        *)
(***************************************************************************)
Gone(w) == /\ pc' = [pc EXCEPT ![w] = "down"]
           /\ job' = [job EXCEPT ![w] = NoScan]
           /\ final' = [final EXCEPT ![w] = FALSE]
           /\ stopping' = [stopping EXCEPT ![w] = FALSE]
           /\ UNCHANGED <<content, upload, rowVars, path, file, data, fields, purge,
                          histVars>>

Crash(w) == job[w] # NoScan /\ ~stopping[w] /\ Gone(w)

\* stop(): the in-flight row goes back to the queue, if it is still this
\* worker's; the job itself runs on until the process exits.
Stop(w) ==
  LET s == job[w] IN
  /\ s # NoScan /\ ~stopping[w]
  /\ stopping' = [stopping EXCEPT ![w] = TRUE]
  /\ IF Fenced(w)
       THEN /\ SetStatus(s, "queued", TRUE)
            /\ cut' = IF Exhausted(s) THEN cut \cup {s} ELSE cut
       ELSE UNCHANGED <<status, owner, due, stale, cut>>
  /\ UNCHANGED <<content, upload, attempts, path, file, data, fields, pc, job, final,
                 purge, raced, halted, left>>

Exit(w) == stopping[w] /\ Gone(w)

Restart(w) ==
  /\ pc[w] = "down" /\ pc' = [pc EXCEPT ![w] = "idle"]
  /\ UNCHANGED <<content, upload, rowVars, path, file, data, fields, job, final,
                 stopping, purge, histVars>>

(***************************************************************************)
(* Time.                                                                   *)
(***************************************************************************)
BackoffElapses(s) ==
  /\ status[s] = "queued" /\ ~due[s]
  /\ due' = [due EXCEPT ![s] = TRUE]
  /\ UNCHANGED <<content, upload, status, attempts, owner, stale, path, file,
                 data, fields, workVars, purge, histVars>>

VisibilityElapses(s) ==
  /\ status[s] = "processing" /\ ~stale[s]
  /\ stale' = [stale EXCEPT ![s] = TRUE]
  /\ UNCHANGED <<content, upload, status, attempts, owner, due, path, file,
                 data, fields, workVars, purge, histVars>>

(***************************************************************************)
(* confirmScan, one transaction under the row's lock.  Of the statuses only *)
(* 'confirmed' is refused.                                                 *)
(***************************************************************************)
ConfirmScan(s) ==
  /\ status[s] \notin {"absent", "confirmed"} /\ Unique(s)
  /\ SetStatus(s, "confirmed", FALSE)
  /\ data' = [data EXCEPT ![s] = TRUE]
  /\ raced' = IF Held(s) THEN raced \cup {s} ELSE raced
  /\ UNCHANGED <<content, upload, attempts, path, file, fields, workVars, purge,
                 cut, halted, left>>

(***************************************************************************)
(* The retention purge: unlink, UPDATE, DELETE of each candidate in turn.  *)
(***************************************************************************)
FaultyThen(step) == [unlink |-> "delete", delete |-> "update", update |-> "none"][step]
Then(step) == [unlink |-> "update", update |-> "delete", delete |-> "none"][step]

Proceed == LET step == Then(purge.step) IN
  purge' = [scan |-> IF step = "none" THEN NoScan ELSE purge.scan, step |-> step]

PurgeSelect(s) ==
  /\ purge = Idle /\ status[s] \notin {"absent", "purged"}
  /\ purge' = [scan |-> s, step |-> "unlink"]
  /\ UNCHANGED <<content, upload, rowVars, path, file, data, fields, workVars, histVars>>

\* '[PURGED]' is no file.
UnlinkNamed(s) == IF path[s] THEN Unlink(s) ELSE UNCHANGED <<file, left>>

PurgeUnlink ==
  /\ purge.step = "unlink" /\ Proceed
  /\ UnlinkNamed(purge.scan)
  /\ UNCHANGED <<content, upload, rowVars, path, data, fields, workVars,
                 cut, raced, halted>>

PurgeUpdate ==
  /\ purge.step = "update" /\ Proceed
  /\ SetStatus(purge.scan, "purged", FALSE)
  /\ path' = [path EXCEPT ![purge.scan] = FALSE]
  /\ data' = [data EXCEPT ![purge.scan] = FALSE]
  /\ raced' = IF Held(purge.scan) THEN raced \cup {purge.scan} ELSE raced
  /\ UNCHANGED <<content, upload, attempts, file, fields, workVars, cut, halted,
                 left>>

PurgeDelete ==
  /\ purge.step = "delete" /\ Proceed
  /\ fields' = [fields EXCEPT ![purge.scan] = FALSE]
  /\ halted' = halted \ {purge.scan}
  /\ UNCHANGED <<content, upload, rowVars, path, file, data, workVars, cut, raced, left>>

\* A statement throws or the process ends: the run is over.
PurgeFails ==
  /\ purge.step \in {"update", "delete"} /\ purge.scan \in Unlucky
  /\ purge' = Idle
  /\ halted' = IF purge.step = "delete" THEN halted \cup {purge.scan} ELSE halted
  /\ UNCHANGED <<content, upload, rowVars, path, file, data, fields, workVars,
                 cut, raced, left>>

\* Failed documents lose their file first; the UPDATE of the path may fail.
PurgeFailedFile(s) ==
  /\ purge = Idle /\ status[s] = "failed" /\ path[s]
  /\ Unlink(s)
  /\ \E kept \in BOOLEAN : path' = [path EXCEPT ![s] = kept]
  /\ UNCHANGED <<content, upload, rowVars, data, fields, workVars, purge,
                 cut, raced, halted>>

WorkerStep(w) == \/ (\E s \in Scans : ClaimNextJob(w, s)) \/ ProcessScanJob(w)
                 \/ CommitScanResults(w) \/ CommitThrows(w) \/ CommitAnswerLost(w)
                 \/ FailScanJob(w)

Next ==
  \/ \E s \in Scans : \/ Receive(s) \/ CheckDuplicate(s) \/ Insert(s) \/ InsertThrows(s)
                      \/ BackoffElapses(s) \/ VisibilityElapses(s) \/ ConfirmScan(s)
                      \/ PurgeSelect(s) \/ PurgeFailedFile(s)
  \/ \E w \in Workers : \/ WorkerStep(w) \/ RecoverStuckJobs(w)
                        \/ Crash(w) \/ Stop(w) \/ Exit(w) \/ Restart(w)
  \/ PurgeUnlink \/ PurgeUpdate \/ PurgeDelete \/ PurgeFails

Spec == Init /\ [][Next]_vars

(***************************************************************************)
(* The poll timer fires and awaited calls return, some poll runs the       *)
(* recovery, PM2 kills and restarts the worker, and time passes.  Users,   *)
(* faults and the purge owe nothing.                                       *)
(***************************************************************************)
Fairness ==
  /\ \A w \in Workers : /\ WF_vars(WorkerStep(w)) /\ WF_vars(RecoverStuckJobs(w))
                        /\ WF_vars(Exit(w)) /\ WF_vars(Restart(w))
  /\ \A s \in Scans : WF_vars(BackoffElapses(s)) /\ WF_vars(VisibilityElapses(s))

FairSpec == Spec /\ Fairness

(***************************************************************************)
(* Properties.                                                             *)
(***************************************************************************)
RowTypes ==
  /\ status \in [Scans -> {"absent", "queued", "processing"} \cup Settled]
  /\ attempts \in [Scans -> 0..MaxAttempts]
  /\ owner \in [Scans -> Workers \cup {NoWorker}]
  /\ due \in [Scans -> BOOLEAN] /\ stale \in [Scans -> BOOLEAN]
  /\ \A s \in Scans : /\ owner[s] # NoWorker <=> status[s] = "processing"
                      /\ due[s] => status[s] = "queued"
                      /\ stale[s] => status[s] = "processing"

StoreTypes ==
  /\ content \in Contents
  /\ upload \in [Scans -> {"none", "received", "checked", "answered"}]
  /\ path \in [Scans -> BOOLEAN] /\ file \in [Scans -> BOOLEAN]
  /\ data \in [Scans -> BOOLEAN] /\ fields \in [Scans -> BOOLEAN]
  /\ cut \subseteq Scans /\ raced \subseteq Scans /\ halted \subseteq Scans
  /\ left \subseteq Scans

WorkTypes ==
  /\ pc \in [Workers -> {"idle", "work", "commit", "fail", "down"}]
  /\ job \in [Workers -> Scans \cup {NoScan}]
  /\ final \in [Workers -> BOOLEAN] /\ stopping \in [Workers -> BOOLEAN]
  /\ \A w \in Workers : job[w] # NoScan <=> pc[w] \in {"work", "commit", "fail"}

PurgeTypes ==
  /\ purge \in [scan : Scans \cup {NoScan}, step : {"none", "unlink", "update", "delete"}]
  /\ purge.scan = NoScan <=> purge.step = "none"

\* Every variable has its type; the lock, the timers and a worker's job are
\* set exactly in the states that use them.
TypeOK == RowTypes /\ StoreTypes /\ WorkTypes /\ PurgeTypes

\* Workers and the purge work on rows that exist, an upload in progress has
\* none yet.
RowsExist ==
  /\ \A s \in Scans : upload[s] # "answered" => status[s] = "absent" /\ attempts[s] = 0
  /\ \A w \in Workers : job[w] # NoScan => status[job[w]] # "absent"
  /\ purge.scan # NoScan => status[purge.scan] # "absent"
  /\ \A s \in raced : status[s] # "absent"

\* A single worker keeps its claim: until it finishes, the row is its own, or
\* back in the queue if the worker is shutting down.
ClaimKept ==
  \A w \in Workers : job[w] # NoScan /\ job[w] \notin raced =>
    IF stopping[w] THEN status[job[w]] = "queued" ELSE Fenced(w)

\* The purge keeps to its order, and nothing comes back to a purged row.
Unlinked(s) == file[s] => s \in left

PurgeOrder ==
  /\ purge.step \in {"update", "delete"} => Unlinked(purge.scan)
  /\ purge.step \in {"unlink", "update"} => status[purge.scan] # "purged"
  /\ \A s \in Scans : status[s] = "purged" => Unlinked(s) /\ ~data[s]

\* A queued document can always be claimed again: no error, recovery, crash or
\* lost fence parks it with its attempts spent, where no worker would ever look
\* and the unique index refuses the user's next upload.  Only a shutdown in the
\* last attempt does.
NoStrandedScan ==
  \A s \in Scans : status[s] = "queued" => attempts[s] < MaxAttempts \/ s \in cut

\* Every file on disk belongs to an upload in progress or is named by its
\* document's row, where the worker and the purge will find it -- of two racing
\* uploads the loser's file is removed -- or else the code tried to remove it and
\* the unlink failed, an error it swallows.
NoOrphanFile ==
  \A s \in Scans : file[s] =>
    upload[s] \in {"received", "checked"} \/ path[s] \/ s \in left

\* A purged document has nothing left of its data and its fields, nor of its file
\* if it could be removed, even when a worker stores a result in the middle of the
\* purge -- unless that purge failed half-way.
PurgedKeepsNothing ==
  \A s \in Scans : status[s] = "purged" /\ purge.scan # s /\ s \notin halted =>
    Unlinked(s) /\ ~data[s] /\ ~fields[s]

\* Every queued document is eventually done, failed, confirmed or purged, even
\* if every attempt at it crashes, fails or cannot be recorded -- but for the
\* shutdown in the last attempt.
EventuallySettles ==
  \A s \in Scans : status[s] = "queued" ~> status[s] \in Settled \/ s \in cut

\* The scanner implements ScanLifecycle, apart from documents that were
\* confirmed or purged under a running worker, and from those whose result was
\* committed without an answer: told of an error, their worker gives them back to
\* the queue or fails them.
Phase(s) ==
  IF s \in raced \/ status[s] \in Settled THEN "settled"
  ELSE IF status[s] = "queued" THEN IF Exhausted(s) THEN "stranded" ELSE "pending"
  ELSE [absent |-> "none", processing |-> "running"][status[s]]

Tries(s) == IF Phase(s) = "settled" THEN 0 ELSE attempts[s]

PhaseMap == [s \in Scans |-> Phase(s)]
TriesMap == [s \in Scans |-> Tries(s)]

Lifecycle == INSTANCE ScanLifecycle WITH phase <- PhaseMap, tries <- TriesMap

Implements == Lifecycle!Spec

(***************************************************************************)
(* What the documents say of the same program.                             *)
(***************************************************************************)
\* DOCUMENT_SCANNER_RUNBOOK.md: a confirmation is irreversible through the
\* scanner; only the purge ends it.
ConfirmedStays ==
  [][\A s \in Scans : status[s] = "confirmed" => status'[s] \in {"confirmed", "purged"}]_vars
=============================================================================
