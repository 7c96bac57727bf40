----------------------------- MODULE ColdArchive -----------------------------
(***************************************************************************)
(* The archiver and the readers of the archive, over one bucket and one    *)
(* clock.                                                                  *)
(***************************************************************************)
EXTENDS GpsArchiver, ArchiveRestore

coldVars == <<today, faults, storeVars, archiverVars, restoreVars>>

ColdInit == StoreInit /\ ArchiverInit /\ RestoreInit

ColdTick == DayPasses /\ RowsAge

ColdNext ==
  \/ ArchiverStep /\ UNCHANGED restoreVars
  \/ RestoreStep /\ UNCHANGED archiverVars
  \/ ColdTick

\* Days go by between the passes of the monitor, which PM2 starts every 30
\* minutes, and answers under way go on; nobody has to ask, and Glacier need not
\* deliver.
ColdFairness ==
  /\ SF_coldVars(ColdTick)
  /\ WF_coldVars(PassStep /\ UNCHANGED archiverVars)
  /\ WF_coldVars(\/ ArchiverStep /\ UNCHANGED restoreVars
                 \/ AnswerStep /\ UNCHANGED archiverVars)

ColdSpec == ColdInit /\ [][ColdNext]_coldVars /\ ColdFairness

(***************************************************************************)
(* Properties.                                                             *)
(***************************************************************************)
\* An answer "ready" has every day of its range that was archived when it was
\* asked for and that the database has let go of, whatever is put, dropped, thawed
\* or frozen meanwhile: no file that HeadObject shows frozen or still thawing is
\* taken for read.  The code lets a day go missing in three ways, named here: its
\* own night failed (missed), a failed call was logged and passed over (skipped),
\* or its file froze, or its copy lapsed, between HeadObject and GetObject, which
\* then fails and is passed over too (turned) (archiveService.js:45-119).
ReadyIsComplete ==
  \A r \in Requests :
    stage[r] = "ready" =>
      {f \in RangeOf(r) \cap dropped : f[1] < asked[r].on}
        \subseteq allPoints[r] \cup skipped[r] \cup turned[r] \cup missed

\* Where the points of a file are.
Place(f) == IF f \in dropped THEN IF Stored(f) THEN "archive" ELSE "lost"
            ELSE IF f \notin points THEN "nowhere"
            ELSE IF Stored(f) THEN "both"
            ELSE IF f \in missed THEN "unattended" ELSE "database"

Places == [f \in Files |-> Place(f)]

\* The rows without their age.
Restores == [k \in Files \X Users |-> [group |-> rows[k].group, status |-> rows[k].status]]

Ledger == INSTANCE ArchiveLedger
            WITH Groups <- Requests, NoGroup <- NoRequest, place <- Places, restores <- Restores

\* The archiver, the route handler and the monitor together keep the ledger of the
\* archive: points are dropped after their Put or after a night nobody made up
\* for, rows of a request are completed one by one or failed as a whole, and the
\* one mail of a request comes when all its rows are settled alike, after which
\* none changes (archiverJob.js:36-79, archiveService.js:60-82,
\* restoreMonitorJob.js:25-100).
Implements == Ledger!Spec
=============================================================================
