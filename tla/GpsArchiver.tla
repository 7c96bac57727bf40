----------------------------- MODULE GpsArchiver -----------------------------
(***************************************************************************)
(* The nightly archiver (backend/jobs/archiverJob.js): PM2 starts it at    *)
(* 02:00, it copies the points of the day that is 170 days old to the      *)
(* bucket, one file per vehicle, and then drops the chunks of gps_points   *)
(* older than 171 days -- all of them, whatever became of their own        *)
(* nights.  A night that failed or never ran is not made up for.           *)
(***************************************************************************)
EXTENDS ColdStore

CONSTANTS
  Histories,     \* sets of files whose points gps_points may hold
  ChunkDays,     \* chunk_time_interval
  DropLag,       \* nights after its own from which a day is past drop_chunks
  RetentionLag,  \* and from which it is past the retention policy
  NoVehicle

ASSUME ArchiverAssumption ==
  /\ \A H \in Histories : H \subseteq Files
  /\ ChunkDays \in Nat \ {0} /\ DropLag \in Nat \ {0} /\ RetentionLag \in Nat \ {0}
  /\ NoVehicle \notin Vehicles

VARIABLES
  points,   \* files whose points are in gps_points
  job,      \* the archiver's progress
  ran,      \* it was started tonight
  todo,     \* vehicles of tonight's loop whose file is not verified
  putting,  \* vehicle whose file was put and is to be verified
  missed,   \* history: files whose night failed before their Put, or never ran
  dropped   \* history: files whose points were dropped

archiverVars == <<points, job, ran, todo, putting, missed, dropped>>

ArchiverInit ==
  /\ points \in Histories
  /\ job = "idle" /\ ran = FALSE /\ todo = {} /\ putting = NoVehicle
  /\ missed = {} /\ dropped = {}

\* vehicles with points of the target date
Moved == {v \in Vehicles : <<today, v>> \in points}

FileOf(v) == <<today, v>>

LastOfChunk(d) == ((d - 1) \div ChunkDays + 1) * ChunkDays

FaultyPast(d, lag) == LastOfChunk(d) <= today + lag

\* a chunk goes as a whole, once its last day is older than the interval
Past(d, lag) == LastOfChunk(d) + lag <= today

DropChunks(lag) ==
  LET gone == {f \in points : Past(f[1], lag)}
  IN points' = points \ gone /\ dropped' = dropped \cup gone

\* The job starts; a night without points returns before the drop.
RunArchiveJob ==
  /\ job = "idle" /\ ~ran
  /\ ran' = TRUE
  /\ todo' = Moved
  /\ job' = IF Moved = {} THEN "idle" ELSE "upload"
  /\ UNCHANGED <<today, faults, storeVars, points, putting, missed, dropped>>

Upload(v) ==
  /\ job = "upload" /\ v \in todo
  /\ PutObject(FileOf(v))
  /\ job' = "verify" /\ putting' = v
  /\ UNCHANGED <<today, faults, points, ran, todo, missed, dropped>>

Verify ==
  /\ job = "verify"
  /\ todo' = todo \ {putting}
  /\ putting' = NoVehicle
  /\ job' = IF todo' = {} THEN "drop" ELSE "upload"
  /\ UNCHANGED <<today, faults, storeVars, points, ran, missed, dropped>>

DropOldChunks ==
  /\ job = "drop" /\ job' = "idle"
  /\ DropChunks(DropLag)
  /\ UNCHANGED <<today, faults, storeVars, ran, todo, putting, missed>>

\* A call throws, or the process dies: the catch mails the administrator and the
\* night is over.
ArchiveJobFails ==
  /\ Fault
  /\ \/ job = "idle" /\ ~ran /\ missed' = missed \cup {FileOf(v) : v \in Moved}
     \/ job # "idle" /\ missed' = missed \cup {FileOf(v) : v \in todo \ {putting}}
  /\ ran' = TRUE /\ job' = "idle" /\ todo' = {} /\ putting' = NoVehicle
  /\ UNCHANGED <<today, storeVars, points, dropped>>

\* TimescaleDB's own policy drops chunks too.
RetentionPolicy ==
  /\ \E f \in points : Past(f[1], RetentionLag)
  /\ DropChunks(RetentionLag)
  /\ UNCHANGED <<today, faults, storeVars, job, ran, todo, putting, missed>>

\* The day ends; if the machine was down at 02:00 nobody makes up for it.
DayPasses ==
  /\ job = "idle"
  /\ IF today = MaxToday
     THEN UNCHANGED <<today, faults, ran, missed>>
     ELSE /\ today' = today + 1 /\ ran' = FALSE
          /\ \/ ran /\ UNCHANGED <<faults, missed>>
             \/ /\ ~ran /\ Fault
                /\ missed' = missed \cup {FileOf(v) : v \in Moved}
  /\ StoreAges
  /\ UNCHANGED <<points, job, todo, putting, dropped>>

ArchiverStep ==
  \/ RunArchiveJob \/ Verify \/ DropOldChunks \/ ArchiveJobFails \/ RetentionPolicy
  \/ \E v \in Vehicles : Upload(v)

(***************************************************************************)
(* Properties.                                                             *)
(***************************************************************************)
\* Points leave the database only when their file is in the bucket, or their own
\* night failed or was missed: a chunk that reaches from archived days into days
\* still to come is kept, and a night without points or with a failure half-way
\* drops nothing of its own (archiverJob.js:36-40, 76-79).
DroppedIsArchived == \A f \in dropped : Stored(f) \/ f \in missed
=============================================================================
