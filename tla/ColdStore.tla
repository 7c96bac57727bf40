------------------------------ MODULE ColdStore ------------------------------
(***************************************************************************)
(* The S3 bucket of archived GPS points as the archiver, the route handler *)
(* and the restore monitor use it (docs/background_jobs.md), and the clock *)
(* they share.  A file holds one day of one vehicle.  The bucket is        *)
(* external: its lifecycle rule freezes files, a restore thaws one hours   *)
(* after it was asked for, and a thawed copy lapses after ThawedDays.      *)
(*                                                                         *)
(* Time is sampled once a day; day n is the one that is 170 days old on    *)
(* night n.                                                                *)
(***************************************************************************)
EXTENDS Integers, Sequences, FiniteSets

CONSTANTS
  Vehicles,
  MaxToday,   \* bound: nights the archiver runs; ages go on after it
  FreezeAge,  \* lifecycle rule: days until a stored file is in Glacier
  ThawedDays, \* RestoreRequest.Days
  MaxFaults   \* bound: failed calls, failed or missed nights, restarts, killed passes

ASSUME StoreAssumption ==
  /\ MaxToday \in Nat /\ FreezeAge \in Nat \ {0} /\ ThawedDays \in Nat \ {0}
  /\ MaxFaults \in Nat

Days == 1 .. MaxToday
Files == Days \X Vehicles

VARIABLES
  today,
  store,  \* what HeadObject tells of each file: storage class and Restore
  since,  \* days since a standard file was stored or a thawed one thawed
  faults

storeVars == <<store, since>>

Classes == {"absent", "standard", "cold", "thawing", "thawed"}

StoreInit ==
  /\ today = 1 /\ faults = 0
  /\ store = [f \in Files |-> "absent"]
  /\ since = [f \in Files |-> 0]

\* A call throws, or a process dies or is not there.
Fault == faults < MaxFaults /\ faults' = faults + 1

Stored(f) == store[f] # "absent"

\* GetObject answers; a frozen or thawing object refuses with an error
Readable(f) == store[f] \in {"standard", "thawed"}

\* The Restore header: ongoing-request="true", ongoing-request="false"
Ongoing(f)  == store[f] = "thawing"
Restored(f) == store[f] = "thawed"

PutObject(f) ==
  /\ store' = [store EXCEPT ![f] = "standard"]
  /\ since' = [since EXCEPT ![f] = 0]

\* RestoreObject of a cold object; of one that is thawing it is an error.
RestoreObject(f) ==
  /\ store[f] = "cold"
  /\ store' = [store EXCEPT ![f] = "thawing"]
  /\ UNCHANGED since

Thaw(f) ==
  /\ Ongoing(f)
  /\ store' = [store EXCEPT ![f] = "thawed"]
  /\ since' = [since EXCEPT ![f] = 0]

\* the file goes (back) to Glacier when the next day begins
Freezes(f) ==
  \/ store[f] = "standard" /\ since[f] + 1 >= FreezeAge
  \/ store[f] = "thawed" /\ since[f] + 1 >= ThawedDays

\* A day passes for the bucket.
StoreAges ==
  /\ store' = [f \in Files |-> IF Freezes(f) THEN "cold" ELSE store[f]]
  /\ since' = [f \in Files |-> IF Readable(f) /\ ~Freezes(f) THEN since[f] + 1 ELSE 0]
=============================================================================
