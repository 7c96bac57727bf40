---------------------------- MODULE ArchiveRestore ----------------------------
(***************************************************************************)
(* Reading archived routes: the route handler, which asks S3 to restore    *)
(* what is frozen and registers the request (backend/services/             *)
(* archiveService.js), and the monitor that PM2 starts every 30 minutes to *)
(* mail the user when everything has thawed (backend/jobs/                 *)
(* restoreMonitorJob.js).  A request is named by its request_group_id.     *)
(***************************************************************************)
EXTENDS ColdStore

CONSTANTS
  Requests,   \* bound: route requests
  NoRequest,
  Users,      \* their e-mail addresses
  Lengths,    \* bound: days of a route
  RouteLag,   \* days after its night from which a route is read from S3
  Cutoff      \* days after which a pending restore is given up

ASSUME RestoreAssumption ==
  /\ NoRequest \notin Requests
  /\ Lengths \subseteq Nat /\ RouteLag \in Nat /\ Cutoff \in Nat

\* 48 hours and 3 days: a restore is given up before a thawed copy lapses.
ASSUME CutoffAssumption == Cutoff < ThawedDays

VARIABLES
  stage,     \* of each request: the handler's progress
  asked,     \* its user, vehicle, first and last day, and when it came
  cursor,    \* day the loop is at
  isRestoring,
  allPoints, \* files fetched
  skipped,   \* history: files passed over because a call failed
  turned,    \* history: files that froze or lapsed between Head- and GetObject
  rows,      \* restore_requests, UNIQUE (s3_key, requested_by_email)
  pass,      \* the monitor's progress
  groups,    \* groups of the pass still to be looked at
  group,     \* the one at hand
  keys,      \* its pending files still to be checked
  completed, \* those found restored
  allReady,
  isExpired,
  told       \* history: what the last mail of each request said

requestVars == <<stage, asked, cursor, isRestoring, allPoints, skipped, turned>>
passVars    == <<pass, groups, group, keys, completed, allReady, isExpired>>
restoreVars == <<requestVars, rows, passVars, told>>

NoRow   == [group |-> NoRequest, status |-> "none", age |-> 0]
NoRoute == [user |-> NoRequest, vehicle |-> NoRequest, first |-> 0, last |-> 0, on |-> 0]

RestoreInit ==
  /\ stage = [r \in Requests |-> "new"]
  /\ asked = [r \in Requests |-> NoRoute]
  /\ cursor = [r \in Requests |-> 0]
  /\ isRestoring = [r \in Requests |-> FALSE]
  /\ allPoints = [r \in Requests |-> {}]
  /\ skipped = [r \in Requests |-> {}] /\ turned = [r \in Requests |-> {}]
  /\ rows = [k \in Files \X Users |-> NoRow]
  /\ pass = "idle" /\ groups = {} /\ group = NoRequest /\ keys = {} /\ completed = {}
  /\ allReady = FALSE /\ isExpired = FALSE
  /\ told = [r \in Requests |-> "nothing"]

Answering(r) == stage[r] \in {"head", "restore", "insert", "get", "ready"}

\* A request is answered, and a pass over, within a day.  Where that matters, to
\* the rows of one request and to what a pass has seen, no day ends meanwhile and
\* Glacier delivers nothing; an answer that has found nothing to restore may be
\* overtaken by both.
Quiet == pass = "idle" /\ \A r \in Requests : Answering(r) => ~isRestoring[r]

KeyOf(r)  == <<cursor[r], asked[r].vehicle>>
RowOf(r)  == <<KeyOf(r), asked[r].user>>
RangeOf(r) == {<<d, asked[r].vehicle>> : d \in asked[r].first .. asked[r].last}

\* the files between their HeadObject and their GetObject
Headed(r) == {f \in RangeOf(r) : \/ stage[r] = "head" /\ f[1] < cursor[r]
                                 \/ stage[r] = "get" /\ f[1] >= cursor[r]}

(***************************************************************************)
(* getArchivedRoute.                                                       *)
(***************************************************************************)
\* vehicleController reads a route from S3 when it starts that long ago.  The
\* request_group_id is a random UUID: which one is drawn next is of no account.
GetRoute(r, u, v, first, last) ==
  /\ stage[r] = "new" /\ r = CHOOSE q \in Requests : stage[q] = "new"
  /\ first < today - RouteLag
  /\ last \in first .. today /\ last - first + 1 \in Lengths
  /\ asked' = [asked EXCEPT ![r] = [user |-> u, vehicle |-> v, first |-> first, last |-> last,
                                    on |-> today]]
  /\ cursor' = [cursor EXCEPT ![r] = first]
  /\ stage' = [stage EXCEPT ![r] = "head"]
  /\ UNCHANGED <<today, faults, storeVars, isRestoring, allPoints, skipped, turned, rows, passVars, told>>

\* The handler returns, or dies, and its variables are gone.
Return(rs) ==
  /\ stage' = [r \in Requests |-> IF r \in rs THEN "done" ELSE stage[r]]
  /\ asked' = [r \in Requests |-> IF r \in rs THEN NoRoute ELSE asked[r]]
  /\ cursor' = [r \in Requests |-> IF r \in rs THEN 0 ELSE cursor[r]]
  /\ isRestoring' = [r \in Requests |-> isRestoring[r] /\ r \notin rs]

\* On with the loop over the keys; after the last one the handler answers
\* "restoring" if any file is, and fetches them all otherwise.
NextKey(r, restoring) ==
  \/ /\ cursor[r] < asked[r].last
     /\ cursor' = [cursor EXCEPT ![r] = @ + 1]
     /\ stage' = [stage EXCEPT ![r] = IF @ = "get" THEN "get" ELSE "head"]
     /\ isRestoring' = [isRestoring EXCEPT ![r] = restoring]
     /\ UNCHANGED asked
  \/ /\ cursor[r] = asked[r].last /\ restoring
     /\ Return({r})
  \/ /\ cursor[r] = asked[r].last /\ ~restoring
     /\ cursor' = [cursor EXCEPT ![r] = asked[r].first]
     /\ stage' = [stage EXCEPT ![r] = IF @ = "get" THEN "ready" ELSE "get"]
     /\ UNCHANGED <<asked, isRestoring>>

FaultyMustWait(f) == store[f] = "cold"

\* frozen, and no restored copy
MustWait(f) == store[f] = "cold" \/ Ongoing(f)

HeadObject(r) ==
  LET f == KeyOf(r) IN
  /\ stage[r] = "head"
  /\ IF MustWait(f) /\ ~Ongoing(f)
     THEN /\ stage' = [stage EXCEPT ![r] = "restore"]
          /\ isRestoring' = [isRestoring EXCEPT ![r] = TRUE]
          /\ UNCHANGED <<asked, cursor>>
     ELSE NextKey(r, isRestoring[r] \/ MustWait(f))
  /\ UNCHANGED <<today, faults, storeVars, allPoints, skipped, turned, rows, passVars, told>>

Restore(r) ==
  /\ stage[r] = "restore"
  /\ RestoreObject(KeyOf(r))
  /\ stage' = [stage EXCEPT ![r] = "insert"]
  /\ UNCHANGED <<today, faults, asked, cursor, isRestoring, allPoints, skipped, turned, rows, passVars, told>>

\* registerRestoreRequest, ON CONFLICT DO NOTHING
Register(r) ==
  LET k == RowOf(r) IN
  /\ stage[r] = "insert"
  /\ rows' = IF rows[k] # NoRow THEN rows
             ELSE [rows EXCEPT ![k] = [group |-> r, status |-> "pending", age |-> 0]]
  /\ NextKey(r, TRUE)
  /\ UNCHANGED <<today, faults, storeVars, allPoints, skipped, turned, passVars, told>>

\* RestoreObject finds the object thawing for somebody else.
RestoreRefused(r) ==
  /\ stage[r] = "restore" /\ store[KeyOf(r)] # "cold"
  /\ NextKey(r, TRUE)
  /\ UNCHANGED <<today, faults, storeVars, allPoints, skipped, turned, rows, passVars, told>>

GetObject(r) ==
  LET f == KeyOf(r) IN
  /\ stage[r] = "get"
  /\ allPoints' = [allPoints EXCEPT ![r] = IF Readable(f) THEN @ \cup {f} ELSE @]
  /\ NextKey(r, isRestoring[r])
  /\ UNCHANGED <<today, faults, storeVars, skipped, turned, rows, passVars, told>>

\* The points are sorted, cut to the range and returned.
Answer(r) ==
  /\ stage[r] = "ready"
  /\ Return({r})
  /\ allPoints' = [allPoints EXCEPT ![r] = {}]
  /\ skipped' = [skipped EXCEPT ![r] = {}] /\ turned' = [turned EXCEPT ![r] = {}]
  /\ UNCHANGED <<today, faults, storeVars, rows, passVars, told>>

\* Every failed call of the two loops is logged and the key passed over; a
\* failed INSERT is logged in registerRestoreRequest.
CallFails(r) ==
  /\ Answering(r) /\ stage[r] # "ready" /\ Fault
  /\ skipped' = [skipped EXCEPT ![r] = @ \cup {KeyOf(r)}]
  /\ NextKey(r, isRestoring[r])
  /\ UNCHANGED <<today, storeVars, allPoints, turned, rows, passVars, told>>

\* The API process restarts, and with it every answer under way is gone.
ApiRestart ==
  /\ Fault
  /\ \E r \in Requests : Answering(r)
  /\ Return({r \in Requests : Answering(r)})
  /\ allPoints' = [r \in Requests |-> {}] /\ skipped' = [r \in Requests |-> {}]
  /\ turned' = [r \in Requests |-> {}]
  /\ UNCHANGED <<today, storeVars, rows, passVars, told>>

(***************************************************************************)
(* checkPendingRestores.                                                   *)
(***************************************************************************)
\* WHERE request_group_id = r AND status = 'pending'
PendingOf(r) == {k \in DOMAIN rows : rows[k].group = r /\ rows[k].status = "pending"}
Group(r)     == {k \in DOMAIN rows : rows[k].group = r}

SetRows(ks, s) == rows' = [k \in DOMAIN rows |-> IF k \in ks
                             THEN [group |-> rows[k].group, status |-> s, age |-> 0]
                             ELSE rows[k]]

\* The pass goes on with the groups that are left, or ends.
NextGroup(left) ==
  /\ pass' = IF left = {} THEN "idle" ELSE "groups"
  /\ groups' = left /\ group' = NoRequest /\ keys' = {} /\ completed' = {}
  /\ allReady' = FALSE /\ isExpired' = FALSE

PassStarts ==
  /\ pass = "idle"
  /\ groups' = {r \in Requests : PendingOf(r) # {}}
  /\ groups' # {} /\ pass' = "groups"
  /\ UNCHANGED <<today, faults, storeVars, requestVars, rows, group, keys, completed, allReady,
                 isExpired, told>>

SelectKeys ==
  /\ pass = "groups"
  /\ \E g \in groups : group' = g /\ groups' = groups \ {g} /\ keys' = PendingOf(g)
  /\ pass' = "keys" /\ completed' = {} /\ allReady' = TRUE /\ isExpired' = FALSE
  /\ UNCHANGED <<today, faults, storeVars, requestVars, rows, told>>

FaultyTooOld(k) == FALSE

\* created_at < cutoffDate
TooOld(k) == rows[k].age > Cutoff

CheckKey(k) ==
  /\ pass = "keys" /\ k \in keys
  /\ keys' = keys \ {k}
  /\ isExpired' = (isExpired \/ TooOld(k))
  /\ \/ /\ Restored(k[1])
        /\ completed' = completed \cup {k} /\ UNCHANGED <<allReady, faults>>
     \/ /\ ~Restored(k[1])
        /\ allReady' = FALSE /\ UNCHANGED <<completed, faults>>
     \/ Fault /\ allReady' = FALSE /\ UNCHANGED completed
  /\ UNCHANGED <<today, storeVars, requestVars, rows, pass, groups, group, told>>

\* Past 48 hours the whole group is failed, its completed files included.
GiveUp ==
  /\ pass = "keys" /\ keys = {} /\ isExpired
  /\ SetRows(Group(group), "failed")
  /\ pass' = "mail"
  /\ UNCHANGED <<today, faults, storeVars, requestVars, groups, group, keys, completed, allReady,
                 isExpired, told>>

MarkCompleted ==
  /\ pass = "keys" /\ keys = {} /\ ~isExpired
  /\ SetRows(completed, "completed")
  /\ IF allReady THEN pass' = "mail" /\ UNCHANGED <<groups, group, keys, completed, allReady, isExpired>>
                 ELSE NextGroup(groups)
  /\ UNCHANGED <<today, faults, storeVars, requestVars, told>>

\* The mail; notified_at is set after it and never read.
Notify ==
  /\ pass = "mail"
  /\ told' = [told EXCEPT ![group] = IF isExpired THEN "failed" ELSE "completed"]
  /\ NextGroup(groups)
  /\ UNCHANGED <<today, faults, storeVars, requestVars, rows>>

MailFails ==
  /\ pass = "mail" /\ Fault
  /\ NextGroup(groups)
  /\ UNCHANGED <<today, storeVars, requestVars, rows, told>>

\* A query throws, or PM2 kills the process: the pass ends where it is.
PassDies ==
  /\ pass # "idle" /\ Fault
  /\ NextGroup({})
  /\ UNCHANGED <<today, storeVars, requestVars, rows, told>>

PassStep == PassStarts \/ SelectKeys \/ (\E k \in keys : CheckKey(k)) \/ GiveUp
            \/ MarkCompleted \/ Notify

\* Glacier takes hours, a request or a pass far less: an object it delivers was
\* asked for before the restoring request or the pass at hand, whose HeadObject
\* finds it thawed or not.
GlacierDelivers(f) ==
  /\ Quiet
  /\ Thaw(f)
  /\ UNCHANGED <<today, faults, restoreVars>>

\* A day passes for the rows, and for the requests under way: a file that was
\* found readable may be frozen when its GetObject comes.
RowsAge ==
  /\ Quiet
  /\ rows' = [k \in DOMAIN rows |->
                IF rows[k].status = "pending" /\ rows[k].age <= Cutoff
                THEN [rows[k] EXCEPT !.age = @ + 1] ELSE rows[k]]
  /\ turned' = [r \in Requests |-> turned[r] \cup {f \in Headed(r) : Freezes(f)}]
  /\ UNCHANGED <<stage, asked, cursor, isRestoring, allPoints, skipped, passVars, told>>

AnswerStep ==
  \E r \in Requests : \/ HeadObject(r) \/ Restore(r) \/ Register(r) \/ RestoreRefused(r)
                       \/ GetObject(r) \/ Answer(r)

RestoreStep ==
  \/ \E r \in Requests, u \in Users, v \in Vehicles, a, b \in Days : GetRoute(r, u, v, a, b)
  \/ AnswerStep \/ \E r \in Requests : CallFails(r)
  \/ ApiRestart \/ PassStep \/ MailFails \/ PassDies
  \/ \E f \in Files : GlacierDelivers(f)

(***************************************************************************)
(* Properties.                                                             *)
(***************************************************************************)
\* "ALL files restored": when the mail says so, every file the request
\* registered is readable -- those completed in earlier passes too, because a
\* request is given up (48 h) before a copy lapses (3 days)
\* (restoreMonitorJob.js:33-39, 76-81; archiveService.js:62).
NotifiedWhenThawed ==
  [][\A g \in Requests :
       told'[g] = "completed" /\ told[g] # "completed" => \A k \in Group(g) : Restored(k[1])
    ]_<<storeVars, restoreVars>>

\* Every pending restore is settled, by its thaw or by the cutoff, whatever else
\* is in its group and whatever passes died (restoreMonitorJob.js:33-39, 56-74).
PendingSettles == []<>(\A k \in Files \X Users : rows[k].status # "pending")
=============================================================================
