--------------------------- MODULE WhatsAppOutbox ---------------------------
(***************************************************************************)
(* The transactional outbox that turns alerts and daily reports into       *)
(* WhatsApp messages: the table whatsapp_messages, the worker that polls   *)
(* it (backend/jobs/whatsappWorker.js), the provider it calls, and the     *)
(* webhook and HTTP handlers that write the same rows behind its back.     *)
(*                                                                         *)
(* Every SQL statement is one atomic step; everything between two awaits   *)
(* of the worker is one step of the worker.  Instants of the schema        *)
(* (next_attempt_at, expires_at, updated_at) are kept as the three facts   *)
(* the queries ask of them -- due, lapsed, stale -- and time is the        *)
(* actions that make those facts true.                                     *)
(***************************************************************************)
EXTENDS Integers, FiniteSets

CONSTANTS
  Messages,     \* row ids of whatsapp_messages (BIGSERIAL, in insertion order)
  Recipients,   \* rows of whatsapp_recipients
  RecipientOf,  \* [Messages -> Recipients], column recipient_id
  KindOf,       \* [Messages -> Kinds], column event_type
  Workers,      \* processes running processOutboxBatch (PM2 runs one)
  MaxAttempts,  \* attempts < 5 in the claim query
  BatchLimit,   \* LIMIT 20 in the claim query
  DailyCap,     \* max_daily_messages of the organisation
  MaxCopies,    \* bound: copies of one message Meta ever accepts
  MaxFaults,    \* bound: infrastructure faults in a behaviour
  Faults        \* the fault classes a run admits, a subset of FaultClasses

Kinds == {"fuel_theft", "fuel_refill", "daily_report"}
FaultClasses == {"crash", "db", "connect", "timeout", "async", "operator",
                 "consent"}

ASSUME OutboxAssumption ==
  /\ Messages \subseteq Nat /\ IsFiniteSet(Messages)
  /\ RecipientOf \in [Messages -> Recipients]
  /\ KindOf \in [Messages -> Kinds]
  /\ MaxAttempts \in Nat \ {0} /\ BatchLimit \in Nat \ {0}
  /\ DailyCap \in Nat \ {0} /\ MaxCopies \in Nat /\ MaxFaults \in Nat
  /\ Faults \subseteq FaultClasses

VARIABLES
  \* the row of each message
  status, attempts, due, lapsed, stale, wamid,
  \* each worker: where it is, the claimed rows it still has to process, what
  \* it read of them, the outcome it is about to write, its maintenance timer
  pc, held, snap, verdict, reply, maintDue,
  \* Meta: accepted copies per message and what became of each of them
  copies, fate,
  \* opt_in of each recipient, or "deleted"
  consent,
  \* history: something happened to the message that may cost a second copy;
  \* the recipient left between the worker's check and its call to Meta
  excused, raced,
  faults

rowVars    == <<status, attempts, due, lapsed, stale, wamid>>
workerVars == <<pc, held, snap, verdict, reply, maintDue>>
metaVars   == <<copies, fate>>
vars == <<rowVars, workerVars, metaVars, consent, excused, raced, faults>>

Open      == {"queued", "failed"}
Accepted  == {"sent", "delivered", "read"}
Settled   == Accepted \cup {"dead", "expired"}
Statuses  == {"absent", "sending"} \cup Open \cup Settled
Rejections == {"TEMPLATE", "DEFER", "RETRY_NOW", "GENERIC"}
Verdicts   == {"none", "OPTED_OUT", "NO_RECIPIENT", "DAILY_CAP_REACHED", "SENT"}
              \cup Rejections
Places     == {"idle", "expire", "recover", "claim", "check", "cap", "send",
               "write", "wedged"}

BlankSnap == [attempts |-> 0, linked |-> FALSE]

Init ==
  /\ status = [m \in Messages |-> "absent"]
  /\ attempts = [m \in Messages |-> 0]
  /\ due = [m \in Messages |-> FALSE]
  /\ lapsed = [m \in Messages |-> FALSE]
  /\ stale = [m \in Messages |-> FALSE]
  /\ wamid = [m \in Messages |-> 0]
  /\ pc = [w \in Workers |-> "idle"]
  /\ held = [w \in Workers |-> {}]
  /\ snap = [w \in Workers |-> [m \in Messages |-> BlankSnap]]
  /\ verdict = [w \in Workers |-> "none"]
  /\ reply = [w \in Workers |-> 0]
  /\ maintDue = [w \in Workers |-> TRUE]
  /\ copies = [m \in Messages |-> 0]
  /\ fate = [m \in Messages |-> [n \in 1..MaxCopies |-> "none"]]
  /\ consent = [r \in Recipients |-> "in"]
  /\ excused = [m \in Messages |-> FALSE]
  /\ raced = [w \in Workers |-> FALSE]
  /\ faults = 0

(***************************************************************************)
(* Helpers.  An operator whose name starts with Faulty is a bug the checks *)
(* must catch when it replaces the definition after it; nothing uses it.   *)
(***************************************************************************)
Rank(m) == CASE KindOf[m] = "fuel_theft"   -> 1
             [] KindOf[m] = "fuel_refill"  -> 2
             [] KindOf[m] = "daily_report" -> 3

\* ORDER BY priority, id
Before(m, k) == Rank(m) < Rank(k) \/ (Rank(m) = Rank(k) /\ m < k)

\* The message the dispatch loop of w is at.
Current(w) == CHOOSE m \in held[w] : \A k \in held[w] \ {m} : Before(m, k)

Linked(m) == consent[RecipientOf[m]] # "deleted"

FaultyClaimable == {m \in Messages : /\ status[m] \in Open \cup {"sending"}
                                     /\ due[m] /\ ~lapsed[m]
                                     /\ attempts[m] < MaxAttempts}

Claimable == {m \in Messages : /\ status[m] \in Open
                               /\ due[m] /\ ~lapsed[m]
                               /\ attempts[m] < MaxAttempts}

\* The first BatchLimit claimable rows in claim order.
Batch == {m \in Claimable :
            Cardinality({k \in Claimable : Before(k, m)}) < BatchLimit}

\* markExpiredMessages' WHERE clause
FaultyExpirable == {m \in Messages : status[m] = "queued" /\ lapsed[m]}
Expirable == {m \in Messages : status[m] \in Open /\ lapsed[m]}

SentToday == Cardinality({m \in Messages : status[m] \in Accepted})

FaultyCapReached == SentToday > DailyCap
CapReached == SentToday >= DailyCap

\* the opt_in that the SELECT before dispatch returns
FaultyOptedIn(r) == consent[r] # "deleted"
OptedIn(r) == consent[r] = "in"

\* isDead after a generic error
FaultySpent(tries) == tries > MaxAttempts
Spent(tries) == tries >= MaxAttempts

\* the status written for an outcome
Outcome(v, tries) ==
  IF v = "SENT" THEN "sent"
  ELSE IF v \in {"NO_RECIPIENT", "TEMPLATE"} \/ (v = "GENERIC" /\ Spent(tries))
    THEN "dead" ELSE "failed"

\* where the batch goes with these rows left
FaultyContinue(rows) == "check"
Continue(rows) == IF rows = {} THEN "idle" ELSE "check"

\* the CASE of the webhook's UPDATE for 'sent' and for 'delivered'
FaultyOnSent(s) == "sent"
OnSent(s) == IF s \in {"delivered", "read"} THEN s ELSE "sent"
OnDelivered(s) == IF s = "read" THEN "read" ELSE "delivered"

HeldBySomeone(m) == \E w \in Workers : m \in held[w]

\* w was told that Meta accepted m and has not stored it yet
Unstored(w, m) == pc[w] = "write" /\ verdict[w] = "SENT" /\ m \in held[w]
                  /\ m = Current(w)

Fault(class) == class \in Faults /\ faults < MaxFaults /\ faults' = faults + 1

\* Every UPDATE of a row also sets updated_at.
SetStatus(m, s) == status' = [status EXCEPT ![m] = s]
                   /\ stale' = [stale EXCEPT ![m] = FALSE]

\* The worker is done with the row it was at: next row, or end of the batch.
Advance(w) ==
  /\ held' = [held EXCEPT ![w] = @ \ {Current(w)}]
  /\ snap' = [snap EXCEPT ![w][Current(w)] = BlankSnap]
  /\ pc' = [pc EXCEPT ![w] = Continue(held[w] \ {Current(w)})]
  /\ verdict' = [verdict EXCEPT ![w] = "none"]
  /\ reply' = [reply EXCEPT ![w] = 0]
  /\ UNCHANGED maintDue

GoTo(w, place) == /\ pc' = [pc EXCEPT ![w] = place]
                  /\ UNCHANGED <<held, snap, verdict, reply, maintDue>>

Decide(w, v) == /\ pc' = [pc EXCEPT ![w] = "write"]
                /\ verdict' = [verdict EXCEPT ![w] = v]
                /\ UNCHANGED <<held, snap, maintDue>>

(***************************************************************************)
(* Producers: INSERT ... ON CONFLICT DO NOTHING for an opted-in recipient. *)
(***************************************************************************)
Enqueue(m) ==
  /\ status[m] = "absent" /\ OptedIn(RecipientOf[m])
  /\ \A k \in Messages : k < m => status[k] # "absent"
  /\ SetStatus(m, "queued")
  /\ due' = [due EXCEPT ![m] = TRUE]
  /\ UNCHANGED <<attempts, lapsed, wamid, workerVars, metaVars, consent,
                 excused, raced, faults>>

(***************************************************************************)
(* The worker.  A process runs one batch at a time (isProcessing).         *)
(***************************************************************************)
Tick(w) ==
  /\ pc[w] = "idle"
  /\ pc' = [pc EXCEPT ![w] = IF maintDue[w] THEN "expire" ELSE "claim"]
  /\ maintDue' = [maintDue EXCEPT ![w] = FALSE]
  /\ UNCHANGED <<held, snap, verdict, reply, rowVars, metaVars, consent,
                 excused, raced, faults>>

MarkExpired(w) ==
  /\ pc[w] = "expire"
  /\ status' = [m \in Messages |-> IF m \in Expirable THEN "expired" ELSE status[m]]
  /\ stale' = [m \in Messages |-> stale[m] /\ m \notin Expirable]
  /\ GoTo(w, "recover")
  /\ UNCHANGED <<attempts, due, lapsed, wamid, metaVars, consent, excused,
                 raced, faults>>

\* A row taken back from a worker that still holds it may be sent twice.
RecoverStuck(w) ==
  /\ pc[w] = "recover"
  /\ LET stuck == {m \in Messages : status[m] = "sending" /\ stale[m]}
     IN /\ status' = [m \in Messages |-> IF m \in stuck THEN "queued" ELSE status[m]]
        /\ due' = [m \in Messages |-> due[m] \/ m \in stuck]
        /\ stale' = [m \in Messages |-> stale[m] /\ m \notin stuck]
        /\ excused' = [m \in Messages |->
                         excused[m] \/ (m \in stuck /\ HeldBySomeone(m))]
  /\ GoTo(w, "claim")
  /\ UNCHANGED <<attempts, lapsed, wamid, metaVars, consent, raced, faults>>

\* Both maintenance queries catch their own error and the batch goes on.
MaintenanceFails(w) ==
  /\ pc[w] \in {"expire", "recover"}
  /\ Fault("db")
  /\ GoTo(w, IF pc[w] = "expire" THEN "recover" ELSE "claim")
  /\ UNCHANGED <<rowVars, metaVars, consent, excused, raced>>

\* SELECT ... FOR UPDATE SKIP LOCKED, UPDATE ... 'sending', COMMIT.
Claim(w) ==
  /\ pc[w] = "claim"
  /\ status' = [m \in Messages |-> IF m \in Batch THEN "sending" ELSE status[m]]
  /\ stale' = [m \in Messages |-> stale[m] /\ m \notin Batch]
  /\ held' = [held EXCEPT ![w] = Batch]
  /\ snap' = [snap EXCEPT ![w] =
                [m \in Messages |->
                   IF m \in Batch
                     THEN [attempts |-> attempts[m], linked |-> Linked(m)]
                     ELSE BlankSnap]]
  /\ pc' = [pc EXCEPT ![w] = Continue(Batch)]
  /\ UNCHANGED <<verdict, reply, maintDue, attempts, due, lapsed, wamid,
                 metaVars, consent, excused, raced, faults>>

\* The claim transaction fails: ROLLBACK, isProcessing = false.
ClaimFails(w) ==
  /\ pc[w] = "claim"
  /\ Fault("db")
  /\ GoTo(w, "idle")
  /\ UNCHANGED <<rowVars, metaVars, consent, excused, raced>>

\* pool.connect() rejects outside of the try block: isProcessing stays true
\* and every later tick of this process returns at once.
ConnectFails(w) ==
  /\ pc[w] = "claim"
  /\ Fault("connect")
  /\ GoTo(w, "wedged")
  /\ UNCHANGED <<rowVars, metaVars, consent, excused, raced>>

\* The opt-in of the recipient is read again just before dispatch.
CheckOptIn(w) ==
  /\ pc[w] = "check"
  /\ LET m == Current(w) IN
     /\ \/ /\ ~snap[w][m].linked
           /\ Decide(w, "NO_RECIPIENT")
        \/ /\ snap[w][m].linked /\ ~OptedIn(RecipientOf[m])
           /\ Decide(w, "OPTED_OUT")
        \/ /\ snap[w][m].linked /\ OptedIn(RecipientOf[m])
           /\ pc' = [pc EXCEPT ![w] = IF KindOf[m] = "daily_report"
                                        THEN "cap" ELSE "send"]
           /\ UNCHANGED <<held, snap, verdict, maintDue>>
  /\ raced' = [raced EXCEPT ![w] = FALSE]
  /\ UNCHANGED <<reply, rowVars, metaVars, consent, excused, faults>>

CheckDailyCap(w) ==
  /\ pc[w] = "cap"
  /\ \/ CapReached /\ Decide(w, "DAILY_CAP_REACHED") /\ UNCHANGED reply
     \/ ~CapReached /\ GoTo(w, "send")
  /\ UNCHANGED <<rowVars, metaVars, consent, excused, raced, faults>>

\* Meta takes a copy of m on; n is the ordinal that stands for its wamid.
Accept(m) ==
  /\ copies[m] < MaxCopies
  /\ copies' = [copies EXCEPT ![m] = @ + 1]
  /\ fate' = [fate EXCEPT ![m][copies[m] + 1] = "accepted"]

SendAccepted(w) ==
  /\ pc[w] = "send"
  /\ Accept(Current(w))
  /\ Decide(w, "SENT")
  /\ reply' = [reply EXCEPT ![w] = copies[Current(w)] + 1]
  /\ UNCHANGED <<rowVars, consent, excused, raced, faults>>

\* axios gives up after 10 s (or loses the connection) although Meta accepted:
\* sendTemplate reports an error without a Meta code.
SendTimesOut(w) ==
  /\ pc[w] = "send"
  /\ Fault("timeout")
  /\ Accept(Current(w))
  /\ Decide(w, "GENERIC")
  /\ excused' = [excused EXCEPT ![Current(w)] = TRUE]
  /\ UNCHANGED <<reply, rowVars, consent, raced>>

\* Meta answers with an error code.  TEMPLATE stands for 132000/132001/132015,
\* DEFER for 100/190/131030, RETRY_NOW for 131047/131026, GENERIC for the rest.
SendRejected(w, code) ==
  /\ pc[w] = "send"
  /\ Decide(w, code)
  /\ UNCHANGED <<reply, rowVars, metaVars, consent, excused, raced, faults>>

\* The row is updated by id alone, whatever its status has become meanwhile.
RecordVerdict(w) ==
  /\ pc[w] = "write"
  /\ LET m == Current(w)
         v == verdict[w]
         tries == snap[w][m].attempts + 1
     IN
     /\ SetStatus(m, Outcome(v, tries))
     /\ attempts' = [attempts EXCEPT ![m] = IF v = "SENT" THEN @ + 1
                                            ELSE IF v = "GENERIC" THEN tries ELSE @]
     /\ due' = [due EXCEPT ![m] =
                  @ /\ v \notin {"GENERIC", "DEFER", "DAILY_CAP_REACHED"}]
     /\ wamid' = [wamid EXCEPT ![m] = IF v = "SENT" THEN reply[w] ELSE @]
  /\ Advance(w)
  /\ raced' = [raced EXCEPT ![w] = FALSE]
  /\ UNCHANGED <<lapsed, metaVars, consent, excused, faults>>

\* A query of the dispatch loop throws: the row is left as it is, 'sending'.
DispatchThrows(w) ==
  /\ pc[w] \in {"check", "cap", "write"}
  /\ Fault("db")
  /\ excused' = [m \in Messages |-> excused[m] \/ Unstored(w, m)]
  /\ Advance(w)
  /\ raced' = [raced EXCEPT ![w] = FALSE]
  /\ UNCHANGED <<rowVars, metaVars, consent>>

\* kill -9, OOM or deploy at any point; PM2 starts the process again.
Crash(w) ==
  /\ pc[w] # "idle"
  /\ Fault("crash")
  /\ excused' = [m \in Messages |-> excused[m] \/ Unstored(w, m)]
  /\ pc' = [pc EXCEPT ![w] = "idle"]
  /\ held' = [held EXCEPT ![w] = {}]
  /\ snap' = [snap EXCEPT ![w] = [m \in Messages |-> BlankSnap]]
  /\ verdict' = [verdict EXCEPT ![w] = "none"]
  /\ reply' = [reply EXCEPT ![w] = 0]
  /\ maintDue' = [maintDue EXCEPT ![w] = TRUE]
  /\ raced' = [raced EXCEPT ![w] = FALSE]
  /\ UNCHANGED <<rowVars, metaVars, consent>>

(***************************************************************************)
(* Time: a backoff ends, a message passes expires_at, a row in 'sending'   *)
(* outlives the visibility timeout, a worker's maintenance minute is over. *)
(***************************************************************************)
BackoffElapses(m) ==
  /\ status[m] \in Open /\ ~due[m]
  /\ due' = [due EXCEPT ![m] = TRUE]
  /\ UNCHANGED <<status, attempts, lapsed, stale, wamid, workerVars, metaVars,
                 consent, excused, raced, faults>>

TtlElapses(m) ==
  /\ status[m] \in Open \cup {"sending"} /\ ~lapsed[m]
  /\ lapsed' = [lapsed EXCEPT ![m] = TRUE]
  /\ UNCHANGED <<status, attempts, due, stale, wamid, workerVars, metaVars,
                 consent, excused, raced, faults>>

VisibilityElapses(m) ==
  /\ status[m] = "sending" /\ ~stale[m]
  /\ stale' = [stale EXCEPT ![m] = TRUE]
  /\ UNCHANGED <<status, attempts, due, lapsed, wamid, workerVars, metaVars,
                 consent, excused, raced, faults>>

MinuteElapses(w) ==
  /\ ~maintDue[w]
  /\ maintDue' = [maintDue EXCEPT ![w] = TRUE]
  /\ UNCHANGED <<pc, held, snap, verdict, reply, rowVars, metaVars, consent,
                 excused, raced, faults>>

(***************************************************************************)
(* Meta's webhook.  Callbacks for copy n of m come in any order and any    *)
(* number of times; a copy never both fails and reaches the phone.  The    *)
(* row changes only if it carries that wamid.                              *)
(***************************************************************************)
Reported(m, n, outcome) ==
  /\ n \in 1..copies[m]
  /\ fate[m][n] \in {"accepted", outcome}
  /\ fate' = [fate EXCEPT ![m][n] = outcome]

StatusDelivered(m, n) ==
  /\ Reported(m, n, "delivered")
  /\ IF wamid[m] = n
       THEN SetStatus(m, OnDelivered(status[m]))
       ELSE UNCHANGED <<status, stale>>
  /\ UNCHANGED <<attempts, due, lapsed, wamid, workerVars, copies, consent,
                 excused, raced, faults>>

StatusRead(m, n) ==
  /\ Reported(m, n, "delivered")
  /\ IF wamid[m] = n THEN SetStatus(m, "read") ELSE UNCHANGED <<status, stale>>
  /\ UNCHANGED <<attempts, due, lapsed, wamid, workerVars, copies, consent,
                 excused, raced, faults>>

StatusSent(m, n) ==
  /\ n \in 1..copies[m]
  /\ wamid[m] = n
  /\ SetStatus(m, OnSent(status[m]))
  /\ UNCHANGED <<attempts, due, lapsed, wamid, workerVars, metaVars, consent,
                 excused, raced, faults>>

StatusFailed(m, n) ==
  /\ "async" \in Faults
  /\ Reported(m, n, "failed")
  /\ IF wamid[m] = n
       THEN /\ SetStatus(m, "failed")
            /\ excused' = [excused EXCEPT ![m] = TRUE]
       ELSE UNCHANGED <<status, stale, excused>>
  /\ UNCHANGED <<attempts, due, lapsed, wamid, workerVars, copies, consent,
                 raced, faults>>

(***************************************************************************)
(* Consent.  Stop and Start are the keywords of an inbound message; the    *)
(* dashboard toggles the same column.  Deleting a recipient sets the       *)
(* recipient_id of its rows to NULL.                                       *)
(***************************************************************************)
Withdraw(r, c) ==
  /\ "consent" \in Faults
  /\ consent' = [consent EXCEPT ![r] = c]
  /\ raced' = [w \in Workers |->
                 raced[w] \/ (pc[w] \in {"cap", "send"} /\ RecipientOf[Current(w)] = r)]
  /\ UNCHANGED <<rowVars, workerVars, metaVars, excused, faults>>

Stop(r) == consent[r] = "in" /\ Withdraw(r, "out")

DeleteRecipient(r) == consent[r] # "deleted" /\ Withdraw(r, "deleted")

Start(r) ==
  /\ consent[r] = "out"
  /\ consent' = [consent EXCEPT ![r] = "in"]
  /\ UNCHANGED <<rowVars, workerVars, metaVars, excused, raced, faults>>

\* POST /api/whatsapp/messages/:id/retry resets the row whatever its status.
Retry(m) ==
  /\ status[m] # "absent"
  /\ Fault("operator")
  /\ SetStatus(m, "queued")
  /\ attempts' = [attempts EXCEPT ![m] = 0]
  /\ due' = [due EXCEPT ![m] = TRUE]
  /\ excused' = [excused EXCEPT ![m] = @ \/ copies[m] > 0 \/ HeldBySomeone(m)]
  /\ UNCHANGED <<lapsed, wamid, workerVars, metaVars, consent, raced>>

Dispatch(w) == \/ CheckOptIn(w) \/ CheckDailyCap(w)
               \/ SendAccepted(w) \/ SendTimesOut(w)
               \/ (\E code \in Rejections : SendRejected(w, code))
               \/ RecordVerdict(w) \/ DispatchThrows(w)

Poll(w) == \/ Tick(w) \/ MarkExpired(w) \/ RecoverStuck(w)
           \/ MaintenanceFails(w) \/ Claim(w) \/ ClaimFails(w)
           \/ ConnectFails(w)

Clock == \/ \E m \in Messages : BackoffElapses(m)
         \/ \E m \in Messages : TtlElapses(m)
         \/ \E m \in Messages : VisibilityElapses(m)
         \/ \E w \in Workers : MinuteElapses(w)

Webhook == \/ \E m \in Messages, n \in 1..MaxCopies : StatusDelivered(m, n)
           \/ \E m \in Messages, n \in 1..MaxCopies : StatusRead(m, n)
           \/ \E m \in Messages, n \in 1..MaxCopies : StatusSent(m, n)
           \/ \E m \in Messages, n \in 1..MaxCopies : StatusFailed(m, n)
           \/ \E r \in Recipients : Stop(r) \/ Start(r)

Http == \/ \E r \in Recipients : DeleteRecipient(r)
        \/ \E m \in Messages : Retry(m)

Next == \/ \E m \in Messages : Enqueue(m)
        \/ \E w \in Workers : Poll(w) \/ Dispatch(w) \/ Crash(w)
        \/ Clock \/ Webhook \/ Http

Spec == Init /\ [][Next]_vars

(***************************************************************************)
(* The interval timer fires, awaited calls return and time passes; faults, *)
(* callbacks, customers and operators owe nothing.                         *)
(***************************************************************************)
WorkerStep(w) == \/ Tick(w) \/ MarkExpired(w) \/ RecoverStuck(w) \/ Claim(w)
                 \/ CheckOptIn(w) \/ CheckDailyCap(w) \/ SendAccepted(w)
                 \/ (\E code \in Rejections : SendRejected(w, code))
                 \/ RecordVerdict(w)

Fairness == /\ \A w \in Workers : WF_vars(WorkerStep(w))
            /\ \A w \in Workers : WF_vars(MinuteElapses(w))
            /\ \A m \in Messages : WF_vars(TtlElapses(m))
            /\ \A m \in Messages : WF_vars(VisibilityElapses(m))

FairSpec == Spec /\ Fairness

(***************************************************************************)
(* Properties.                                                             *)
(***************************************************************************)
Dispatching(w) == pc[w] \in {"check", "cap", "send", "write"}

\* Every variable has its type, a worker has a current row exactly while it
\* dispatches, and rows Meta never took carry no wamid.
TypeOK ==
  /\ status \in [Messages -> Statuses]
  /\ attempts \in [Messages -> Nat]
  /\ due \in [Messages -> BOOLEAN]
  /\ lapsed \in [Messages -> BOOLEAN]
  /\ stale \in [Messages -> BOOLEAN]
  /\ wamid \in [Messages -> Nat]
  /\ pc \in [Workers -> Places]
  /\ held \in [Workers -> SUBSET Messages]
  /\ \A w \in Workers : Dispatching(w) <=> held[w] # {}
  /\ snap \in [Workers -> [Messages -> [attempts : Nat, linked : BOOLEAN]]]
  /\ verdict \in [Workers -> Verdicts]
  /\ reply \in [Workers -> Nat]
  /\ maintDue \in [Workers -> BOOLEAN]
  /\ copies \in [Messages -> 0..MaxCopies]
  /\ fate \in [Messages -> [1..MaxCopies -> {"none", "accepted", "delivered", "failed"}]]
  /\ consent \in [Recipients -> {"in", "out", "deleted"}]
  /\ excused \in [Messages -> BOOLEAN]
  /\ raced \in [Workers -> BOOLEAN]
  /\ faults \in Nat

\* Meta is given a second copy of a message only after one of the four things
\* that make the outbox at-least-once: its outcome was not stored (crash,
\* failed UPDATE), the call timed out, Meta reported a failure after accepting,
\* or the row was taken back from a worker that still held it.  Claiming with
\* SKIP LOCKED and 'sending' must exclude every other way.
DuplicateOnlyWhenExcused ==
  \A m \in Messages : ~excused[m] => copies[m] <= 1

\* No two workers process one row at a time, unless the visibility timeout or
\* an operator took it back from the first.
ExclusiveHold ==
  \A m \in Messages : ~excused[m] =>
    \A v, w \in Workers : m \in held[v] /\ m \in held[w] => v = w

\* The row of an unexcused message agrees with its holders and with Meta: held
\* rows are 'sending'; Meta has a copy exactly when the row says so or its
\* holder is about to; unheld 'sending' rows were never sent and may be retried.
RowAgrees(m) ==
  /\ status[m] \in Accepted => copies[m] = 1
  /\ status[m] \notin Accepted \cup {"sending"} => copies[m] = 0
  /\ status[m] = "sending" /\ ~HeldBySomeone(m) => copies[m] = 0
  /\ wamid[m] # 0 => status[m] \in Accepted
  /\ \A w \in Workers : m \in held[w] =>
       /\ status[m] = "sending"
       /\ IF Unstored(w, m) THEN copies[m] = 1 ELSE copies[m] = 0

\* The inductive invariant behind the two properties above.
RowInv ==
  /\ ExclusiveHold
  /\ \A m \in Messages : ~excused[m] => RowAgrees(m)

\* A row that waits for another attempt always has one left: it is never parked
\* as 'failed' with its budget spent, where neither the claim query nor the
\* dead-letter status would ever show it.
NoStrandedRow ==
  \A m \in Messages :
    status[m] \in Open \cup {"sending"} /\ ~excused[m] => attempts[m] < MaxAttempts

\* The cap check counts rows before each report is sent: with one worker the
\* reports Meta accepts never exceed the cap, alerts being exempt but counted.
CapRespected ==
  (\A m \in Messages : ~excused[m]) =>
    Cardinality({m \in Messages : KindOf[m] = "daily_report" /\ copies[m] > 0})
      <= DailyCap

Progress(s) == CASE s = "sent" -> 1 [] s = "delivered" -> 2 [] s = "read" -> 3
                 [] OTHER -> 0

\* A settled row is final: callbacks only move it on from sent to delivered to
\* read in whatever order they arrive, and only the operator reopens it.
SettledStays ==
  [][\A m \in Messages :
       status[m] \in Settled /\ status'[m] # status[m] /\ ~excused'[m] =>
         \/ status'[m] = "queued" /\ attempts'[m] = 0
         \/ 0 < Progress(status[m]) /\ Progress(status[m]) < Progress(status'[m])]_vars

\* Meta is never handed a message for a recipient who has opted out or was
\* deleted, except in the window between the last check and the call itself.
OptOutRespected ==
  [][\A w \in Workers :
       pc[w] = "send" /\ copies' # copies /\ pc'[w] = "write" =>
         consent[RecipientOf[Current(w)]] = "in" \/ raced[w]]_vars

\* The outbox implements MessageLifecycle: whatever the workers, the callbacks, the
\* operator and the faults do, a message that nothing excuses goes through its
\* lifecycle one allowed move at a time; the excused ones are disturbed.
LifePhase(m) == IF excused[m] THEN "disturbed"
                ELSE IF status[m] \in Open THEN "waiting"
                ELSE IF status[m] = "sending" THEN "attempting"
                ELSE IF status[m] = "absent" THEN "none"
                ELSE status[m]

LifePhases == [m \in Messages |-> LifePhase(m)]

LifeTries == [m \in Messages |->
                IF LifePhase(m) \in {"waiting", "attempting"} THEN attempts[m] ELSE 0]

LifeGiven == [m \in Messages |-> IF excused[m] THEN 0 ELSE copies[m]]

Lifecycle == INSTANCE MessageLifecycle
               WITH phase <- LifePhases, tries <- LifeTries, given <- LifeGiven

Implements == Lifecycle!Spec

\* Every queued message is eventually sent, dead or expired, through crashes,
\* failed queries and timeouts (at most MaxFaults of them).
EventuallySettles ==
  \A m \in Messages : status[m] = "queued" ~> status[m] \in Settled

(***************************************************************************)
(* What the documents say of the same program.                             *)
(***************************************************************************)
\* docs/WHATSAPP.md: the worker runs every three seconds.
WorkerKeepsPolling == \A w \in Workers : []<>(pc[w] = "idle")
=============================================================================
