--------------------------- MODULE AlertSubscriber ---------------------------
(***************************************************************************)
(* The handler of the Redis channel 'alerts' for one vehicle               *)
(* (backend/subscribers/alertSubscriber.js) and the producer of WhatsApp   *)
(* rows it calls (notificationService.enqueueWhatsAppAlert).               *)
(*                                                                         *)
(* The handler is not awaited: a handler runs per message, and they        *)
(* interleave at every await.  A step is one Redis command or SQL          *)
(* statement with the code that runs up to it.  Keys that expire are       *)
(* present or absent, and time is the actions that remove them.            *)
(***************************************************************************)
EXTENDS Integers, Sequences, FiniteSets

CONSTANTS
  Ids,            \* bound: messages published, numbered in order
  MaxAlertFaults  \* bound: failed calls and restarts in a behaviour

ASSUME AlertAssumption == MaxAlertFaults \in Nat

VARIABLES
  kind,      \* type of each message, "none" before it is published
  about,     \* what it reports on, a number of the publisher's
  stage,     \* where its handler is
  lastState, \* vehicle:main_battery_state as the handler read it
  battery,   \* vehicle:main_battery_state
  cooldown,  \* alert_cooldown:<vehicle>:<type> exists
  theftKey,  \* whatsapp:cooldown:theft:<vehicle> exists
  saved,     \* rows of alerts, in order of insertion
  queued,    \* messages with rows in whatsapp_messages
  alertFaults,
  passed,    \* history: messages that passed the cooldown since the key was set
  theftBy,   \* history: messages that took theftKey since it was last absent
  overlapped, \* history: messages handled while another of their kind was
  broken,    \* history: messages one of whose calls failed
  silent,    \* history: the battery state moved on and no row tells it
  lapsed     \* history: the battery state expired

alertVars == <<kind, about, stage, lastState, battery, cooldown, theftKey, saved, queued,
               alertFaults, passed, theftBy, overlapped, broken, silent, lapsed>>

BatteryKinds == {"battery_off", "battery_on"}
AlertKinds   == BatteryKinds \cup {"fuel_theft", "fuel_refill_final"}
Running      == {"resolve", "latch", "move", "check", "arm", "save", "reserve", "insert"}
AlertStages  == {"absent", "channel", "filtered", "duplicate", "held", "nobody", "done",
                 "lost"} \cup Running

AlertInit ==
  /\ kind = [m \in Ids |-> "none"] /\ about = [m \in Ids |-> 0]
  /\ stage = [m \in Ids |-> "absent"]
  /\ lastState = [m \in Ids |-> "unknown"]
  /\ battery = "unknown"
  /\ cooldown = [k \in AlertKinds |-> FALSE]
  /\ theftKey = FALSE
  /\ saved = <<>> /\ queued = {}
  /\ alertFaults = 0
  /\ passed = [k \in AlertKinds |-> {}]
  /\ theftBy = {}
  /\ overlapped = {} /\ broken = {} /\ silent = FALSE /\ lapsed = FALSE

\* Handlers of the same switch run at the same time as m's.
Family(k) == IF k \in BatteryKinds THEN BatteryKinds ELSE {k}
Rivals(m) == {n \in Ids \ {m} : stage[n] \in Running /\ kind[n] \in Family(kind[m])}

FaultyStateAfter(k) == IF k = "battery_off" THEN "unknown" ELSE "connected"
StateAfter(k) == IF k = "battery_off" THEN "disconnected" ELSE "connected"

GoOn(m, s) == stage' = [stage EXCEPT ![m] = s]
Break(m)   == /\ alertFaults < MaxAlertFaults
              /\ alertFaults' = alertFaults + 1
              /\ broken' = broken \cup {m}

\* The battery state has moved and m's row will not be written.
Silences(m) == silent' = (silent \/ kind[m] \in BatteryKinds)

(***************************************************************************)
(* Publication and delivery.                                               *)
(***************************************************************************)
PublishAlert(m, k, x) ==
  /\ kind[m] = "none" /\ \A n \in Ids : n < m => kind[n] # "none"
  /\ kind' = [kind EXCEPT ![m] = k]
  /\ about' = [about EXCEPT ![m] = x]
  /\ GoOn(m, "channel")
  /\ UNCHANGED <<lastState, battery, cooldown, theftKey, saved, queued, alertFaults, passed,
                 theftBy, overlapped, broken, silent, lapsed>>

\* The message event: messages of a channel are delivered in order.
Deliver(m) ==
  /\ stage[m] = "channel" /\ \A n \in Ids : n < m => stage[n] # "channel"
  /\ GoOn(m, "resolve")
  /\ overlapped' = IF Rivals(m) = {} THEN overlapped ELSE overlapped \cup Rivals(m) \cup {m}
  /\ UNCHANGED <<kind, about, lastState, battery, cooldown, theftKey, saved, queued,
                 alertFaults, passed, theftBy, broken, silent, lapsed>>

\* findByImei answers, from Redis or from the database.
Resolve(m) ==
  /\ stage[m] = "resolve"
  /\ GoOn(m, IF kind[m] \in BatteryKinds THEN "latch" ELSE "check")
  /\ UNCHANGED <<kind, about, lastState, battery, cooldown, theftKey, saved, queued,
                 alertFaults, passed, theftBy, overlapped, broken, silent, lapsed>>

(***************************************************************************)
(* The battery latch: GET, then SET.                                       *)
(***************************************************************************)
ReadLatch(m) ==
  /\ stage[m] = "latch"
  /\ lastState' = [lastState EXCEPT ![m] = battery]
  /\ GoOn(m, IF battery = StateAfter(kind[m]) THEN "filtered" ELSE "move")
  /\ UNCHANGED <<kind, about, battery, cooldown, theftKey, saved, queued, alertFaults, passed,
                 theftBy, overlapped, broken, silent, lapsed>>

\* A failed GET reads as no state.
ReadLatchFails(m) ==
  /\ stage[m] = "latch"
  /\ Break(m)
  /\ GoOn(m, "move")
  /\ UNCHANGED <<kind, about, lastState, battery, cooldown, theftKey, saved, queued, passed,
                 theftBy, overlapped, silent, lapsed>>

\* A first "connected" only initialises the latch.
FaultyFirstConnect(m) == lastState[m] = "unknown"
LoudFirstConnect(m) == FALSE
FirstConnect(m) == kind[m] = "battery_on" /\ lastState[m] = "unknown"

WriteLatch(m) ==
  /\ stage[m] = "move"
  /\ battery' = StateAfter(kind[m])
  /\ GoOn(m, IF FirstConnect(m) THEN "filtered" ELSE "check")
  /\ UNCHANGED <<kind, about, lastState, cooldown, theftKey, saved, queued, alertFaults, passed,
                 theftBy, overlapped, broken, silent, lapsed>>

WriteLatchFails(m) ==
  /\ stage[m] = "move"
  /\ Break(m)
  /\ GoOn(m, IF FirstConnect(m) THEN "filtered" ELSE "check")
  /\ UNCHANGED <<kind, about, lastState, battery, cooldown, theftKey, saved, queued, passed,
                 theftBy, overlapped, silent, lapsed>>

(***************************************************************************)
(* The cooldown: GET, then SET.                                            *)
(***************************************************************************)
FaultyCooling(k) == FALSE
Cooling(k) == cooldown[k]

ReadCooldown(m) ==
  /\ stage[m] = "check"
  /\ IF Cooling(kind[m]) THEN GoOn(m, "duplicate") /\ Silences(m)
                         ELSE GoOn(m, "arm") /\ UNCHANGED silent
  /\ UNCHANGED <<kind, about, lastState, battery, cooldown, theftKey, saved, queued,
                 alertFaults, passed, theftBy, overlapped, broken, lapsed>>

\* The type whose key is set: the type after the latch renamed the alert.
FaultyCooledKind(k) == "fuel_refill_final"
CooledKind(k) == k

SetCooldown(m) ==
  /\ stage[m] = "arm"
  /\ cooldown' = [cooldown EXCEPT ![CooledKind(kind[m])] = TRUE]
  /\ passed' = [passed EXCEPT ![kind[m]] = @ \cup {m}]
  /\ GoOn(m, "save")
  /\ UNCHANGED <<kind, about, lastState, battery, theftKey, saved, queued, alertFaults, theftBy,
                 overlapped, broken, silent, lapsed>>

\* GET or SET fails: a warning, and the alert is saved all the same.
CooldownFails(m) ==
  /\ stage[m] \in {"check", "arm"}
  /\ Break(m)
  /\ GoOn(m, "save")
  /\ UNCHANGED <<kind, about, lastState, battery, cooldown, theftKey, saved, queued, passed,
                 theftBy, overlapped, silent, lapsed>>

(***************************************************************************)
(* The row, and the WhatsApp rows.                                         *)
(***************************************************************************)
SaveAlert(m) ==
  /\ stage[m] = "save"
  /\ saved' = Append(saved, m)
  /\ GoOn(m, CASE kind[m] = "fuel_theft"        -> "reserve"
               [] kind[m] = "fuel_refill_final" -> "insert"
               [] OTHER                         -> "done")
  /\ UNCHANGED <<kind, about, lastState, battery, cooldown, theftKey, queued, alertFaults, passed,
                 theftBy, overlapped, broken, silent, lapsed>>

\* findByImei or the INSERT throws: the outer catch ends the handler.
HandlerFails(m) ==
  /\ stage[m] \in {"resolve", "save"}
  /\ Break(m)
  /\ IF stage[m] = "save" THEN Silences(m) ELSE UNCHANGED silent
  /\ GoOn(m, "lost")
  /\ UNCHANGED <<kind, about, lastState, battery, cooldown, theftKey, saved, queued, passed,
                 theftBy, overlapped, lapsed>>

\* SET ... EX 600 NX
FaultyReservable == TRUE
Reservable == ~theftKey

Reserve(m) ==
  /\ stage[m] = "reserve"
  /\ IF Reservable THEN theftKey' = TRUE /\ theftBy' = theftBy \cup {m} /\ GoOn(m, "insert")
                   ELSE GoOn(m, "held") /\ UNCHANGED <<theftKey, theftBy>>
  /\ UNCHANGED <<kind, about, lastState, battery, cooldown, saved, queued, alertFaults, passed,
                 overlapped, broken, silent, lapsed>>

\* A row per recipient who opted in to the type and has the vehicle in scope.
\* Without one nothing is inserted, and a theft has taken its key for nobody.
InsertRows(m) ==
  /\ stage[m] = "insert"
  /\ \/ queued' = queued \cup {m} /\ GoOn(m, "done")
     \/ UNCHANGED queued /\ GoOn(m, "nobody")
  /\ UNCHANGED <<kind, about, lastState, battery, cooldown, theftKey, saved, alertFaults, passed,
                 theftBy, overlapped, broken, silent, lapsed>>

\* The SET, the query of the recipients or the INSERT throws: caught and logged.
EnqueueFails(m) ==
  /\ stage[m] \in {"reserve", "insert"}
  /\ Break(m)
  /\ GoOn(m, "done")
  /\ UNCHANGED <<kind, about, lastState, battery, cooldown, theftKey, saved, queued, passed,
                 theftBy, overlapped, silent, lapsed>>

(***************************************************************************)
(* Time and restarts of the API process.                                   *)
(***************************************************************************)
CooldownExpires(k) ==
  /\ cooldown[k]
  /\ cooldown' = [cooldown EXCEPT ![k] = FALSE]
  /\ passed' = [passed EXCEPT ![k] = {}]
  /\ UNCHANGED <<kind, about, stage, lastState, battery, theftKey, saved, queued, alertFaults,
                 theftBy, overlapped, broken, silent, lapsed>>

TheftKeyExpires ==
  /\ theftKey
  /\ theftKey' = FALSE /\ theftBy' = {}
  /\ UNCHANGED <<kind, about, stage, lastState, battery, cooldown, saved, queued, alertFaults,
                 passed, overlapped, broken, silent, lapsed>>

\* 48 hours after the state last changed.
LatchExpires ==
  /\ battery # "unknown"
  /\ battery' = "unknown"
  /\ lapsed' = TRUE
  /\ UNCHANGED <<kind, about, stage, lastState, cooldown, theftKey, saved, queued, alertFaults,
                 passed, theftBy, overlapped, broken, silent>>

\* Handlers and undelivered messages are gone; the keys are not.
AlertRestart ==
  /\ alertFaults < MaxAlertFaults /\ alertFaults' = alertFaults + 1
  /\ LET cut == {m \in Ids : stage[m] \in Running \cup {"channel"}} IN
     /\ stage' = [m \in Ids |-> IF m \in cut THEN "lost" ELSE stage[m]]
     /\ broken' = broken \cup cut
     /\ silent' = (silent \/ \E m \in cut : kind[m] \in BatteryKinds
                                            /\ stage[m] \in {"check", "arm", "save"})
  /\ UNCHANGED <<kind, about, lastState, battery, cooldown, theftKey, saved, queued, passed,
                 theftBy, overlapped, lapsed>>

AlertStep(m) ==
  \/ Deliver(m) \/ Resolve(m) \/ ReadLatch(m) \/ ReadLatchFails(m)
  \/ WriteLatch(m) \/ WriteLatchFails(m)
  \/ ReadCooldown(m) \/ SetCooldown(m) \/ CooldownFails(m)
  \/ SaveAlert(m) \/ HandlerFails(m) \/ Reserve(m) \/ InsertRows(m) \/ EnqueueFails(m)

AlertTime == TheftKeyExpires \/ LatchExpires \/ \E k \in AlertKinds : CooldownExpires(k)

AlertNext == \/ \E m \in Ids, k \in AlertKinds : PublishAlert(m, k, 0)
             \/ \E m \in Ids : AlertStep(m)
             \/ AlertTime \/ AlertRestart

AlertSpec == AlertInit /\ [][AlertNext]_alertVars

(***************************************************************************)
(* Properties.                                                             *)
(***************************************************************************)
\* Types, and what the latch allows a handler to do with what it read.
AlertTypeOK ==
  /\ kind \in [Ids -> AlertKinds \cup {"none"}]
  /\ stage \in [Ids -> AlertStages]
  /\ lastState \in [Ids -> {"unknown", "disconnected", "connected"}]
  /\ battery \in {"unknown", "disconnected", "connected"}
  /\ cooldown \in [AlertKinds -> BOOLEAN]
  /\ theftKey \in BOOLEAN /\ silent \in BOOLEAN /\ lapsed \in BOOLEAN
  /\ saved \in Seq(Ids)
  /\ queued \subseteq Ids /\ theftBy \subseteq Ids
  /\ overlapped \subseteq Ids /\ broken \subseteq Ids
  /\ passed \in [AlertKinds -> SUBSET Ids]
  /\ alertFaults \in 0 .. MaxAlertFaults
  /\ \A m \in Ids : stage[m] = "move" => lastState[m] # StateAfter(kind[m])

BatteryIds  == {m \in Ids : kind[m] \in BatteryKinds}
BatteryCalm == BatteryIds \cap (overlapped \cup broken) = {} /\ ~silent /\ ~lapsed

\* The first n rows have no row about the main battery, or the last is of type k.
NoneOf(n)    == \A i \in 1 .. n : kind[saved[i]] \notin BatteryKinds
LastOf(n, k) == \E i \in 1 .. n : /\ kind[saved[i]] = k
                                  /\ \A j \in i + 1 .. n : kind[saved[j]] \notin BatteryKinds

\* At rest the last row about the main battery tells the state the latch holds:
\* a cut is told once and a return once, unless handlers overlapped, a call
\* failed, the latch expired, or the cooldown swallowed the row after the latch
\* had moved (alertSubscriber.js:156-205).
LatchTold ==
  BatteryCalm /\ (\A m \in BatteryIds : stage[m] \notin Running) =>
    /\ battery = "disconnected" => LastOf(Len(saved), "battery_off")
    /\ battery = "connected" => NoneOf(Len(saved)) \/ LastOf(Len(saved), "battery_on")

\* Rows about the main battery alternate and start with a cut: repetitions are
\* dropped and a return is told only after a cut, with the same excuses
\* (alertSubscriber.js:156-159).
BatteryAlternates ==
  BatteryCalm =>
    \A i \in 1 .. Len(saved) :
      /\ kind[saved[i]] = "battery_off" => NoneOf(i - 1) \/ LastOf(i - 1, "battery_on")
      /\ kind[saved[i]] = "battery_on" => LastOf(i - 1, "battery_off")

\* One message of a type passes while its cooldown key lives; when several do,
\* all of them were being handled at the same time as another
\* (alertSubscriber.js:228-241).
OncePerCooldown ==
  \A k \in AlertKinds : Cardinality(passed[k]) > 1 => passed[k] \subseteq overlapped

\* A message dropped as a duplicate duplicates one: another message of its type
\* is saved or on its way to be, or one of its calls failed.  In particular the
\* latch and the cooldown use the same name for an alert
\* (alertSubscriber.js:180, 203, 231-236).
DroppedHasOriginal ==
  \A m \in Ids : stage[m] = "duplicate" =>
    \E n \in Ids \ {m} : /\ kind[n] = kind[m]
                        /\ \/ n \in broken
                           \/ stage[n] \in {"save", "reserve", "insert", "held", "nobody", "done"}

\* SET NX lets one theft through per key even when handlers overlap, and a theft
\* held back by the key follows one whose rows exist, are being written, had no
\* recipient, or whose enqueueing failed.  In the last two cases nobody is told of
\* either (notificationService.js:161-196).
TheftOncePerKey ==
  /\ Cardinality(theftBy) <= 1
  /\ \A m \in Ids : stage[m] = "held" =>
       \E n \in Ids \ {m} :
         /\ kind[n] = "fuel_theft"
         /\ n \in queued \cup broken \/ stage[n] \in {"insert", "nobody"}
=============================================================================
