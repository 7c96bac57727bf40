---------------------------- MODULE RefillSession ----------------------------
(***************************************************************************)
(* Refill sessions of one vehicle                                          *)
(* (backend/services/fuelEventAggregator.js, processRefillPacket) and the  *)
(* part of the location subscriber that feeds them: every live packet      *)
(* compares its fuel with the one cached by the packet before it, hands    *)
(* the pair to the aggregator without awaiting it, and caches its own.     *)
(*                                                                         *)
(* Redis executes the commands of the process's one connection in the      *)
(* order they are issued and answers in that order, so a command takes     *)
(* effect when it is issued and `replies' is the queue of handlers waiting *)
(* for an answer.  What a handler read from vehicle:state may be stale: a  *)
(* database query lies between.                                            *)
(***************************************************************************)
EXTENDS Integers, Sequences, FiniteSets

CONSTANTS
  Handlers,        \* bound: packets handled at the same time
  Levels,          \* fuel readings, litres; 0 is the glitch reading
  StartDelta,      \* rise that opens a session
  SettleTolerance, \* change that does not count
  RefillThreshold, \* litres that make a refill
  SettleTime,      \* quiet time that ends a session
  JumpLimit,       \* a longer gap discards the session
  RollbackSlack,   \* how far behind the last packet a live one may be
  MaxTime,         \* bound: device times
  MaxArrivals,     \* bound: packets
  MaxRefillFaults  \* bound: failed commands and restarts

ASSUME RefillAssumption ==
  /\ Levels \subseteq Nat
  /\ {StartDelta, SettleTolerance, RefillThreshold, SettleTime, JumpLimit, RollbackSlack,
      MaxTime, MaxArrivals, MaxRefillFaults} \subseteq Nat

VARIABLES
  step,      \* where each handler is
  packet,    \* its packet, with the fuel it was compared with
  seen,      \* the session it read
  replies,   \* handlers waiting for an answer of Redis, in order
  cached,    \* vehicle:state:<imei>: fuel and device time
  session,   \* refill:session:<vehicle>
  hot,       \* the vehicle is in activeSessionVehicles
  announced, \* refills published
  arrived,   \* packets so far
  refillFaults,
  opened,    \* history: sessions opened so far, which numbers them
  shared,    \* history: sessions two handlers had in hand at once
  backward,  \* history: sessions opened by a packet older than the one before it
  forgotten  \* history: a restart or a failure dropped the set's entry

refillVars == <<step, packet, seen, replies, cached, session, hot, announced, arrived,
                refillFaults, opened, shared, backward, forgotten>>

\* "towed" is moving with the ignition off: both stationary and moving.
Motions  == {"still", "moving", "towed"}
NoSession == [id |-> 0, start |-> 0, peak |-> 0, since |-> 0, before |-> 0]
NoPacket  == [time |-> 0, fuel |-> 0, prev |-> 0, prevTime |-> 0, motion |-> "still"]
NoState   == [fuel |-> 0, time |-> -1]

Stationary(p) == p.motion # "moving"
MovingNow(p)  == p.motion # "still"
Lesser(a, b)  == IF a < b THEN a ELSE b

RefillInit ==
  /\ step = [h \in Handlers |-> "idle"]
  /\ packet = [h \in Handlers |-> NoPacket]
  /\ seen = [h \in Handlers |-> NoSession]
  /\ replies = <<>>
  /\ cached = NoState
  /\ session = NoSession
  /\ hot = FALSE
  /\ announced = <<>>
  /\ arrived = 0 /\ refillFaults = 0 /\ opened = 0
  /\ shared = {} /\ backward = {} /\ forgotten = FALSE

Waiting(h)  == \E i \in 1 .. Len(replies) : replies[i] = h
Answered(h) == replies # <<>> /\ h = Head(replies)
Free(h)     == /\ step' = [step EXCEPT ![h] = "idle"]
               /\ packet' = [packet EXCEPT ![h] = NoPacket]
               /\ seen' = [seen EXCEPT ![h] = NoSession]

(***************************************************************************)
(* The location subscriber.                                                *)
(***************************************************************************)
\* The first packet of a vehicle only caches its state.
FirstPacket(t, f) ==
  /\ cached = NoState /\ arrived < MaxArrivals
  /\ arrived' = arrived + 1
  /\ cached' = [fuel |-> f, time |-> t]
  /\ UNCHANGED <<step, packet, seen, replies, session, hot, announced, refillFaults, opened,
                 shared, backward, forgotten>>

\* GET vehicle:state; a packet that rolls the clock back is rejected.
Begin(h, t, f, m) ==
  /\ step[h] = "idle" /\ arrived < MaxArrivals
  /\ cached # NoState /\ t >= cached.time - RollbackSlack
  /\ arrived' = arrived + 1
  /\ step' = [step EXCEPT ![h] = "begun"]
  /\ packet' = [packet EXCEPT ![h] = [time |-> t, fuel |-> f, prev |-> cached.fuel,
                                      prevTime |-> cached.time, motion |-> m]]
  /\ UNCHANGED <<seen, replies, cached, session, hot, announced, refillFaults, opened, shared,
                 backward, forgotten>>

Bypass(p) ==
  \/ p.fuel <= 0
  \/ ~hot /\ (~Stationary(p) \/ p.fuel - p.prev < StartDelta)

Cache(p) == cached' = [fuel |-> p.fuel, time |-> p.time]

\* The aggregator is called and the state is cached; nothing to do for it.
Skip(h) ==
  /\ step[h] = "begun" /\ Bypass(packet[h])
  /\ Cache(packet[h]) /\ Free(h)
  /\ UNCHANGED <<replies, session, hot, announced, arrived, refillFaults, opened, shared,
                 backward, forgotten>>

\* GET refill:session and SET vehicle:state are issued together.
Look(h) ==
  /\ step[h] = "begun" /\ ~Bypass(packet[h])
  /\ Cache(packet[h])
  /\ step' = [step EXCEPT ![h] = "looked"]
  /\ seen' = [seen EXCEPT ![h] = session]
  /\ replies' = Append(replies, h)
  /\ shared' = IF session # NoSession /\ \E g \in Handlers : Waiting(g) /\ seen[g].id = session.id
               THEN shared \cup {session.id} ELSE shared
  /\ UNCHANGED <<packet, session, hot, announced, arrived, refillFaults, opened, backward,
                 forgotten>>

(***************************************************************************)
(* The aggregator, with the answer to its GET.                             *)
(***************************************************************************)
FaultyOpens(p, s) == s = NoSession /\ Stationary(p)
Opens(p, s) == s = NoSession /\ Stationary(p) /\ p.fuel - p.prev >= StartDelta

FaultyStale(p, s) == FALSE
Stale(p, s) == p.time < s.since

Discards(p, s) ==
  s # NoSession /\ ~Stale(p, s)
  /\ (p.time - s.since > JumpLimit \/ p.fuel <= s.start + SettleTolerance)

Rises(p, s) ==
  s # NoSession /\ ~Stale(p, s) /\ ~Discards(p, s) /\ p.fuel - s.peak > SettleTolerance

Holds(p, s) ==
  s # NoSession /\ ~Stale(p, s) /\ ~Discards(p, s) /\ ~Rises(p, s)

Settles(p, s) ==
  Holds(p, s) /\ (MovingNow(p) \/ p.time - s.since >= SettleTime)

Confirmed(p, s) == Lesser(s.peak, p.fuel)

\* SET refill:session, then add to the set when the answer comes.
Store(h, s) ==
  /\ session' = s
  /\ step' = [step EXCEPT ![h] = "stored"]
  /\ replies' = Append(Tail(replies), h)
  /\ UNCHANGED <<packet, seen, cached, hot, announced, arrived, refillFaults>>

Open(h) ==
  /\ step[h] = "looked" /\ Answered(h) /\ Opens(packet[h], seen[h])
  /\ opened' = opened + 1
  /\ Store(h, [id |-> opened + 1, start |-> packet[h].prev, peak |-> packet[h].fuel,
               since |-> packet[h].time, before |-> packet[h].prevTime])
  /\ backward' = IF packet[h].time < packet[h].prevTime THEN backward \cup {opened + 1}
                 ELSE backward
  /\ UNCHANGED <<shared, forgotten>>

Raise(h) ==
  /\ step[h] = "looked" /\ Answered(h) /\ Rises(packet[h], seen[h])
  /\ Store(h, [seen[h] EXCEPT !.peak = packet[h].fuel, !.since = packet[h].time])
  /\ UNCHANGED <<opened, shared, backward, forgotten>>

Keep(h) ==
  /\ step[h] = "looked" /\ Answered(h)
  /\ Holds(packet[h], seen[h]) /\ ~Settles(packet[h], seen[h])
  /\ Store(h, seen[h])
  /\ UNCHANGED <<opened, shared, backward, forgotten>>

\* DEL refill:session, before anything is announced.
FaultySessionAfterDel == session
SessionAfterDel == NoSession

Delete(h) ==
  /\ step[h] = "looked" /\ Answered(h)
  /\ Discards(packet[h], seen[h]) \/ Settles(packet[h], seen[h])
  /\ session' = SessionAfterDel
  /\ step' = [step EXCEPT ![h] = IF Settles(packet[h], seen[h]) THEN "settled" ELSE "discarded"]
  /\ replies' = Append(Tail(replies), h)
  /\ UNCHANGED <<packet, seen, cached, hot, announced, arrived, refillFaults, opened, shared,
                 backward, forgotten>>

\* No session and no reason to open one, or a packet older than the session.
Ignore(h) ==
  /\ step[h] = "looked" /\ Answered(h)
  /\ \/ seen[h] = NoSession /\ ~Opens(packet[h], seen[h])
     \/ seen[h] # NoSession /\ Stale(packet[h], seen[h])
  /\ replies' = Tail(replies) /\ Free(h)
  /\ UNCHANGED <<cached, session, hot, announced, arrived, refillFaults, opened, shared,
                 backward, forgotten>>

FaultyHotAfterStore == hot
HotAfterStore == TRUE

Stored(h) ==
  /\ step[h] = "stored" /\ Answered(h)
  /\ hot' = HotAfterStore
  /\ replies' = Tail(replies) /\ Free(h)
  /\ UNCHANGED <<cached, session, announced, arrived, refillFaults, opened, shared, backward,
                 forgotten>>

Discarded(h) ==
  /\ step[h] = "discarded" /\ Answered(h)
  /\ hot' = FALSE
  /\ replies' = Tail(replies) /\ Free(h)
  /\ UNCHANGED <<cached, session, announced, arrived, refillFaults, opened, shared, backward,
                 forgotten>>

Announces(h) ==
  /\ step[h] = "settled"
  /\ Confirmed(packet[h], seen[h]) - seen[h].start >= RefillThreshold

Settled(h) ==
  /\ step[h] = "settled" /\ Answered(h)
  /\ hot' = FALSE
  /\ announced' =
       IF Announces(h)
       THEN Append(announced, [id     |-> seen[h].id,
                               start  |-> seen[h].start,
                               level  |-> Confirmed(packet[h], seen[h]),
                               before |-> seen[h].before,
                               at     |-> packet[h].time])
       ELSE announced
  /\ replies' = Tail(replies) /\ Free(h)
  /\ UNCHANGED <<cached, session, arrived, refillFaults, opened, shared, backward, forgotten>>

(***************************************************************************)
(* Failures, time and restarts.                                            *)
(***************************************************************************)
RefillFault == refillFaults < MaxRefillFaults /\ refillFaults' = refillFaults + 1

\* A command's answer is lost: Redis executed it when it was issued, the handler
\* gets an error and is over, and the set is as it was.
CommandFails(h) ==
  /\ Answered(h) /\ RefillFault
  /\ replies' = Tail(replies) /\ Free(h)
  /\ forgotten' = (forgotten \/ step[h] = "stored")
  /\ UNCHANGED <<cached, session, hot, announced, arrived, opened, shared, backward>>

\* 30 minutes after the last SET.
SessionExpires ==
  /\ session # NoSession
  /\ session' = NoSession
  /\ UNCHANGED <<step, packet, seen, replies, cached, hot, announced, arrived, refillFaults,
                 opened, shared, backward, forgotten>>

\* Handlers and the set are gone; Redis keeps the state and the session.
RefillRestart ==
  /\ RefillFault
  /\ step' = [h \in Handlers |-> "idle"]
  /\ packet' = [h \in Handlers |-> NoPacket]
  /\ seen' = [h \in Handlers |-> NoSession]
  /\ replies' = <<>>
  /\ hot' = FALSE /\ forgotten' = TRUE
  /\ UNCHANGED <<cached, session, announced, arrived, opened, shared, backward>>

RefillStep(h) ==
  \/ \E t \in 0 .. MaxTime, f \in Levels, m \in Motions : Begin(h, t, f, m)
  \/ Skip(h) \/ Look(h)
  \/ Open(h) \/ Raise(h) \/ Keep(h) \/ Delete(h) \/ Ignore(h)
  \/ Stored(h) \/ Discarded(h) \/ CommandFails(h)

RefillOther ==
  \/ \E t \in 0 .. MaxTime, f \in Levels : FirstPacket(t, f)
  \/ SessionExpires

RefillNext == \/ \E h \in Handlers : RefillStep(h) \/ Settled(h)
              \/ RefillOther \/ RefillRestart

RefillSpec == RefillInit /\ [][RefillNext]_refillVars

(***************************************************************************)
(* Properties.                                                             *)
(***************************************************************************)
SessionOk(s) ==
  /\ s.id \in 0 .. opened
  /\ s.start \in Levels \cup {0} /\ s.peak \in Levels \cup {0}
  /\ s.since \in 0 .. MaxTime /\ s.before \in 0 .. MaxTime
  /\ s # NoSession => s.id > 0 /\ s.peak >= s.start + StartDelta

\* Types, and that a session holds a rise of at least the opening one.
RefillTypeOK ==
  /\ step \in [Handlers -> {"idle", "begun", "looked", "stored", "discarded", "settled"}]
  /\ \A h \in Handlers : SessionOk(seen[h]) /\ packet[h].fuel \in Levels \cup {0}
  /\ SessionOk(session)
  /\ cached = NoState \/ (cached.fuel \in Levels /\ cached.time \in 0 .. MaxTime)
  /\ hot \in BOOLEAN /\ forgotten \in BOOLEAN
  /\ arrived \in 0 .. MaxArrivals /\ opened \in Nat
  /\ shared \cup backward \subseteq 1 .. opened
  /\ refillFaults \in 0 .. MaxRefillFaults
  /\ \A h \in Handlers : Waiting(h) <=> step[h] \notin {"idle", "begun"}

\* A session is announced once, unless two handlers had it in hand at the same
\* time: it is deleted before the announcement, and nothing puts it back
\* (fuelEventAggregator.js:133-160, "publish ONE finalized alert").
AnnouncedOnce ==
  \A i, j \in 1 .. Len(announced) :
    announced[i].id = announced[j].id /\ i # j => announced[i].id \in shared

\* The refill announced goes forward in time and up in level: the reading it
\* starts from is older than the one that confirms it and lower by the threshold,
\* though packets arrive out of order; except when the session was opened by a
\* packet older than the one cached before it (fuelEventAggregator.js:92-95,
\* 137-142).
RefillGoesForward ==
  \A i \in 1 .. Len(announced) :
    /\ announced[i].level - announced[i].start >= RefillThreshold
    /\ announced[i].before > announced[i].at => announced[i].id \in backward

\* At rest a session in Redis has its vehicle in the set, without which no packet
\* looks at it again, unless a restart or a failed command emptied the set:
\* handlers that overlap never leave it out (fuelEventAggregator.js:62-64).
HotCoversSession ==
  replies = <<>> /\ session # NoSession => hot \/ forgotten

=============================================================================
