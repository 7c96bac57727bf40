--------------------------- MODULE IgnitionTracking ---------------------------
(***************************************************************************)
(* The ignition of one vehicle in the location subscriber                  *)
(* (backend/subscribers/locationSubscriber.js): a debounce kept in three   *)
(* Redis keys, the state cached for the next packet, and the engine        *)
(* ON / OFF alerts published when the cached ignition changes.             *)
(*                                                                         *)
(* A handler runs per packet and is not awaited.  A step is one Redis      *)
(* command with the code that runs up to it.  The debounce awaits nothing  *)
(* but answers of the one Redis connection, which come in order, so        *)
(* handlers take turns in it; after it, they interleave at every step.     *)
(* Times are the device's, in units that keep the order of the code's      *)
(* intervals.                                                              *)
(***************************************************************************)
EXTENDS Integers, Sequences

CONSTANTS
  Handlers,      \* bound: packets handled at the same time
  Window,        \* 3 minutes: debounce, and the shortest parking that counts
  Ahead,         \* 15 minutes: how far a packet's time may be ahead of the server's
  Asleep,        \* 5 minutes without a packet
  Recent,        \* 15 minutes: an older packet raises no alert
  MaxTime,       \* bound: device times
  MaxArrivals,   \* bound: packets
  MaxIgnFaults   \* bound: handlers cut short and keys that expire

ASSUME IgnAssumption ==
  /\ {Window, Ahead, Asleep, Recent, MaxTime, MaxArrivals, MaxIgnFaults} \subseteq Nat
  /\ Window <= Asleep /\ Asleep < Recent

VARIABLES
  pc,      \* what each handler does next
  turns,   \* handlers in the debounce, in the order of their answers
  packet,  \* its packet
  final,   \* finalIgnition
  prev,    \* prevState
  writes,  \* SET and DEL commands it still issues, in order
  raise,   \* alert it will publish
  keys,    \* the three debounce keys and the two alert keys of Redis
  state,   \* vehicle:state:<imei>
  clock,   \* time of the server
  arrivals, ignFaults,
  told,    \* last ignition alert published
  said,    \* history: time of the last packet that said on, and off
  alone,   \* history: handlers no other handler has overlapped
  clean,   \* history: the pending change has seen packets in order, one by one
  smooth,  \* history: so have the alerts, and no key lapsed, since the last one
  hasty,   \* history: a clean change was confirmed against a packet in its window
  repeated \* history: an alert was repeated though all was smooth

ignVars == <<pc, turns, packet, final, prev, writes, raise, keys, state, clock, arrivals, ignFaults,
             told, said, alone, clean, smooth, hasty, repeated>>
local   == <<packet, final, prev, writes, raise>>
bounds  == <<clock, arrivals, ignFaults>>
ghosts  == <<said, alone, clean, smooth, hasty, repeated>>

Readings == {"moving", "on", "off"}
NoTime   == -1
NoState  == [ign |-> FALSE, parked |-> NoTime, time |-> NoTime]
NoPacket == [reading |-> "off", time |-> 0, live |-> FALSE]
NoKeys   == [stable |-> "unset", pending |-> "unset", since |-> NoTime,
             onFired |-> FALSE, offFired |-> FALSE]

\* A speed above 5 km/h overrides the ignition wire.
Says(p) == IF p.reading = "off" THEN "off" ELSE "on"
Opposite(w) == IF w = "on" THEN "off" ELSE "on"

Set(k, v) == [key |-> k, to |-> v]
ClearPending == <<Set("pending", "unset"), Set("since", NoTime)>>
Confirm(w) == <<Set("stable", w), Set("pending", "unset"), Set("since", NoTime)>>

\* A vehicle never seen, one parked and told off, or one running and told on.
IgnInit ==
  /\ pc = [h \in Handlers |-> "idle"] /\ turns = <<>>
  /\ packet = [h \in Handlers |-> NoPacket]
  /\ final = [h \in Handlers |-> FALSE]
  /\ prev = [h \in Handlers |-> NoState]
  /\ writes = [h \in Handlers |-> <<>>]
  /\ raise = [h \in Handlers |-> "none"]
  /\ \/ keys = NoKeys /\ state = NoState /\ told = "none"
     \/ /\ keys = [NoKeys EXCEPT !.stable = "off", !.offFired = TRUE]
        /\ state = [ign |-> FALSE, parked |-> 0, time |-> 0] /\ told = "off"
     \/ /\ keys = [NoKeys EXCEPT !.stable = "on", !.onFired = TRUE]
        /\ state = [ign |-> TRUE, parked |-> NoTime, time |-> 0] /\ told = "on"
  /\ clock = 0 /\ arrivals = 0 /\ ignFaults = 0
  /\ said = [w \in {"on", "off"} |-> NoTime]
  /\ alone = {} /\ clean = FALSE /\ smooth = TRUE
  /\ hasty = FALSE /\ repeated = FALSE

Goes(h, where) == pc' = [pc EXCEPT ![h] = where]
HasTurn(h) == turns # <<>> /\ Head(turns) = h
TurnPasses == turns' = Append(Tail(turns), Head(turns))
Issues(h, cmds) == writes' = [writes EXCEPT ![h] = cmds]

\* The handler is over and keeps nothing.
Ends(h) ==
  /\ Goes(h, "idle")
  /\ packet' = [packet EXCEPT ![h] = NoPacket]
  /\ final' = [final EXCEPT ![h] = FALSE]
  /\ prev' = [prev EXCEPT ![h] = NoState]
  /\ writes' = [writes EXCEPT ![h] = <<>>]
  /\ raise' = [raise EXCEPT ![h] = "none"]

\* A packet of the device: the time it carries, at most Ahead of the time it comes.
Arrive(h, reading, t, now, live) ==
  /\ pc[h] = "idle" /\ arrivals < MaxArrivals
  /\ now >= clock /\ t <= now + Ahead
  /\ clock' = now /\ arrivals' = arrivals + 1
  /\ LET p       == [reading |-> reading, time |-> t, live |-> live]
         solo    == \A g \in Handlers : pc[g] = "idle"
         inOrder == \A w \in {"on", "off"} : t >= said[w]
     IN /\ packet' = [packet EXCEPT ![h] = p]
        /\ said' = [said EXCEPT ![Says(p)] = IF t > @ THEN t ELSE @]
        /\ alone' = IF solo THEN {h} ELSE {}
        /\ clean' = (clean /\ solo /\ inOrder)
        /\ smooth' = (smooth /\ solo)
  /\ Goes(h, "stable") /\ turns' = Append(turns, h)
  /\ UNCHANGED <<final, prev, writes, raise, keys, state, ignFaults, told, hasty, repeated>>

(***************************************************************************)
(* The debounce.                                                           *)
(***************************************************************************)
FaultyCancels == <<>>
Cancels == ClearPending

\* GET stable_ignition.  Moving, the first packet and a packet that agrees decide
\* at once; a packet that differs looks at the pending change.
ReadStable(h) ==
  /\ pc[h] = "stable" /\ HasTurn(h) /\ TurnPasses
  /\ LET p == packet[h]
         Decides(cmds) == /\ final' = [final EXCEPT ![h] = Says(p) = "on"]
                          /\ Issues(h, cmds)
                          /\ Goes(h, "write")
     IN \/ p.reading = "moving" /\ Decides(Confirm("on"))
        \/ /\ p.reading # "moving" /\ keys.stable = "unset"
           /\ Decides(Confirm(Says(p)))
        \/ p.reading # "moving" /\ keys.stable = Says(p) /\ Decides(Cancels)
        \/ /\ p.reading # "moving" /\ keys.stable = Opposite(Says(p))
           /\ Goes(h, "pending")
           /\ UNCHANGED <<final, writes>>
  /\ UNCHANGED <<packet, prev, raise, keys, state, told, bounds, ghosts>>

ReadPending(h) ==
  /\ pc[h] = "pending" /\ HasTurn(h) /\ TurnPasses
  /\ Goes(h, IF keys.pending = Says(packet[h]) THEN "since" ELSE "candidate")
  /\ UNCHANGED <<local, keys, state, told, bounds, ghosts>>

\* The ignition while a change is pending: the stable one.
FaultyHeld(p) == Says(p)
Held(p) == Opposite(Says(p))

\* GET pending_ignition_since: a new candidate, or one that may be confirmed.
ReadSince(h) ==
  /\ pc[h] \in {"since", "candidate"} /\ HasTurn(h) /\ TurnPasses
  /\ LET p     == packet[h]
         fresh == pc[h] = "candidate" \/ keys.since = NoTime
         ripe  == ~fresh /\ p.time - keys.since >= Window
     IN /\ final' = [final EXCEPT ![h] = (IF ripe THEN Says(p) ELSE Held(p)) = "on"]
        /\ Issues(h, IF fresh THEN <<Set("pending", Says(p)), Set("since", p.time)>>
                     ELSE IF ripe THEN Confirm(Says(p))
                     ELSE <<>>)
        /\ clean' = IF fresh THEN h \in alone /\ said[Opposite(Says(p))] <= p.time ELSE clean
        /\ hasty' = (hasty \/ (ripe /\ clean /\ said[Opposite(Says(p))] > keys.since))
  /\ Goes(h, "write")
  /\ UNCHANGED <<packet, prev, raise, keys, state, told, bounds, said, alone, smooth, repeated>>

\* The next SET or DEL.
NextWrite(h) ==
  /\ writes[h] # <<>>
  /\ keys' = [keys EXCEPT ![Head(writes[h]).key] = Head(writes[h]).to]
  /\ Issues(h, Tail(writes[h]))
  /\ UNCHANGED <<pc, packet, final, prev, raise, state, told, bounds, ghosts>>

WriteDebounce(h) == pc[h] = "write" /\ HasTurn(h) /\ TurnPasses /\ NextWrite(h)

(***************************************************************************)
(* The cached state and the alerts.                                        *)
(***************************************************************************)
\* GET vehicle:state.  A point may be dropped here, after the debounce has used it:
\* a live one that rolls the clock back by more than 2 minutes, one whose time is 30
\* days behind or 15 minutes ahead of the server, or one that jumped too far.  Which
\* points those are is left open, for a heartbeat is never checked.
ReadState(h) ==
  /\ pc[h] = "write" /\ writes[h] = <<>> /\ HasTurn(h)
  /\ turns' = Tail(turns)
  /\ \/ Ends(h)
     \/ /\ prev' = [prev EXCEPT ![h] = state]
        /\ Goes(h, "cache")
        /\ UNCHANGED <<packet, final, writes, raise>>
  /\ UNCHANGED <<keys, state, told, bounds, ghosts>>

\* Parked is off and at most 2 km/h fast; up to 5 km/h nothing is decided by it.
ParkedSince(h) ==
  IF final[h] THEN {NoTime}
  ELSE {NoTime, IF prev[h].parked # NoTime THEN prev[h].parked ELSE packet[h].time}

\* SET vehicle:state, by live packets only.
CacheState(h) ==
  /\ pc[h] = "cache"
  /\ IF packet[h].live
     THEN /\ \E parked \in ParkedSince(h) :
               state' = [ign |-> final[h], parked |-> parked, time |-> packet[h].time]
          /\ Goes(h, "fired")
          /\ UNCHANGED local
     ELSE Ends(h) /\ UNCHANGED state
  /\ UNCHANGED <<turns, keys, told, bounds, ghosts>>

TurnsOn(h) ==
  /\ final[h] /\ prev[h] # NoState /\ ~prev[h].ign
  /\ \/ prev[h].parked # NoTime /\ packet[h].time - prev[h].parked >= Window
     \/ packet[h].time - prev[h].time > Asleep

TurnsOff(h) == ~final[h] /\ prev[h].ign

FaultyUnfired(k) == TRUE
Unfired(k) == ~keys[k]

\* An alert arms its own key and deletes the other's.
FaultyArms(mine, other) == <<Set(mine, TRUE)>>
Arms(mine, other) == <<Set(mine, TRUE), Set(other, FALSE)>>

\* GET ignition_on_fired or ignition_off_fired, for packets that are recent.
CheckAlert(h) ==
  /\ pc[h] = "fired"
  /\ LET recent == clock - packet[h].time < Recent
         on     == recent /\ TurnsOn(h) /\ Unfired("onFired")
         off    == recent /\ TurnsOff(h) /\ Unfired("offFired")
     IN /\ IF on \/ off
           THEN /\ raise' = [raise EXCEPT ![h] = IF on THEN "on" ELSE "off"]
                /\ Issues(h, IF on THEN Arms("onFired", "offFired") ELSE Arms("offFired", "onFired"))
                /\ Goes(h, "publish")
                /\ UNCHANGED <<packet, final, prev>>
           ELSE Ends(h)
        /\ smooth' = (smooth /\ recent)
  /\ UNCHANGED <<turns, keys, state, told, bounds, said, alone, clean, hasty, repeated>>

WriteFired(h) == pc[h] = "publish" /\ NextWrite(h) /\ UNCHANGED turns

\* PUBLISH alerts, after all the checks of the packet.
PublishIgnition(h) ==
  /\ pc[h] = "publish" /\ writes[h] = <<>>
  /\ told' = raise[h]
  /\ smooth' = (h \in alone)
  /\ repeated' = (repeated \/ (smooth /\ told = raise[h]))
  /\ Ends(h)
  /\ UNCHANGED <<turns, keys, state, bounds, said, alone, clean, hasty>>

(***************************************************************************)
(* Expiry and failures.                                                    *)
(***************************************************************************)
IgnFault == ignFaults < MaxIgnFaults /\ ignFaults' = ignFaults + 1

\* The pending change lasts 10 minutes, each of its keys by itself, and the
\* stable ignition a week.
DebounceExpires(k) ==
  /\ keys[k] # NoKeys[k] /\ IgnFault
  /\ keys' = [keys EXCEPT ![k] = NoKeys[k]]
  /\ alone' = {}
  /\ UNCHANGED <<pc, turns, local, state, clock, arrivals, told, said, clean, smooth, hasty, repeated>>

\* Alert keys last 30 minutes, the state a day.
FiredExpires(k) ==
  /\ keys[k] /\ IgnFault
  /\ keys' = [keys EXCEPT ![k] = FALSE]
  /\ smooth' = FALSE /\ alone' = {}
  /\ UNCHANGED <<pc, turns, local, state, clock, arrivals, told, said, clean, hasty, repeated>>

StateExpires ==
  /\ state # NoState /\ IgnFault
  /\ state' = NoState /\ smooth' = FALSE /\ alone' = {}
  /\ UNCHANGED <<pc, turns, local, keys, clock, arrivals, told, said, clean, hasty, repeated>>

\* A command throws and the outer catch ends the handler; or the process restarts.
HandlerFails(h) ==
  /\ pc[h] # "idle" /\ IgnFault
  /\ alone' = {} /\ clean' = FALSE /\ smooth' = FALSE
  /\ turns' = SelectSeq(turns, LAMBDA g : g # h)
  /\ Ends(h)
  /\ UNCHANGED <<keys, state, told, clock, arrivals, said, hasty, repeated>>

IgnStep(h) ==
  \/ \E r \in Readings, t, now \in 0 .. MaxTime, live \in BOOLEAN : Arrive(h, r, t, now, live)
  \/ ReadStable(h) \/ ReadPending(h) \/ ReadSince(h) \/ WriteDebounce(h)
  \/ ReadState(h) \/ CacheState(h) \/ CheckAlert(h) \/ WriteFired(h) \/ PublishIgnition(h)
  \/ HandlerFails(h)

IgnNext ==
  \/ \E h \in Handlers : IgnStep(h)
  \/ \E k \in {"stable", "pending", "since"} : DebounceExpires(k)
  \/ \E k \in {"onFired", "offFired"} : FiredExpires(k)
  \/ StateExpires

IgnSpec == IgnInit /\ [][IgnNext]_ignVars

(***************************************************************************)
(* Properties.                                                             *)
(***************************************************************************)
\* A change is confirmed by time only when no packet said otherwise inside its
\* window: a dip or a blip is absorbed, whatever happened before the change
\* began, as long as the packets of its window come in order and one by one
\* (locationSubscriber.js:286-348).
FlipWasHeld == ~hasty

\* One live packet handled alone brings the cached ignition, which the dashboard
\* and the next packet read, back to the debounced one, whatever earlier packets
\* did together (locationSubscriber.js:313-347, 775-802).
CacheTracksStable ==
  \A h \in alone :
    pc[h] \in {"fired", "publish"} /\ state # NoState => state.ign = (keys.stable = "on")

\* Engine ON and engine OFF are told in turn, also when packets are replayed,
\* unless since the last one handlers overlapped, one was cut short, a key ran
\* out or a packet was too old for alerts (locationSubscriber.js:930-967).
AlertsAlternate == ~repeated

\* While it runs that smoothly a vehicle told to be on is on at rest: an OFF is
\* never swallowed by the key of an earlier one (locationSubscriber.js:949-965).
ToldOnIsOn ==
  smooth /\ told = "on" /\ state # NoState /\ (\A h \in Handlers : pc[h] = "idle") => state.ign

\* Replayed packets raise no alert: engine ON is raised by a packet that says on
\* (locationSubscriber.js:911-912, 930).
ReplayRaisesNothing ==
  \A h \in Handlers : raise[h] = "on" => Says(packet[h]) = "on"
=============================================================================
