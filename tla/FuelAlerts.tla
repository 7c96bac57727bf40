------------------------------ MODULE FuelAlerts ------------------------------
(***************************************************************************)
(* From a fuel reading to the rows of alerts: the location subscriber and  *)
(* the refill sessions publish on 'alerts', the alert subscriber handles   *)
(* the messages, both in the API process and both through Redis.  What the *)
(* two promise together is one row per fill of the tank.                   *)
(***************************************************************************)
EXTENDS RefillSession, AlertSubscriber

CONSTANT
  TheftThreshold  \* drop that is published as a theft

VARIABLE
  warmAgain  \* history: types whose cooldown has run out once

fuelVars == <<refillVars, alertVars, warmAgain>>

FuelInit == RefillInit /\ AlertInit /\ warmAgain = {}

\* PUBLISH alerts, with the next message.
Publish(k, x) == \E m \in Ids : PublishAlert(m, k, x)

\* A handler without sloshing compares its reading with the cached one when it
\* calls the aggregator.
Drops(h) ==
  /\ step[h] = "begun" /\ step'[h] # "begun"
  /\ packet[h].motion = "still" /\ packet[h].prev - packet[h].fuel >= TheftThreshold

FuelPacket(h) ==
  /\ RefillStep(h)
  /\ IF Drops(h) THEN Publish("fuel_theft", 0) ELSE UNCHANGED alertVars
  /\ UNCHANGED warmAgain

FuelSettled(h) ==
  /\ Settled(h)
  /\ IF Announces(h) THEN Publish("fuel_refill_final", seen[h].id) ELSE UNCHANGED alertVars
  /\ UNCHANGED warmAgain

FuelOther == RefillOther /\ UNCHANGED <<alertVars, warmAgain>>

FuelAlert(m) == AlertStep(m) /\ UNCHANGED <<refillVars, warmAgain>>

FuelCooldownOver(k) ==
  /\ CooldownExpires(k)
  /\ warmAgain' = warmAgain \cup {k}
  /\ UNCHANGED refillVars

FuelTheftKeyOver == TheftKeyExpires /\ UNCHANGED <<refillVars, warmAgain>>

FuelRestart == RefillRestart /\ AlertRestart /\ UNCHANGED warmAgain

FuelNext ==
  \/ \E h \in Handlers : FuelPacket(h) \/ FuelSettled(h)
  \/ \E m \in Ids : FuelAlert(m)
  \/ \E k \in AlertKinds : FuelCooldownOver(k)
  \/ FuelOther \/ FuelTheftKeyOver \/ FuelRestart

FuelSpec == FuelInit /\ [][FuelNext]_fuelVars

(***************************************************************************)
(* Properties.                                                             *)
(***************************************************************************)
\* Two rows tell the same fill only when two packets had its session in hand at
\* once and, besides, the two messages were handled together, a call for one of
\* them failed, or the cooldown of the type ran out between them: the session
\* and the cooldown each absorb what the other lets through
\* (fuelEventAggregator.js:133-161, alertSubscriber.js:228-241).
OneRowPerFill ==
  \A i, j \in 1 .. Len(saved) :
    LET m == saved[i]
        n == saved[j]
    IN i # j /\ kind[m] = "fuel_refill_final" /\ kind[n] = kind[m] /\ about[m] = about[n] =>
         /\ about[m] \in shared
         /\ \/ {m, n} \subseteq overlapped
            \/ {m, n} \cap broken # {}
            \/ kind[m] \in warmAgain

\* Where a fill that was not shared is: with a packet or in Redis, gone, or with
\* the one alert that tells it.  Anything else is undue.
InUse(s)    == \/ session.id = s
               \/ \E h \in Handlers : Waiting(h) /\ seen[h].id = s
Tellings(s) == {m \in Ids : kind[m] = "fuel_refill_final" /\ about[m] = s}
HasRow(m)   == \E i \in 1 .. Len(saved) : saved[i] = m

AlertPhase(m) == IF HasRow(m) THEN "told"
                 ELSE IF stage[m] \in Running \cup {"channel"} THEN "announced"
                 ELSE IF stage[m] \in {"duplicate", "lost"} THEN stage[m]
                 ELSE "undue"

FillPhase(s) == IF s \in shared THEN "disturbed"
                ELSE IF Tellings(s) = {} THEN IF InUse(s) THEN "open" ELSE "closed"
                ELSE IF ~InUse(s) /\ \E m \in Ids : Tellings(s) = {m}
                     THEN AlertPhase(CHOOSE m \in Ids : Tellings(s) = {m})
                ELSE "undue"

FillPhases == [s \in 1 .. opened |-> FillPhase(s)]

Ledger == INSTANCE FillLedger WITH fills <- opened, phase <- FillPhases

\* The aggregator, the channel and the alert subscriber together keep the ledger
\* of fills: DEL comes before the announcement, nothing puts a session back, and
\* the alert that tells it ends in one row unless the cooldown or a failed call
\* takes it (fuelEventAggregator.js:133-161, alertSubscriber.js:228-262).
Implements == Ledger!Spec
=============================================================================
