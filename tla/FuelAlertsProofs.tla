--------------------------- MODULE FuelAlertsProofs ---------------------------
(***************************************************************************)
(* One row per fill, for any number of packets, messages, failures and     *)
(* restarts: what the refill sessions and the alert handlers promise each  *)
(* by itself holds of the two together, and the messages tie one to the    *)
(* other.                                                                  *)
(***************************************************************************)
EXTENDS FuelAlerts, RefillSessionProofs, AlertSubscriberProofs

(***************************************************************************)
(* The inductive invariant.                                                *)
(***************************************************************************)
\* Every row is one message's, and a handler that never finished has failed.
RowInv ==
  /\ \A i \in 1 .. Len(saved) : stage[saved[i]] \in {"reserve", "insert", "held", "nobody", "done", "lost"}
  /\ \A i, j \in 1 .. Len(saved) : saved[i] = saved[j] => i = j
  /\ \A m \in Ids : stage[m] = "lost" => m \in broken

\* Who is past the cooldown without a failed call has armed it.
ArmedInv ==
  \A m \in Ids : stage[m] \in After /\ m \notin broken /\ kind[m] \notin warmAgain
                   => m \in passed[kind[m]]

\* A message about a refill tells an announced one, and two that tell the same
\* come from a session two packets had in hand.
AboutInv ==
  /\ about \in [Ids -> Nat]
  /\ \A m \in Ids : kind[m] = "fuel_refill_final" => Told(about[m])
  /\ \A m, n \in Ids :
       m # n /\ kind[m] = "fuel_refill_final" /\ kind[n] = kind[m] /\ about[m] = about[n]
         => about[m] \in shared

FuelAlertsInv == RefillInv /\ AlertInv /\ RowInv /\ ArmedInv /\ AboutInv

(***************************************************************************)
(* The alert handlers.                                                     *)
(***************************************************************************)
\* Whatever a message is about, its publication disturbs no handler.
LEMMA PublishStep ==
  ASSUME AlertInv, RowInv, ArmedInv, NEW m \in Ids, NEW k \in AlertKinds, NEW x,
         PublishAlert(m, k, x), UNCHANGED warmAgain
  PROVE  AlertInv' /\ RowInv' /\ ArmedInv'
<1> USE DEF AlertInv, GoOn, AlertTypeOK, KindInv, Running
<1>0. /\ stage[m] = "absent" /\ stage' = [stage EXCEPT ![m] = "channel"]
      /\ kind' = [kind EXCEPT ![m] = k]
      /\ UNCHANGED <<lastState, battery, cooldown, theftKey, saved, queued, alertFaults, passed,
                     theftBy, overlapped, broken, silent, lapsed>>
  BY DEF PublishAlert
<1>1. AlertTypeOK'
  BY <1>0 DEF AlertStages
<1>2. KindInv'
  BY <1>0 DEF AlertKinds, BatteryKinds
<1>3. OverlapInv'
  BY <1>0 DEF OverlapInv, Family
<1>4. PassInv'
  BY <1>0 DEF PassInv, Kept, After
<1>5. TheftInv' /\ DroppedHasOriginal'
  BY <1>0 DEF TheftInv, Served, DroppedHasOriginal
<1>6. RowInv'
  BY <1>0 DEF RowInv
<1>7. ArmedInv'
  BY <1>0 DEF ArmedInv, After
<1> QED BY <1>1, <1>2, <1>3, <1>4, <1>5, <1>6, <1>7

\* A step that saves no row.
LEMMA RowsKept ==
  ASSUME AlertTypeOK, RowInv, NEW m \in Ids, AlertStep(m), ~ SaveAlert(m)
  PROVE  RowInv'
<1>1. saved' = saved /\ broken \subseteq broken'
  BY DEF AlertStep, Deliver, Resolve, ReadLatch, ReadLatchFails, WriteLatch, WriteLatchFails,
         ReadCooldown, SetCooldown, CooldownFails, HandlerFails, Reserve, InsertRows, EnqueueFails, Break
<1>2. PICK s : /\ stage' = [stage EXCEPT ![m] = s]
               /\ s = "lost" => m \in broken'
               /\ stage[m] \in {"reserve", "insert"} => s \in {"insert", "held", "nobody", "done"}
               /\ stage[m] \notin {"held", "nobody", "done", "lost"}
  BY DEF AlertStep, Deliver, Resolve, ReadLatch, ReadLatchFails, WriteLatch, WriteLatchFails,
         ReadCooldown, SetCooldown, CooldownFails, HandlerFails, Reserve, InsertRows, EnqueueFails, Break,
         GoOn
<1> QED BY <1>1, <1>2 DEF RowInv, AlertTypeOK

LEMMA RowSaved ==
  ASSUME AlertTypeOK, RowInv, NEW m \in Ids, SaveAlert(m)
  PROVE  RowInv'
<1>1. /\ stage[m] = "save" /\ saved' = Append(saved, m) /\ broken' = broken /\ saved \in Seq(Ids)
      /\ \E s \in {"reserve", "insert", "done"} : stage' = [stage EXCEPT ![m] = s]
  BY DEF SaveAlert, GoOn, AlertTypeOK
<1>2. /\ Len(saved') = Len(saved) + 1 /\ Len(saved) \in Nat /\ saved'[Len(saved) + 1] = m
      /\ \A i \in 1 .. Len(saved) : saved'[i] = saved[i] /\ saved[i] \in Ids
  BY <1>1
<1>3. \A i \in 1 .. Len(saved') : i \in 1 .. Len(saved) \/ i = Len(saved) + 1
  BY <1>2
<1>4. \A i \in 1 .. Len(saved) : saved[i] # m
  BY <1>1 DEF RowInv
<1>5. \A n \in Ids : n # m => stage'[n] = stage[n]
  BY <1>1 DEF AlertTypeOK
<1>6. stage'[m] \in {"reserve", "insert", "done"}
  BY <1>1 DEF AlertTypeOK
<1> QED BY <1>1, <1>2, <1>3, <1>4, <1>5, <1>6 DEF RowInv

LEMMA ArmedStep ==
  ASSUME AlertTypeOK, KindInv, ArmedInv, NEW m \in Ids, AlertStep(m), UNCHANGED warmAgain
  PROVE  ArmedInv'
<1> USE DEF ArmedInv, After, AlertTypeOK, GoOn
<1>1. CASE SetCooldown(m)
  <2>1. /\ stage' = [stage EXCEPT ![m] = "save"] /\ kind[m] \in AlertKinds
        /\ passed'[kind[m]] = passed[kind[m]] \cup {m}
        /\ \A k \in AlertKinds \ {kind[m]} : passed'[k] = passed[k]
        /\ UNCHANGED <<kind, broken>>
    BY <1>1, Passing
  <2>2. \A n \in Ids : stage[n] \in After => kind[n] \in AlertKinds
    BY DEF KindInv
  <2> QED BY <2>1, <2>2
<1>2. CASE CooldownFails(m)
  BY <1>2 DEF CooldownFails, Break
<1>3. CASE Deliver(m) \/ Resolve(m) \/ ReadLatch(m) \/ WriteLatch(m) \/ ReadCooldown(m)
  BY <1>3 DEF Deliver, Resolve, ReadLatch, WriteLatch, ReadCooldown
<1>4. CASE ReadLatchFails(m) \/ WriteLatchFails(m) \/ HandlerFails(m) \/ EnqueueFails(m)
  BY <1>4 DEF ReadLatchFails, WriteLatchFails, HandlerFails, EnqueueFails, Break
<1>5. CASE SaveAlert(m) \/ Reserve(m) \/ InsertRows(m)
  BY <1>5 DEF SaveAlert, Reserve, InsertRows
<1> QED BY <1>1, <1>2, <1>3, <1>4, <1>5 DEF AlertStep

LEMMA HandlerStep ==
  ASSUME AlertInv, RowInv, ArmedInv, NEW m \in Ids, AlertStep(m), UNCHANGED warmAgain
  PROVE  AlertInv' /\ RowInv' /\ ArmedInv' /\ UNCHANGED <<kind, about>>
<1>1. AlertInv'
  BY AlertInductive DEF AlertNext
<1>2. RowInv'
  BY RowsKept, RowSaved DEF AlertInv
<1>3. ArmedInv'
  BY ArmedStep DEF AlertInv
<1>4. UNCHANGED <<kind, about>>
  BY DEF AlertStep, Deliver, Resolve, ReadLatch, ReadLatchFails, WriteLatch, WriteLatchFails,
         ReadCooldown, SetCooldown, CooldownFails, SaveAlert, HandlerFails, Reserve, InsertRows, EnqueueFails
<1> QED BY <1>1, <1>2, <1>3, <1>4

LEMMA RowsSame ==
  ASSUME RowInv, ArmedInv, UNCHANGED <<kind, about, stage, saved, passed, broken, warmAgain>>
  PROVE  RowInv' /\ ArmedInv'
<1>1. RowInv'
  BY DEF RowInv
<1>2. ArmedInv'
  BY DEF ArmedInv, After
<1> QED BY <1>1, <1>2

\* A cooldown that runs out warms its type for good; the theft key and a restart
\* let nobody past.
LEMMA AlertElse ==
  ASSUME AlertInv, RowInv, ArmedInv,
         \/ \E k \in AlertKinds : CooldownExpires(k) /\ warmAgain' = warmAgain \cup {k}
         \/ (TheftKeyExpires \/ AlertRestart) /\ UNCHANGED warmAgain
         \/ UNCHANGED <<alertVars, warmAgain>>
  PROVE  AlertInv' /\ RowInv' /\ ArmedInv' /\ UNCHANGED <<kind, about>>
<1>0. AlertInv'
  BY AlertInductive DEF AlertNext, AlertTime
<1>1. ASSUME NEW k \in AlertKinds, CooldownExpires(k), warmAgain' = warmAgain \cup {k}
      PROVE  RowInv' /\ ArmedInv' /\ UNCHANGED <<kind, about>>
  <2>1. /\ UNCHANGED <<kind, about, stage, saved, broken>>
        /\ passed' = [passed EXCEPT ![k] = {}]
    BY <1>1 DEF CooldownExpires
  <2>2. \A m \in Ids : stage[m] \in After => kind[m] \in AlertKinds
    BY DEF AlertInv, KindInv, AlertTypeOK, After
  <2> QED BY <1>1, <2>1, <2>2 DEF RowInv, ArmedInv, AlertInv, AlertTypeOK
<1>2. CASE TheftKeyExpires /\ UNCHANGED warmAgain
  <2>1. UNCHANGED <<kind, about, stage, saved, passed, broken, warmAgain>>
    BY <1>2 DEF TheftKeyExpires
  <2> QED BY <1>0, <2>1, RowsSame
<1>3. CASE AlertRestart /\ UNCHANGED warmAgain
  <2>1. /\ UNCHANGED <<kind, about, saved, passed>> /\ broken \subseteq broken'
        /\ \A m \in Ids : \/ stage'[m] = stage[m]
                          \/ stage'[m] = "lost" /\ m \in broken'
    BY <1>3 DEF AlertRestart
  <2>2. saved \in Seq(Ids)
    BY DEF AlertInv, AlertTypeOK
  <2>3. ASSUME NEW i \in 1 .. Len(saved)
        PROVE  stage'[saved[i]] \in {"reserve", "insert", "held", "nobody", "done", "lost"}
    BY <2>1, <2>2, <2>3 DEF RowInv
  <2>4. RowInv'
    BY <2>1, <2>3 DEF RowInv
  <2>5. ArmedInv'
    BY <1>3, <2>1 DEF ArmedInv, After
  <2> QED BY <1>0, <2>1, <2>4, <2>5
<1>4. CASE UNCHANGED <<alertVars, warmAgain>>
  <2>1. UNCHANGED <<kind, about, stage, saved, passed, broken, warmAgain>>
    BY <1>4 DEF alertVars
  <2> QED BY <1>0, <2>1, RowsSame
<1> QED BY <1>0, <1>1, <1>2, <1>3, <1>4

(***************************************************************************)
(* What the messages are about.                                            *)
(***************************************************************************)
\* Refills are announced by Settled alone, and a shared session stays shared.
LEMMA RefillKeeps ==
  ASSUME \/ \E h \in Handlers : RefillStep(h)
         \/ RefillOther \/ RefillRestart \/ UNCHANGED refillVars
  PROVE  announced' = announced /\ shared \subseteq shared'
<1>1. ASSUME NEW h \in Handlers, RefillStep(h)
      PROVE  announced' = announced /\ shared \subseteq shared'
  BY <1>1 DEF RefillStep, Begin, Skip, Look, Open, Raise, Keep, Delete, Ignore, Stored, Discarded,
              CommandFails, Store
<1>2. CASE RefillOther
  BY <1>2 DEF RefillOther, FirstPacket, SessionExpires
<1>3. CASE RefillRestart
  BY <1>3 DEF RefillRestart
<1>4. CASE UNCHANGED refillVars
  BY <1>4 DEF refillVars
<1> QED BY <1>1, <1>2, <1>3, <1>4

\* A message that is published joins the others; if it tells a refill somebody
\* told before, its session is shared.
LEMMA AboutStep ==
  ASSUME AlertTypeOK, AboutInv, NEW m \in Ids, NEW k \in AlertKinds, NEW x \in Nat,
         PublishAlert(m, k, x),
         \A y : Told(y) => Told(y)',
         shared \subseteq shared',
         k = "fuel_refill_final" => Told(x)' /\ (Told(x) => x \in shared)
  PROVE  AboutInv'
<1>1. /\ kind' = [kind EXCEPT ![m] = k] /\ about' = [about EXCEPT ![m] = x]
      /\ kind \in [Ids -> AlertKinds \cup {"none"}] /\ about \in [Ids -> Nat]
  BY DEF PublishAlert, AlertTypeOK, AboutInv
<1>2. about' \in [Ids -> Nat]
  BY <1>1
<1>3. ASSUME NEW n \in Ids, kind'[n] = "fuel_refill_final"
      PROVE  Told(about[n])'
  <2>1. CASE n = m
    BY <1>1, <1>3, <2>1
  <2>2. CASE n # m
    BY <1>1, <1>3, <2>2 DEF AboutInv
  <2> QED BY <2>1, <2>2
<1>4. ASSUME NEW n \in Ids, NEW o \in Ids, n # o, kind'[n] = "fuel_refill_final",
             kind'[o] = kind'[n], about'[n] = about'[o]
      PROVE  about'[n] \in shared'
  <2>1. CASE n # m /\ o # m
    BY <1>1, <1>4, <2>1 DEF AboutInv
  <2>2. CASE n = m \/ o = m
    <3>1. PICK q \in Ids : q # m /\ q \in {n, o}
      BY <1>4, <2>2
    <3>2. kind[q] = "fuel_refill_final" /\ about[q] = x /\ about'[n] = x /\ k = "fuel_refill_final"
      BY <1>1, <1>4, <2>2, <3>1
    <3>3. Told(x)
      BY <3>2 DEF AboutInv
    <3> QED BY <3>2, <3>3
  <2> QED BY <2>1, <2>2
<1> QED BY <1>2, <1>3, <1>4 DEF AboutInv

LEMMA AboutKept ==
  ASSUME AboutInv, UNCHANGED <<kind, about>>, announced' = announced, shared \subseteq shared'
  PROVE  AboutInv'
BY DEF AboutInv, Told

\* A session told again was in two hands at once: nobody else holds one that has
\* been told, unless it was shared.
LEMMA TellsOnce ==
  ASSUME RefillInv, NEW h \in Handlers, Settled(h)
  PROVE  /\ \A y : Told(y) => Told(y)'
         /\ shared' = shared
         /\ \E x \in Nat : /\ x = seen[h].id
                           /\ Announces(h) => Told(x)' /\ (Told(x) => x \in shared)
<1>1. /\ step[h] = "settled" /\ Waiting(h) /\ shared' = shared /\ seen[h] # NoSession
      /\ seen[h].id \in 1 .. opened /\ opened \in Nat
  <2>1. step[h] = "settled" /\ shared' = shared /\ Answered(h)
    BY DEF Settled
  <2>2. Waiting(h)
    BY <2>1, TailKeeps DEF RefillInv, ShapeInv, Answered, Waiting
  <2>3. seen[h] # NoSession
    BY <2>1 DEF RefillInv, TokenInv
  <2>4. SessionOk(seen[h]) /\ opened \in Nat
    BY DEF RefillInv, RefillTypeOK
  <2> QED BY <2>1, <2>2, <2>3, <2>4 DEF SessionOk
<1>2. Told(seen[h].id) => seen[h].id \in shared
  BY <1>1 DEF RefillInv, TokenInv, InHand
<1>3. /\ Announces(h) => announced' = Append(announced, Tale(h))
      /\ ~ Announces(h) => announced' = announced
  BY DEF Settled, Tale
<1>4. announced \in Seq(Tales) /\ Tale(h) \in Tales
  BY Numbers DEF RefillInv, ShapeInv, Tales, Tale, Confirmed, Lesser, Sessions, Packets
<1>5. /\ Len(Append(announced, Tale(h))) = Len(announced) + 1 /\ Len(announced) \in Nat
      /\ Append(announced, Tale(h))[Len(announced) + 1] = Tale(h)
      /\ \A i \in 1 .. Len(announced) : Append(announced, Tale(h))[i] = announced[i]
  <2> HIDE DEF Tale, Tales
  <2> QED BY <1>4
<1>6. Tale(h).id = seen[h].id
  BY DEF Tale
<1>7. CASE Announces(h)
  <2>0. PICK x \in Nat : x = seen[h].id
    BY <1>1
  <2>1. Told(x)'
    BY <1>3, <1>5, <1>6, <1>7, <2>0 DEF Told
  <2>2. \A y : Told(y) => Told(y)'
    BY <1>3, <1>5, <1>7 DEF Told
  <2> QED BY <1>1, <1>2, <2>0, <2>1, <2>2
<1>8. CASE ~ Announces(h)
  BY <1>1, <1>3, <1>8 DEF Told
<1> QED BY <1>7, <1>8

(***************************************************************************)
(* The two together.                                                       *)
(***************************************************************************)
LEMMA FuelInitially == FuelInit => FuelAlertsInv
<1> SUFFICES ASSUME FuelInit PROVE FuelAlertsInv
  OBVIOUS
<1>1. RefillInv /\ AlertInv
  BY RefillInitially, AlertInitially DEF FuelInit
<1>2. RowInv /\ ArmedInv /\ AboutInv
  BY DEF FuelInit, AlertInit, RowInv, ArmedInv, AboutInv, After
<1> QED BY <1>1, <1>2 DEF FuelAlertsInv

LEMMA FuelInductive == FuelAlertsInv /\ [FuelNext]_fuelVars => FuelAlertsInv'
<1> SUFFICES ASSUME FuelAlertsInv, [FuelNext]_fuelVars
             PROVE  FuelAlertsInv'
  OBVIOUS
<1> USE DEF FuelAlertsInv
<1>1. ASSUME NEW h \in Handlers, FuelPacket(h)
      PROVE  FuelAlertsInv'
  <2>1. RefillStep(h) /\ UNCHANGED warmAgain
    BY <1>1 DEF FuelPacket
  <2>2. RefillInv' /\ announced' = announced /\ shared \subseteq shared'
    BY <2>1, RefillInductive, RefillKeeps DEF RefillNext
  <2>3. CASE UNCHANGED alertVars
    <3>1. AlertInv' /\ RowInv' /\ ArmedInv' /\ UNCHANGED <<kind, about>>
      BY <2>1, <2>3, AlertElse
    <3> QED BY <2>2, <3>1, AboutKept
  <2>4. CASE Publish("fuel_theft", 0)
    <3>1. PICK m \in Ids : PublishAlert(m, "fuel_theft", 0)
      BY <2>4 DEF Publish
    <3>2. "fuel_theft" \in AlertKinds /\ "fuel_theft" # "fuel_refill_final"
      BY DEF AlertKinds
    <3>3. AlertInv' /\ RowInv' /\ ArmedInv'
      BY <2>1, <3>1, <3>2, PublishStep
    <3>4. \A y : Told(y) => Told(y)'
      BY <2>2 DEF Told
    <3>5. AboutInv'
      BY <2>2, <3>1, <3>2, <3>4, AboutStep DEF AlertInv
    <3> QED BY <2>2, <3>3, <3>5
  <2> QED BY <1>1, <2>3, <2>4 DEF FuelPacket
<1>2. ASSUME NEW h \in Handlers, FuelSettled(h)
      PROVE  FuelAlertsInv'
  <2>1. Settled(h) /\ UNCHANGED warmAgain
    BY <1>2 DEF FuelSettled
  <2>2. RefillInv'
    BY <2>1, RefillInductive DEF RefillNext
  <2>3. CASE ~ Announces(h)
    <3>1. UNCHANGED alertVars /\ announced' = announced /\ shared' = shared
      BY <1>2, <2>1, <2>3 DEF FuelSettled, Settled
    <3>2. AlertInv' /\ RowInv' /\ ArmedInv' /\ UNCHANGED <<kind, about>>
      BY <2>1, <3>1, AlertElse
    <3> QED BY <2>2, <3>1, <3>2, AboutKept
  <2>4. CASE Announces(h)
    <3>0. PICK x \in Nat : /\ x = seen[h].id
                           /\ Told(x)' /\ (Told(x) => x \in shared)
      BY <2>1, <2>4, TellsOnce
    <3>1. PICK m \in Ids : PublishAlert(m, "fuel_refill_final", x)
      BY <1>2, <2>4, <3>0 DEF FuelSettled, Publish
    <3>2. "fuel_refill_final" \in AlertKinds
      BY DEF AlertKinds
    <3>3. AlertInv' /\ RowInv' /\ ArmedInv'
      BY <2>1, <3>1, <3>2, PublishStep
    <3>4. (\A y : Told(y) => Told(y)') /\ shared' = shared
      BY <2>1, TellsOnce
    <3>5. AboutInv'
      BY <3>0, <3>1, <3>2, <3>4, AboutStep DEF AlertInv
    <3> QED BY <2>2, <3>3, <3>5
  <2> QED BY <2>3, <2>4
<1>3. ASSUME NEW m \in Ids, FuelAlert(m)
      PROVE  FuelAlertsInv'
  <2>1. AlertStep(m) /\ UNCHANGED <<refillVars, warmAgain>>
    BY <1>3 DEF FuelAlert
  <2>2. AlertInv' /\ RowInv' /\ ArmedInv' /\ UNCHANGED <<kind, about>>
    BY <2>1, HandlerStep
  <2>3. RefillInv' /\ announced' = announced /\ shared \subseteq shared'
    BY <2>1, RefillInductive, RefillKeeps
  <2> QED BY <2>2, <2>3, AboutKept
<1>4. ASSUME \/ \E k \in AlertKinds : FuelCooldownOver(k)
             \/ FuelTheftKeyOver \/ FuelOther \/ FuelRestart \/ UNCHANGED fuelVars
      PROVE  FuelAlertsInv'
  <2>1. \/ \E k \in AlertKinds : CooldownExpires(k) /\ warmAgain' = warmAgain \cup {k}
        \/ (TheftKeyExpires \/ AlertRestart) /\ UNCHANGED warmAgain
        \/ UNCHANGED <<alertVars, warmAgain>>
    BY <1>4 DEF FuelCooldownOver, FuelTheftKeyOver, FuelOther, FuelRestart, fuelVars
  <2>2. RefillOther \/ RefillRestart \/ UNCHANGED refillVars
    BY <1>4 DEF FuelCooldownOver, FuelTheftKeyOver, FuelOther, FuelRestart, fuelVars
  <2>3. AlertInv' /\ RowInv' /\ ArmedInv' /\ UNCHANGED <<kind, about>>
    BY <2>1, AlertElse
  <2>4. RefillInv' /\ announced' = announced /\ shared \subseteq shared'
    BY <2>2, RefillInductive, RefillKeeps DEF RefillNext
  <2> QED BY <2>3, <2>4, AboutKept
<1> QED BY <1>1, <1>2, <1>3, <1>4 DEF FuelNext

(***************************************************************************)
(* Theorems.                                                               *)
(***************************************************************************)
\* The refill sessions and the alert handlers keep their invariants together, and
\* every message about a refill tells an announced one (locationSubscriber.js:
\* 721-771, fuelEventAggregator.js:141-163, alertSubscriber.js:154-260).
THEOREM FuelInvariant == FuelSpec => []FuelAlertsInv
BY FuelInitially, FuelInductive, PTL DEF FuelSpec

\* Two rows tell one fill only when its session was in two hands at once and the
\* cooldown was passed together, by a failed call, or had run out, for any number
\* of packets, messages, failures and restarts
\* (fuelEventAggregator.js:133-161, alertSubscriber.js:228-241).
THEOREM RowsTellFillsOnce == FuelSpec => []OneRowPerFill
<1>1. FuelAlertsInv => OneRowPerFill
  <2> SUFFICES ASSUME FuelAlertsInv, NEW i \in 1 .. Len(saved), NEW j \in 1 .. Len(saved), i # j,
                      kind[saved[i]] = "fuel_refill_final", kind[saved[j]] = kind[saved[i]],
                      about[saved[i]] = about[saved[j]]
               PROVE  /\ about[saved[i]] \in shared
                      /\ \/ {saved[i], saved[j]} \subseteq overlapped
                         \/ {saved[i], saved[j]} \cap broken # {}
                         \/ kind[saved[i]] \in warmAgain
    BY DEF OneRowPerFill
  <2> DEFINE m == saved[i]
             n == saved[j]
  <2>1. m \in Ids /\ n \in Ids /\ m # n
    BY DEF FuelAlertsInv, RowInv, AlertInv, AlertTypeOK
  <2>2. about[m] \in shared
    BY <2>1 DEF FuelAlertsInv, AboutInv
  <2>3. ASSUME m \notin broken, n \notin broken, kind[m] \notin warmAgain
        PROVE  m \in overlapped /\ n \in overlapped
    <3>1. stage[m] \in After /\ stage[n] \in After
      BY <2>1, <2>3 DEF FuelAlertsInv, RowInv, After
    <3>2. m \in passed[kind[m]] /\ n \in passed[kind[m]]
      BY <2>1, <2>3, <3>1 DEF FuelAlertsInv, ArmedInv
    <3>3. kind[m] \in AlertKinds
      BY DEF AlertKinds
    <3> QED BY <2>1, <3>2, <3>3 DEF FuelAlertsInv, AlertInv, PassInv
  <2> QED BY <2>2, <2>3
<1> QED BY <1>1, FuelInvariant, PTL

(***************************************************************************)
(* The parts in the whole.  Nothing either part does is new to the other:  *)
(* every step of the two together is a step of the refill sessions, or     *)
(* none, and one of the alert subscriber, or none, which never looks at    *)
(* what a message is about.                                                *)
(***************************************************************************)
Alerts == INSTANCE AlertSubscriber WITH about <- [m \in Ids |-> 0]

\* Seen from the refill sessions, the alert handlers and the channel take no step
\* (locationSubscriber.js:721-771, fuelEventAggregator.js:59-167).
THEOREM FuelImplementsRefill == FuelSpec => RefillSpec
<1>1. FuelInit => RefillInit
  BY DEF FuelInit
<1>2. [FuelNext]_fuelVars => [RefillNext]_refillVars
  BY DEF FuelNext, FuelPacket, FuelSettled, FuelOther, FuelAlert, FuelCooldownOver, FuelTheftKeyOver,
     FuelRestart, RefillNext, fuelVars
<1> QED BY <1>1, <1>2, PTL DEF FuelSpec, RefillSpec

LEMMA AlertStepSeen ==
  ASSUME NEW m \in Ids, AlertStep(m)
  PROVE  Alerts!AlertStep(m)
<1>1. Deliver(m) => Alerts!Deliver(m)
  BY DEF Deliver, Alerts!Deliver, GoOn, Alerts!GoOn, Rivals, Alerts!Rivals, Family,
     Alerts!Family, Running, Alerts!Running, BatteryKinds, Alerts!BatteryKinds
<1>2. Resolve(m) => Alerts!Resolve(m)
  BY DEF Resolve, Alerts!Resolve, GoOn, Alerts!GoOn, BatteryKinds, Alerts!BatteryKinds
<1>3. ReadLatch(m) => Alerts!ReadLatch(m)
  BY DEF ReadLatch, Alerts!ReadLatch, GoOn, Alerts!GoOn, StateAfter, Alerts!StateAfter
<1>4. ReadLatchFails(m) => Alerts!ReadLatchFails(m)
  BY DEF ReadLatchFails, Alerts!ReadLatchFails, GoOn, Alerts!GoOn, Break, Alerts!Break
<1>5. WriteLatch(m) => Alerts!WriteLatch(m)
  BY DEF WriteLatch, Alerts!WriteLatch, GoOn, Alerts!GoOn, StateAfter, Alerts!StateAfter,
     FirstConnect, Alerts!FirstConnect
<1>6. WriteLatchFails(m) => Alerts!WriteLatchFails(m)
  BY DEF WriteLatchFails, Alerts!WriteLatchFails, GoOn, Alerts!GoOn, Break, Alerts!Break,
     FirstConnect, Alerts!FirstConnect
<1>7. ReadCooldown(m) => Alerts!ReadCooldown(m)
  BY DEF ReadCooldown, Alerts!ReadCooldown, GoOn, Alerts!GoOn, Cooling, Alerts!Cooling, Silences,
     Alerts!Silences, BatteryKinds, Alerts!BatteryKinds
<1>8. SetCooldown(m) => Alerts!SetCooldown(m)
  BY DEF SetCooldown, Alerts!SetCooldown, GoOn, Alerts!GoOn, CooledKind, Alerts!CooledKind
<1>9. CooldownFails(m) => Alerts!CooldownFails(m)
  BY DEF CooldownFails, Alerts!CooldownFails, GoOn, Alerts!GoOn, Break, Alerts!Break
<1>10. SaveAlert(m) => Alerts!SaveAlert(m)
  BY DEF SaveAlert, Alerts!SaveAlert, GoOn, Alerts!GoOn
<1>11. HandlerFails(m) => Alerts!HandlerFails(m)
  BY DEF HandlerFails, Alerts!HandlerFails, GoOn, Alerts!GoOn, Break, Alerts!Break, Silences,
     Alerts!Silences, BatteryKinds, Alerts!BatteryKinds
<1>12. Reserve(m) => Alerts!Reserve(m)
  BY DEF Reserve, Alerts!Reserve, GoOn, Alerts!GoOn, Reservable, Alerts!Reservable
<1>13. InsertRows(m) => Alerts!InsertRows(m)
  BY DEF InsertRows, Alerts!InsertRows, GoOn, Alerts!GoOn
<1>14. EnqueueFails(m) => Alerts!EnqueueFails(m)
  BY DEF EnqueueFails, Alerts!EnqueueFails, GoOn, Alerts!GoOn, Break, Alerts!Break
<1> QED BY <1>1, <1>2, <1>3, <1>4, <1>5, <1>6, <1>7, <1>8, <1>9, <1>10, <1>11, <1>12, <1>13, <1>14 DEF AlertStep, Alerts!AlertStep

\* Seen from the alert subscriber, the refill sessions and the thefts are a
\* publisher among others, whatever its messages are about
\* (alertSubscriber.js:154-260).
THEOREM FuelImplementsAlerts == FuelSpec => Alerts!AlertSpec
<1>1. FuelInit => Alerts!AlertInit
  BY DEF FuelInit, AlertInit, Alerts!AlertInit, AlertKinds, BatteryKinds, Alerts!AlertKinds,
     Alerts!BatteryKinds
<1>2. [FuelNext]_fuelVars => [Alerts!AlertNext]_(Alerts!alertVars)
  <2> SUFFICES ASSUME [FuelNext]_fuelVars
               PROVE  Alerts!AlertNext \/ UNCHANGED Alerts!alertVars
    OBVIOUS
  <2> USE DEF AlertKinds, BatteryKinds, Alerts!AlertKinds, Alerts!BatteryKinds
  <2>1. ASSUME NEW m \in Ids, NEW k \in AlertKinds, NEW x, PublishAlert(m, k, x)
        PROVE  Alerts!AlertNext
    BY <2>1 DEF PublishAlert, GoOn, Alerts!PublishAlert, Alerts!GoOn, Alerts!AlertNext
  <2>2. ASSUME NEW m \in Ids, AlertStep(m) PROVE Alerts!AlertNext
    BY <2>2, AlertStepSeen DEF Alerts!AlertNext
  <2>3. ASSUME NEW k \in AlertKinds, CooldownExpires(k) PROVE Alerts!AlertNext
    BY <2>3 DEF CooldownExpires, Alerts!CooldownExpires, Alerts!AlertTime, Alerts!AlertNext
  <2>4. TheftKeyExpires => Alerts!AlertNext
    BY DEF TheftKeyExpires, Alerts!TheftKeyExpires, Alerts!AlertTime, Alerts!AlertNext
  <2>5. AlertRestart => Alerts!AlertNext
    BY DEF AlertRestart, Running, Alerts!AlertRestart, Alerts!Running, Alerts!AlertNext
  <2>6. UNCHANGED alertVars => UNCHANGED Alerts!alertVars
    BY DEF alertVars, Alerts!alertVars
  <2>7. \/ \E m \in Ids, k \in {"fuel_theft", "fuel_refill_final"} : \E x : PublishAlert(m, k, x)
        \/ \E m \in Ids : AlertStep(m)
        \/ \E k \in AlertKinds : CooldownExpires(k)
        \/ TheftKeyExpires \/ AlertRestart \/ UNCHANGED alertVars
    BY DEF FuelNext, FuelPacket, FuelSettled, FuelOther, FuelAlert, FuelCooldownOver, FuelTheftKeyOver,
       FuelRestart, Publish, fuelVars
  <2> QED BY <2>1, <2>2, <2>3, <2>4, <2>5, <2>6, <2>7
<1> QED BY <1>1, <1>2, PTL DEF FuelSpec, Alerts!AlertSpec

\* So what each part promises by itself it promises in the composition: a refill
\* session is announced once and forwards, the set covers it, the cooldown and the
\* theft key let one message through, and a dropped message has an original.
THEOREM PartsKeepTheirPromises ==
  FuelSpec => []( /\ AnnouncedOnce /\ RefillGoesForward /\ HotCoversSession
                  /\ OncePerCooldown /\ DroppedHasOriginal /\ TheftOncePerKey )
<1>1. FuelAlertsInv => OncePerCooldown /\ DroppedHasOriginal /\ TheftOncePerKey
  BY AlertInvGives DEF FuelAlertsInv
<1> QED BY <1>1, FuelInvariant, FuelImplementsRefill, EachSessionOnce, RefillsGoForward,
        SetCoversSession, PTL

(***************************************************************************)
(* The ledger of fills.                                                    *)
(***************************************************************************)
\* A message past its INSERT has its row, and only the battery's are filtered.
RowsThere ==
  /\ \A m \in Ids : stage[m] \in {"reserve", "insert", "held", "nobody", "done"} => HasRow(m)
  /\ \A m \in Ids : stage[m] \in {"latch", "move", "filtered"} => kind[m] \in BatteryKinds

\* How a handler's step moves its message.
LEMMA HandlerMoves ==
  ASSUME AlertTypeOK, NEW m \in Ids, AlertStep(m)
  PROVE  \E s \in AlertStages :
           /\ stage' = [stage EXCEPT ![m] = s] /\ UNCHANGED <<kind, about>>
           /\ stage[m] \in Running \cup {"channel"}
           /\ s \in Running \cup {"filtered", "duplicate", "held", "nobody", "done", "lost"}
           /\ s \in {"latch", "move", "filtered"}
                => kind[m] \in BatteryKinds \/ stage[m] \in {"latch", "move"}
           /\ \/ stage[m] = "save" /\ saved' = Append(saved, m)
              \/ /\ saved' = saved
                 /\ s \in {"reserve", "insert", "held", "nobody", "done"} => stage[m] \in {"reserve", "insert"}
<1> USE DEF GoOn, AlertStages, Running
<1>1. CASE Deliver(m) \/ Resolve(m)
  BY <1>1 DEF Deliver, Resolve
<1>2. CASE ReadLatch(m) \/ ReadLatchFails(m)
  BY <1>2 DEF ReadLatch, ReadLatchFails
<1>3. CASE WriteLatch(m) \/ WriteLatchFails(m)
  BY <1>3 DEF WriteLatch, WriteLatchFails
<1>4. CASE ReadCooldown(m) \/ SetCooldown(m) \/ CooldownFails(m)
  BY <1>4 DEF ReadCooldown, SetCooldown, CooldownFails
<1>5. CASE SaveAlert(m)
  BY <1>5 DEF SaveAlert
<1>6. CASE HandlerFails(m)
  BY <1>6 DEF HandlerFails
<1>7. CASE Reserve(m) \/ InsertRows(m) \/ EnqueueFails(m)
  BY <1>7 DEF Reserve, InsertRows, EnqueueFails
<1> QED BY <1>1, <1>2, <1>3, <1>4, <1>5, <1>6, <1>7 DEF AlertStep

LEMMA RowsGrow ==
  ASSUME saved \in Seq(Ids), NEW m \in Ids, saved' = Append(saved, m)
  PROVE  \A n \in Ids : HasRow(n)' <=> HasRow(n) \/ n = m
<1>1. /\ Len(saved') = Len(saved) + 1 /\ Len(saved) \in Nat /\ saved'[Len(saved) + 1] = m
      /\ \A i \in 1 .. Len(saved) : saved'[i] = saved[i]
  OBVIOUS
<1>2. \A i \in 1 .. Len(saved') : i \in 1 .. Len(saved) \/ i = Len(saved) + 1
  BY <1>1
<1> QED BY <1>1, <1>2 DEF HasRow

LEMMA RowsThereStep ==
  ASSUME AlertTypeOK, RowsThere, NEW m \in Ids, AlertStep(m)
  PROVE  RowsThere'
<1>1. PICK s \in AlertStages :
           /\ stage' = [stage EXCEPT ![m] = s] /\ UNCHANGED <<kind, about>>
           /\ stage[m] \in Running \cup {"channel"}
           /\ s \in {"latch", "move", "filtered"}
                => kind[m] \in BatteryKinds \/ stage[m] \in {"latch", "move"}
           /\ \/ stage[m] = "save" /\ saved' = Append(saved, m)
              \/ /\ saved' = saved
                 /\ s \in {"reserve", "insert", "held", "nobody", "done"} => stage[m] \in {"reserve", "insert"}
  BY HandlerMoves
<1>2. /\ stage'[m] = s /\ \A n \in Ids \ {m} : stage'[n] = stage[n]
      /\ saved \in Seq(Ids)
  BY <1>1 DEF AlertTypeOK
<1>3. \A n \in Ids : stage'[n] \in {"reserve", "insert", "held", "nobody", "done"} => HasRow(n)'
  <2>1. CASE saved' = Append(saved, m)
    BY <1>2, <2>1, RowsGrow DEF RowsThere
  <2>2. CASE saved' = saved /\ (s \in {"reserve", "insert", "held", "nobody", "done"} => stage[m] \in {"reserve", "insert"})
    BY <1>2, <2>2 DEF RowsThere, HasRow
  <2> QED BY <1>1, <2>1, <2>2
<1>4. \A n \in Ids : stage'[n] \in {"latch", "move", "filtered"} => kind'[n] \in BatteryKinds
  BY <1>1, <1>2 DEF RowsThere
<1> QED BY <1>3, <1>4 DEF RowsThere

LEMMA RowsThereElse ==
  ASSUME AlertTypeOK, RowsThere,
         \/ \E m \in Ids, k \in AlertKinds : \E x : PublishAlert(m, k, x)
         \/ \E k \in AlertKinds : CooldownExpires(k)
         \/ TheftKeyExpires \/ AlertRestart \/ UNCHANGED alertVars
  PROVE  RowsThere'
<1>1. ASSUME NEW m \in Ids, NEW k \in AlertKinds, NEW x, PublishAlert(m, k, x) PROVE RowsThere'
  <2>1. /\ kind' = [kind EXCEPT ![m] = k] /\ stage' = [stage EXCEPT ![m] = "channel"]
        /\ saved' = saved
    BY <1>1 DEF PublishAlert, GoOn
  <2> QED BY <2>1 DEF RowsThere, AlertTypeOK, HasRow
<1>2. CASE AlertRestart
  <2>1. /\ UNCHANGED <<kind, saved>>
        /\ \A m \in Ids : stage'[m] \in {stage[m], "lost"}
    BY <1>2 DEF AlertRestart
  <2> QED BY <2>1 DEF RowsThere, HasRow
<1>3. CASE (\E k \in AlertKinds : CooldownExpires(k)) \/ TheftKeyExpires \/ UNCHANGED alertVars
  <2>1. UNCHANGED <<kind, stage, saved>>
    BY <1>3 DEF CooldownExpires, TheftKeyExpires, alertVars
  <2> QED BY <2>1 DEF RowsThere, HasRow
<1> QED BY <1>1, <1>2, <1>3

\* What the channel and the handlers do in a step of the composition.
LEMMA AlertPart ==
  ASSUME [FuelNext]_fuelVars
  PROVE  \/ \E m \in Ids : PublishAlert(m, "fuel_theft", 0) /\ \E h \in Handlers : RefillStep(h)
         \/ \E h \in Handlers, m \in Ids : /\ Settled(h) /\ Announces(h)
                                           /\ PublishAlert(m, "fuel_refill_final", seen[h].id)
         \/ \E m \in Ids : AlertStep(m) /\ UNCHANGED refillVars
         \/ \E k \in AlertKinds : CooldownExpires(k) /\ UNCHANGED refillVars
         \/ TheftKeyExpires /\ UNCHANGED refillVars
         \/ AlertRestart
         \/ UNCHANGED alertVars
BY DEF FuelNext, FuelPacket, FuelSettled, FuelOther, FuelAlert, FuelCooldownOver, FuelTheftKeyOver,
       FuelRestart, Publish, fuelVars

LEMMA RowsThereInductive ==
  FuelAlertsInv /\ RowsThere /\ [FuelNext]_fuelVars => RowsThere'
<1> SUFFICES ASSUME FuelAlertsInv, RowsThere, [FuelNext]_fuelVars
             PROVE  RowsThere'
  OBVIOUS
<1>1. AlertTypeOK /\ {"fuel_theft", "fuel_refill_final"} \subseteq AlertKinds
  BY DEF FuelAlertsInv, AlertInv, AlertKinds
<1> QED BY <1>1, AlertPart, RowsThereStep, RowsThereElse

\* What the phase of a fill is.
PhaseFacts ==
  \A s \in 1 .. opened :
    /\ s \in shared => FillPhase(s) = "disturbed"
    /\ s \notin shared /\ Tellings(s) = {} => FillPhase(s) = IF InUse(s) THEN "open" ELSE "closed"
    /\ s \notin shared /\ InUse(s) => Tellings(s) = {}
    /\ s \notin shared => \A m \in Tellings(s) : FillPhase(s) = AlertPhase(m)
    /\ \A m \in Tellings(s) : AlertPhase(m) \in {"told", "announced", "duplicate", "lost"}

LEMMA PhasesAre == FuelAlertsInv /\ RowsThere => PhaseFacts
<1> SUFFICES ASSUME FuelAlertsInv, RowsThere, NEW s \in 1 .. opened
             PROVE  /\ s \in shared => FillPhase(s) = "disturbed"
                    /\ s \notin shared /\ Tellings(s) = {}
                         => FillPhase(s) = IF InUse(s) THEN "open" ELSE "closed"
                    /\ s \notin shared /\ InUse(s) => Tellings(s) = {}
                    /\ s \notin shared => \A m \in Tellings(s) : FillPhase(s) = AlertPhase(m)
                    /\ \A m \in Tellings(s) : AlertPhase(m) \in {"told", "announced", "duplicate", "lost"}
  BY DEF PhaseFacts
<1>1. s \in shared => FillPhase(s) = "disturbed"
  BY DEF FillPhase
<1>2. s \notin shared /\ Tellings(s) = {} => FillPhase(s) = IF InUse(s) THEN "open" ELSE "closed"
  BY DEF FillPhase
<1>3. ASSUME NEW m \in Tellings(s), s \notin shared
      PROVE  ~InUse(s) /\ Tellings(s) = {m}
  <2>1. m \in Ids /\ kind[m] = "fuel_refill_final" /\ about[m] = s
    BY DEF Tellings
  <2>2. Told(s)
    BY <2>1 DEF FuelAlertsInv, AboutInv
  <2>3. session.id # s /\ \A h \in Handlers : ~InHand(h, s)
    BY <1>3, <2>2 DEF FuelAlertsInv, RefillInv, TokenInv
  <2>4. ~InUse(s)
    BY <2>3 DEF InUse, InHand
  <2>5. \A n \in Tellings(s) : n = m
    BY <1>3, <2>1 DEF FuelAlertsInv, AboutInv, Tellings
  <2> QED BY <2>4, <2>5
<1>4. ASSUME NEW m \in Tellings(s), s \notin shared
      PROVE  FillPhase(s) = AlertPhase(m)
  <2>1. ~InUse(s) /\ Tellings(s) = {m} /\ m \in Ids
    BY <1>3, <1>4 DEF Tellings
  <2>2. (CHOOSE n \in Ids : Tellings(s) = {n}) = m
    BY <2>1
  <2> QED BY <1>4, <2>1, <2>2 DEF FillPhase
<1>5. ASSUME NEW m \in Tellings(s)
      PROVE  AlertPhase(m) \in {"told", "announced", "duplicate", "lost"}
  <2>1. m \in Ids /\ kind[m] = "fuel_refill_final" /\ kind[m] \notin BatteryKinds /\ kind[m] # "none"
    BY DEF Tellings, BatteryKinds
  <2>2. stage[m] \in AlertStages /\ stage[m] # "absent"
    BY <2>1 DEF FuelAlertsInv, AlertInv, AlertTypeOK, KindInv
  <2>3. HasRow(m) \/ stage[m] \in Running \cup {"channel", "duplicate", "lost"}
    BY <2>1, <2>2 DEF RowsThere, AlertStages, Running
  <2> QED BY <2>3 DEF AlertPhase
<1> QED BY <1>1, <1>2, <1>3, <1>4, <1>5

(***************************************************************************)
(* How a step changes what a phase is made of.                             *)
(***************************************************************************)
\* Nobody takes up a session again that nobody holds, and a session that becomes
\* shared was held.
LEMMA SessionsMove ==
  ASSUME RefillInv, [RefillNext]_refillVars
  PROVE  /\ shared \subseteq shared' /\ shared' \subseteq 1 .. opened'
         /\ \A s \in 1 .. opened : /\ InUse(s)' => InUse(s)
                                   /\ s \in shared' \ shared => InUse(s)
         /\ \/ opened' = opened
            \/ opened' = opened + 1 /\ session'.id = opened + 1 /\ shared' = shared
<1> USE DEF InUse
<1>0. /\ step \in [Handlers -> Stages] /\ NoSession.id = 0 /\ opened \in Nat
      /\ seen \in [Handlers -> Sessions] /\ session \in Sessions
      /\ RefillTypeOK /\ ShapeInv
      /\ \A h \in Handlers : Waiting(h) <=> step[h] \notin {"idle", "begun"}
  BY TypeParts DEF RefillInv, RefillTypeOK, ShapeInv, NoSession, Stages
<1>c. shared' \subseteq 1 .. opened'
  <2>1. RefillInv'
    BY RefillInductive
  <2> QED BY <2>1 DEF RefillInv, RefillTypeOK
<1>1. CASE /\ UNCHANGED <<session, shared, opened>>
           /\ \A g \in Handlers : Waiting(g)' => Waiting(g) /\ seen'[g] = seen[g]
  BY <1>1, <1>c
<1>2. ASSUME NEW h \in Handlers, RefillStep(h) \/ Settled(h)
      PROVE  /\ shared \subseteq shared'
             /\ \A s \in 1 .. opened : /\ InUse(s)' => InUse(s)
                                       /\ s \in shared' \ shared => InUse(s)
             /\ \/ opened' = opened
                \/ opened' = opened + 1 /\ session'.id = opened + 1 /\ shared' = shared
  <2>1. ASSUME NEW t \in 0 .. MaxTime, NEW f \in Levels, NEW m \in Motions, Begin(h, t, f, m)
        PROVE  UNCHANGED <<session, shared, opened, replies, seen>>
    BY <2>1 DEF Begin
  <2>2. CASE UNCHANGED <<session, shared, opened, replies, seen>>
    BY <2>2 DEF Waiting
  <2>3. CASE Skip(h)
    <3>1. /\ UNCHANGED <<session, shared, opened, replies>>
          /\ \A g \in Handlers \ {h} : seen'[g] = seen[g]
          /\ ~Waiting(h)
      BY <1>0, <2>3 DEF Skip, Free
    <3> QED BY <3>1 DEF Waiting
  <2>4. CASE Look(h)
    <3>1. /\ \A g \in Handlers : Waiting(g)' <=> Waiting(g) \/ g = h
          /\ seen'[h] = session /\ \A g \in Handlers \ {h} : seen'[g] = seen[g]
          /\ UNCHANGED <<session, opened>>
          /\ shared' = shared \/ shared' = shared \cup {session.id}
      BY <1>0, <2>4, Enqueues, TypeParts DEF Look
    <3> QED BY <3>1
  <2>5. CASE Open(h)
    <3>1. /\ \A g \in Handlers : Waiting(g)' <=> Waiting(g)
          /\ opened' = opened + 1 /\ session'.id = opened + 1 /\ shared' = shared
          /\ UNCHANGED <<seen, shared>>
      BY <1>0, <2>5, Hands DEF Open, Store
    <3> QED BY <1>0, <3>1
  <2>6. CASE Raise(h) \/ Keep(h)
    <3>1. /\ \A g \in Handlers : Waiting(g)' <=> Waiting(g)
          /\ session'.id = seen[h].id /\ Waiting(h)
          /\ UNCHANGED <<seen, shared, opened>>
      BY <1>0, <2>6, Hands DEF Raise, Keep, Store, Sessions
    <3> QED BY <3>1
  <2>7. CASE Delete(h)
    <3>1. /\ \A g \in Handlers : Waiting(g)' <=> Waiting(g)
          /\ session'.id = 0 /\ UNCHANGED <<seen, shared, opened>>
      BY <1>0, <2>7, Hands DEF Delete, SessionAfterDel
    <3> QED BY <1>0, <3>1
  <2>8. CASE Ignore(h) \/ Stored(h) \/ Discarded(h) \/ CommandFails(h) \/ Settled(h)
    <3>1. Free(h) /\ Answered(h) /\ replies' = Tail(replies) /\ UNCHANGED <<session, opened, shared>>
      BY <2>8 DEF Ignore, Stored, Discarded, CommandFails, Settled
    <3>2. \A g \in Handlers : Waiting(g)' => Waiting(g) /\ seen'[g] = seen[g]
      BY <1>0, <3>1, Hands DEF Free
    <3> QED BY <3>1, <3>2
  <2> QED BY <1>2, <2>1, <2>2, <2>3, <2>4, <2>5, <2>6, <2>7, <2>8 DEF RefillStep
<1>3. CASE RefillOther \/ UNCHANGED refillVars
  <2>1. /\ UNCHANGED <<shared, opened, replies, seen>>
        /\ session' = session \/ session' = NoSession
    BY <1>3 DEF RefillOther, FirstPacket, SessionExpires, refillVars
  <2> QED BY <1>0, <1>c, <2>1 DEF Waiting
<1>4. CASE RefillRestart
  <2>1. \A g \in Handlers : ~Waiting(g)'
    BY <1>4 DEF RefillRestart, Waiting
  <2> QED BY <1>1, <1>4, <2>1 DEF RefillRestart
<1> QED BY <1>c, <1>2, <1>3, <1>4 DEF RefillNext

\* An announcement on its way ends as a row, a duplicate or a loss, and no end is
\* undone.
AlertGoes(m) ==
  \/ AlertPhase(m)' = AlertPhase(m)
  \/ AlertPhase(m) = "announced" /\ AlertPhase(m)' \in {"told", "duplicate", "lost"}

LEMMA StepAnnounced ==
  ASSUME AlertTypeOK, RowsThere', NEW m \in Ids, AlertStep(m),
         NEW n \in Ids, kind[n] = "fuel_refill_final"
  PROVE  AlertGoes(n)
<1>1. PICK s \in AlertStages :
           /\ stage' = [stage EXCEPT ![m] = s] /\ UNCHANGED <<kind, about>>
           /\ stage[m] \in Running \cup {"channel"}
           /\ s \in Running \cup {"filtered", "duplicate", "held", "nobody", "done", "lost"}
           /\ \/ stage[m] = "save" /\ saved' = Append(saved, m)
              \/ saved' = saved
  BY HandlerMoves
<1>2. /\ stage'[m] = s /\ \A o \in Ids \ {m} : stage'[o] = stage[o]
      /\ saved \in Seq(Ids)
  BY <1>1 DEF AlertTypeOK
<1>3. /\ HasRow(n) => HasRow(n)'
      /\ n # m => (HasRow(n)' <=> HasRow(n))
  BY <1>1, <1>2, RowsGrow DEF HasRow
<1>4. CASE n # m
  BY <1>2, <1>3, <1>4 DEF AlertGoes, AlertPhase
<1>5. CASE n = m
  <2>1. CASE HasRow(m)
    BY <1>3, <1>5, <2>1 DEF AlertGoes, AlertPhase
  <2>2. CASE ~HasRow(m)
    <3>1. AlertPhase(m) = "announced"
      BY <1>1, <2>2 DEF AlertPhase
    <3>2. kind'[m] \notin BatteryKinds
      BY <1>1, <1>5 DEF BatteryKinds
    <3>3. HasRow(m)' \/ s \in Running \cup {"duplicate", "lost"}
      BY <1>1, <1>2, <3>2 DEF RowsThere
    <3>4. AlertPhase(m)' \in {"announced", "told", "duplicate", "lost"}
      BY <1>2, <3>3 DEF AlertPhase
    <3> QED BY <1>5, <3>1, <3>4 DEF AlertGoes
  <2> QED BY <2>1, <2>2
<1> QED BY <1>4, <1>5

LEMMA ElseAnnounced ==
  ASSUME AlertTypeOK, NEW n \in Ids, kind[n] = "fuel_refill_final",
         \/ \E m \in Ids, k \in AlertKinds : \E x : PublishAlert(m, k, x) /\ m # n
         \/ \E k \in AlertKinds : CooldownExpires(k)
         \/ TheftKeyExpires \/ AlertRestart \/ UNCHANGED alertVars
  PROVE  AlertGoes(n)
<1>1. CASE \E m \in Ids, k \in AlertKinds : \E x : PublishAlert(m, k, x) /\ m # n
  <2>1. stage'[n] = stage[n] /\ saved' = saved
    BY <1>1 DEF PublishAlert, GoOn, AlertTypeOK
  <2> QED BY <2>1 DEF AlertGoes, AlertPhase, HasRow
<1>2. CASE AlertRestart
  <2>1. /\ saved' = saved
        /\ stage'[n] = IF stage[n] \in Running \cup {"channel"} THEN "lost" ELSE stage[n]
    BY <1>2 DEF AlertRestart
  <2>2. HasRow(n)' <=> HasRow(n)
    BY <2>1 DEF HasRow
  <2>3. "lost" \notin Running \cup {"channel"}
    BY DEF Running
  <2> QED BY <2>1, <2>2, <2>3 DEF AlertGoes, AlertPhase
<1>3. CASE (\E k \in AlertKinds : CooldownExpires(k)) \/ TheftKeyExpires \/ UNCHANGED alertVars
  <2>1. UNCHANGED <<stage, saved>>
    BY <1>3 DEF CooldownExpires, TheftKeyExpires, alertVars
  <2> QED BY <2>1 DEF AlertGoes, AlertPhase, HasRow
<1> QED BY <1>1, <1>2, <1>3

\* The announcements of a fill, before and after a step: the same, each going its
\* way, or its first one.
LEMMA TellingsMove ==
  ASSUME FuelAlertsInv, RowsThere', [FuelNext]_fuelVars, NEW s \in 1 .. opened, s \notin shared
  PROVE  \/ Tellings(s)' = Tellings(s) /\ \A n \in Tellings(s) : AlertGoes(n)
         \/ /\ Tellings(s) = {} /\ InUse(s)
            /\ \E m \in Ids : Tellings(s)' = {m} /\ AlertPhase(m)' = "announced"
<1>0. /\ AlertTypeOK /\ RowInv /\ {"fuel_theft", "fuel_refill_final"} \subseteq AlertKinds
      /\ kind \in [Ids -> AlertKinds \cup {"none"}] /\ about \in [Ids -> Nat]
      /\ "fuel_theft" # "fuel_refill_final" /\ "none" # "fuel_refill_final"
  BY DEF FuelAlertsInv, AlertInv, AlertTypeOK, AboutInv, AlertKinds
<1>1. \A n \in Tellings(s) : n \in Ids /\ kind[n] = "fuel_refill_final" /\ about[n] = s
  BY DEF Tellings
<1>2. ASSUME UNCHANGED <<kind, about>> PROVE Tellings(s)' = Tellings(s)
  BY <1>2 DEF Tellings
<1>3. ASSUME NEW m \in Ids, PublishAlert(m, "fuel_theft", 0)
      PROVE  Tellings(s)' = Tellings(s) /\ \A n \in Tellings(s) : AlertGoes(n)
  <2>1. /\ kind' = [kind EXCEPT ![m] = "fuel_theft"] /\ kind[m] = "none"
        /\ about' = [about EXCEPT ![m] = 0]
    BY <1>3 DEF PublishAlert
  <2>2. Tellings(s)' = Tellings(s)
    BY <1>0, <2>1 DEF Tellings
  <2>3. \A n \in Tellings(s) : n # m
    BY <1>0, <1>1, <2>1
  <2> QED BY <1>0, <1>1, <1>3, <2>2, <2>3, ElseAnnounced
<1>4. ASSUME NEW h \in Handlers, NEW m \in Ids, Settled(h), Announces(h),
             PublishAlert(m, "fuel_refill_final", seen[h].id)
      PROVE  \/ Tellings(s)' = Tellings(s) /\ \A n \in Tellings(s) : AlertGoes(n)
             \/ /\ Tellings(s) = {} /\ InUse(s)
                /\ \E o \in Ids : Tellings(s)' = {o} /\ AlertPhase(o)' = "announced"
  <2>1. /\ kind' = [kind EXCEPT ![m] = "fuel_refill_final"] /\ kind[m] = "none"
        /\ about' = [about EXCEPT ![m] = seen[h].id]
        /\ stage'[m] = "channel" /\ saved' = saved
    BY <1>0, <1>4 DEF PublishAlert, GoOn, AlertTypeOK
  <2>2. CASE seen[h].id # s
    <3>1. Tellings(s)' = Tellings(s)
      BY <1>0, <2>1, <2>2 DEF Tellings
    <3>2. \A n \in Tellings(s) : n # m
      BY <1>0, <1>1, <2>1
    <3> QED BY <1>0, <1>1, <1>4, <3>1, <3>2, ElseAnnounced
  <2>3. CASE seen[h].id = s
    <3>1. ~Told(s)
      BY <1>4, <2>3, TellsOnce DEF FuelAlertsInv
    <3>2. Tellings(s) = {}
      BY <1>1, <3>1 DEF FuelAlertsInv, AboutInv
    <3>3. Tellings(s)' = {m}
      <4>1. m \in Tellings(s)'
        BY <1>0, <2>1, <2>3 DEF Tellings
      <4>2. \A n \in Tellings(s)' : n = m
        <5>1. ASSUME NEW n \in Ids, n # m, kind'[n] = "fuel_refill_final", about'[n] = s
              PROVE  FALSE
          <6>1. n \in Tellings(s)
            BY <1>0, <2>1, <5>1 DEF Tellings
          <6> QED BY <3>2, <6>1
        <5> QED BY <5>1 DEF Tellings
      <4> QED BY <4>1, <4>2
    <3>4. Waiting(h)
      BY <1>4, Hands DEF Settled, FuelAlertsInv, RefillInv
    <3>5. InUse(s)
      BY <2>3, <3>4 DEF InUse
    <3>6. ~HasRow(m)
      <4>1. stage[m] = "absent"
        BY <1>0, <2>1 DEF FuelAlertsInv, AlertInv, KindInv
      <4> QED BY <4>1 DEF FuelAlertsInv, RowInv, HasRow
    <3>7. AlertPhase(m)' = "announced"
      BY <2>1, <3>6 DEF AlertPhase, HasRow
    <3> QED BY <3>2, <3>3, <3>5, <3>7
  <2> QED BY <2>2, <2>3
<1>5. ASSUME NEW m \in Ids, AlertStep(m)
      PROVE  Tellings(s)' = Tellings(s) /\ \A n \in Tellings(s) : AlertGoes(n)
  <2>1. UNCHANGED <<kind, about>>
    BY <1>0, <1>5, HandlerMoves
  <2> QED BY <1>0, <1>1, <1>2, <1>5, <2>1, StepAnnounced
<1>6. CASE (\E k \in AlertKinds : CooldownExpires(k)) \/ TheftKeyExpires \/ AlertRestart
           \/ UNCHANGED alertVars
  <2>1. UNCHANGED <<kind, about>>
    BY <1>6 DEF CooldownExpires, TheftKeyExpires, AlertRestart, alertVars
  <2> QED BY <1>0, <1>1, <1>2, <1>6, <2>1, ElseAnnounced
<1> QED BY <1>3, <1>4, <1>5, <1>6, AlertPart

\* The aggregator, the channel and the alert subscriber together keep the ledger
\* of fills, for any number of packets, messages, failures and restarts
\* (fuelEventAggregator.js:133-161, alertSubscriber.js:228-262).
THEOREM FuelImplementsLedger == FuelSpec => Implements
<1>1. FuelInit => RowsThere /\ Ledger!Init
  <2> SUFFICES ASSUME FuelInit PROVE RowsThere /\ Ledger!Init
    OBVIOUS
  <2>1. RowsThere
    BY DEF FuelInit, AlertInit, RowsThere
  <2>2. opened = 0 /\ FillPhases = [s \in 1 .. 0 |-> "open"]
    BY DEF FuelInit, RefillInit, FillPhases
  <2> QED BY <2>1, <2>2 DEF Ledger!Init
<1>2. FuelSpec => []RowsThere
  BY <1>1, RowsThereInductive, FuelInvariant, PTL DEF FuelSpec
<1>3. ASSUME FuelAlertsInv, FuelAlertsInv', RowsThere, RowsThere', PhaseFacts', [FuelNext]_fuelVars
      PROVE  [Ledger!Next]_(Ledger!vars)
  <2>1. PhaseFacts
    BY <1>3, PhasesAre
  <2>2. RefillInv /\ [RefillNext]_refillVars /\ opened \in Nat /\ opened' \in Nat
    <3>1. [RefillNext]_refillVars
      BY <1>3 DEF FuelNext, FuelPacket, FuelSettled, FuelOther, FuelAlert, FuelCooldownOver,
         FuelTheftKeyOver, FuelRestart, RefillNext, fuelVars
    <3> QED BY <1>3, <3>1 DEF FuelAlertsInv, RefillInv, RefillTypeOK
  <2>3. /\ shared \subseteq shared'
        /\ \A s \in 1 .. opened : /\ InUse(s)' => InUse(s)
                                  /\ s \in shared' \ shared => InUse(s)
        /\ \/ opened' = opened
           \/ opened' = opened + 1 /\ session'.id = opened + 1 /\ shared' = shared
    BY <2>2, SessionsMove
  <2>4. ASSUME NEW s \in 1 .. opened
        PROVE  \/ FillPhase(s)' = FillPhase(s)
               \/ <<FillPhase(s), FillPhase(s)'>> \in Ledger!Advances
    <3>0. s \in 1 .. opened'
      BY <2>2, <2>3
    <3>1. CASE s \in shared
      BY <2>1, <2>3, <3>0, <3>1, <1>3 DEF PhaseFacts
    <3>2. CASE s \in shared' \ shared
      <4>1. FillPhase(s) = "open"
        BY <2>1, <2>3, <3>2 DEF PhaseFacts
      <4>2. FillPhase(s)' = "disturbed"
        BY <1>3, <3>0, <3>2 DEF PhaseFacts
      <4> QED BY <4>1, <4>2 DEF Ledger!Advances
    <3>3. CASE s \notin shared /\ s \notin shared'
      <4>1. CASE Tellings(s)' = Tellings(s) /\ Tellings(s) = {}
        <5>1. /\ FillPhase(s) = IF InUse(s) THEN "open" ELSE "closed"
              /\ FillPhase(s)' = IF InUse(s)' THEN "open" ELSE "closed"
          BY <1>3, <2>1, <3>0, <3>3, <4>1 DEF PhaseFacts
        <5> QED BY <2>3, <5>1 DEF Ledger!Advances
      <4>2. ASSUME Tellings(s)' = Tellings(s), NEW m \in Tellings(s), AlertGoes(m)
            PROVE  \/ FillPhase(s)' = FillPhase(s)
                   \/ <<FillPhase(s), FillPhase(s)'>> \in Ledger!Advances
        <5>1. FillPhase(s) = AlertPhase(m) /\ FillPhase(s)' = AlertPhase(m)'
          BY <1>3, <2>1, <3>0, <3>3, <4>2 DEF PhaseFacts
        <5> QED BY <4>2, <5>1 DEF AlertGoes, Ledger!Advances
      <4>3. ASSUME Tellings(s) = {}, InUse(s),
                   NEW m \in Ids, Tellings(s)' = {m}, AlertPhase(m)' = "announced"
            PROVE  <<FillPhase(s), FillPhase(s)'>> \in Ledger!Advances
        <5>1. FillPhase(s) = "open" /\ FillPhase(s)' = "announced"
          BY <1>3, <2>1, <3>0, <3>3, <4>3 DEF PhaseFacts
        <5> QED BY <5>1 DEF Ledger!Advances
      <4> QED BY <1>3, <3>3, <4>1, <4>2, <4>3, TellingsMove
    <3> QED BY <3>1, <3>2, <3>3
  <2>5. \A s \in 1 .. opened' : FillPhase(s)' \in Ledger!Phases
    <3> SUFFICES ASSUME NEW s \in 1 .. opened' PROVE FillPhase(s)' \in Ledger!Phases
      OBVIOUS
    <3>1. CASE s \in shared' \/ Tellings(s)' = {}
      BY <1>3, <3>1 DEF PhaseFacts, Ledger!Phases
    <3>2. ASSUME s \notin shared', NEW m \in Tellings(s)'
          PROVE  FillPhase(s)' \in Ledger!Phases
      BY <1>3, <3>2 DEF PhaseFacts, Ledger!Phases
    <3> QED BY <3>1, <3>2
  <2>6. \A s \in 1 .. opened' : s = opened + 1 => FillPhase(s)' = "open"
    <3> SUFFICES ASSUME NEW s \in 1 .. opened', s = opened + 1
                 PROVE  FillPhase(s)' = "open"
      OBVIOUS
    <3>1. s = opened + 1 /\ opened' = opened + 1
      BY <2>2, <2>3
    <3>2. s \notin shared'
      <4>1. shared \subseteq 1 .. opened
        BY <1>3 DEF FuelAlertsInv, RefillInv, RefillTypeOK
      <4> QED BY <2>2, <2>3, <3>1, <4>1
    <3>3. InUse(s)'
      BY <2>2, <2>3, <3>1 DEF InUse
    <3> QED BY <1>3, <3>2, <3>3 DEF PhaseFacts
  <2>7. /\ opened' \in {opened, opened + 1}
        /\ FillPhases' = [s \in 1 .. opened' |-> FillPhase(s)']
        /\ FillPhases = [s \in 1 .. opened |-> FillPhase(s)]
    BY <2>3 DEF FillPhases
  <2>8. FillPhases' \in [1 .. opened' -> Ledger!Phases]
    BY <2>5, <2>7
  <2>9. \A s \in 1 .. opened : \/ FillPhases'[s] = FillPhases[s]
                               \/ <<FillPhases[s], FillPhases'[s]>> \in Ledger!Advances
    <3> SUFFICES ASSUME NEW s \in 1 .. opened
                 PROVE  \/ FillPhases'[s] = FillPhases[s]
                        \/ <<FillPhases[s], FillPhases'[s]>> \in Ledger!Advances
      OBVIOUS
    <3>1. s \in 1 .. opened'
      BY <2>2, <2>7
    <3>2. FillPhases'[s] = FillPhase(s)' /\ FillPhases[s] = FillPhase(s)
      BY <2>7, <3>1
    <3> QED BY <2>4, <3>2
  <2>10. opened' > opened => FillPhases'[opened'] = "open"
    BY <2>2, <2>3, <2>6, <2>7
  <2> QED BY <2>7, <2>8, <2>9, <2>10 DEF Ledger!Next
<1>4. FuelAlertsInv' /\ RowsThere' => PhaseFacts'
  BY PhasesAre, PTL
<1> QED BY <1>1, <1>2, <1>3, <1>4, FuelInvariant, PTL DEF FuelSpec, Implements, Ledger!Spec
=============================================================================
