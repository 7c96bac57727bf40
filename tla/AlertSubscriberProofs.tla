------------------------ MODULE AlertSubscriberProofs ------------------------
(***************************************************************************)
(* The alert handlers for any number of messages and failures: types, what *)
(* the cooldown lets pass, what it drops, and the theft key.               *)
(***************************************************************************)
EXTENDS AlertSubscriber, FiniteSetTheorems, TLAPS

(***************************************************************************)
(* The inductive invariant.                                                *)
(***************************************************************************)
KindInv == \A m \in Ids : /\ kind[m] = "none" <=> stage[m] = "absent"
                          /\ stage[m] = "reserve" => kind[m] = "fuel_theft"
                          /\ stage[m] \in {"absent", "channel", "resolve", "latch"}
                               => lastState[m] = "unknown"

\* Handlers of one kind that are under way together know of each other.
OverlapInv ==
  \A m, n \in Ids :
    m # n /\ stage[m] \in Running /\ stage[n] \in Running /\ kind[n] \in Family(kind[m])
      => m \in overlapped

\* A message that is past the cooldown, or failed on its way.
After   == {"save", "reserve", "insert", "held", "nobody", "done"}
Kept(n) == n \in broken \/ stage[n] \in After

\* The key and those that passed under it; whoever saw no key and is about to set
\* it overlaps all that passed meanwhile.
PassInv ==
  \A k \in AlertKinds :
    /\ cooldown[k] <=> passed[k] # {}
    /\ \A a \in passed[k] : kind[a] = k /\ Kept(a) /\ stage[a] \in After \cup {"lost"}
    /\ \A a, b \in passed[k] : a # b => a \in overlapped
    /\ \A a \in passed[k], m \in Ids :
         stage[m] = "arm" /\ kind[m] = k => a \in overlapped /\ m \in overlapped

\* A theft whose rows exist, are being written, had no recipient, or whose
\* enqueueing failed.
Served(n) == n \in queued \cup broken \/ stage[n] \in {"insert", "nobody"}

TheftInv ==
  /\ theftKey <=> theftBy # {}
  /\ \A a, b \in theftBy : a = b
  /\ \A a \in theftBy : /\ kind[a] = "fuel_theft" /\ Served(a)
                        /\ stage[a] \in {"insert", "nobody", "done", "lost"}
  /\ \A m \in Ids : stage[m] = "held" =>
       \E n \in Ids \ {m} : kind[n] = "fuel_theft" /\ Served(n)

AlertInv == /\ AlertTypeOK /\ KindInv /\ OverlapInv /\ PassInv /\ TheftInv
            /\ DroppedHasOriginal

(***************************************************************************)
(* One lemma per part of the invariant, one step per action.               *)
(***************************************************************************)
LEMMA AlertTypeStep ==
  ASSUME AlertTypeOK, KindInv, [AlertNext]_alertVars
  PROVE  AlertTypeOK'
<1> USE DEF alertVars, GoOn, AlertTypeOK, AlertStages, Running, Break
<1>1. ASSUME NEW m \in Ids, NEW k \in AlertKinds, PublishAlert(m, k, 0) PROVE AlertTypeOK'
  BY <1>1 DEF PublishAlert
<1>2. ASSUME NEW m \in Ids, Deliver(m) PROVE AlertTypeOK'
  <2>1. overlapped' \subseteq Ids
    BY <1>2 DEF Deliver, Rivals
  <2> QED BY <1>2, <2>1 DEF Deliver
<1>3. ASSUME NEW m \in Ids, Resolve(m) PROVE AlertTypeOK'
  BY <1>3 DEF Resolve
<1>4. ASSUME NEW m \in Ids, ReadLatch(m) PROVE AlertTypeOK'
  BY <1>4 DEF ReadLatch, StateAfter
<1>5. ASSUME NEW m \in Ids, ReadLatchFails(m) PROVE AlertTypeOK'
  <2>1. alertFaults' \in 0 .. MaxAlertFaults
    BY <1>5, AlertAssumption DEF ReadLatchFails, Break
  <2>2. broken' \subseteq Ids
    BY <1>5 DEF ReadLatchFails, Break
  <2>3. lastState[m] # StateAfter(kind[m])
    BY <1>5 DEF KindInv, StateAfter, ReadLatchFails
  <2> QED BY <1>5, <2>1, <2>2, <2>3 DEF ReadLatchFails
<1>6. ASSUME NEW m \in Ids, WriteLatch(m) PROVE AlertTypeOK'
  BY <1>6 DEF WriteLatch, FirstConnect, StateAfter
<1>7. ASSUME NEW m \in Ids, WriteLatchFails(m) PROVE AlertTypeOK'
  <2>1. alertFaults' \in 0 .. MaxAlertFaults
    BY <1>7, AlertAssumption DEF WriteLatchFails, Break
  <2>2. broken' \subseteq Ids
    BY <1>7 DEF WriteLatchFails, Break
  <2> QED BY <1>7, <2>1, <2>2 DEF WriteLatchFails, Break, FirstConnect, StateAfter
<1>8. ASSUME NEW m \in Ids, ReadCooldown(m) PROVE AlertTypeOK'
  BY <1>8 DEF ReadCooldown, Cooling, Silences
<1>9. ASSUME NEW m \in Ids, SetCooldown(m) PROVE AlertTypeOK'
  BY <1>9 DEF SetCooldown, CooledKind
<1>10. ASSUME NEW m \in Ids, CooldownFails(m) PROVE AlertTypeOK'
  <2>1. alertFaults' \in 0 .. MaxAlertFaults
    BY <1>10, AlertAssumption DEF CooldownFails, Break
  <2>2. broken' \subseteq Ids
    BY <1>10 DEF CooldownFails, Break
  <2> QED BY <1>10, <2>1, <2>2 DEF CooldownFails, Break
<1>11. ASSUME NEW m \in Ids, SaveAlert(m) PROVE AlertTypeOK'
  <2>1. saved' \in Seq(Ids)
    BY <1>11 DEF SaveAlert
  <2>2. stage' \in [Ids -> AlertStages] /\ \A n \in Ids : stage'[n] = "move" => n # m /\ stage[n] = "move"
    BY <1>11 DEF SaveAlert
  <2> QED BY <1>11, <2>1, <2>2 DEF SaveAlert
<1>12. ASSUME NEW m \in Ids, HandlerFails(m) PROVE AlertTypeOK'
  <2>1. alertFaults' \in 0 .. MaxAlertFaults
    BY <1>12, AlertAssumption DEF HandlerFails, Break
  <2>2. broken' \subseteq Ids
    BY <1>12 DEF HandlerFails, Break
  <2> QED BY <1>12, <2>1, <2>2 DEF HandlerFails, Break, Silences
<1>13. ASSUME NEW m \in Ids, Reserve(m) PROVE AlertTypeOK'
  BY <1>13 DEF Reserve, Reservable
<1>14. ASSUME NEW m \in Ids, InsertRows(m) PROVE AlertTypeOK'
  BY <1>14 DEF InsertRows
<1>15. ASSUME NEW m \in Ids, EnqueueFails(m) PROVE AlertTypeOK'
  <2>1. alertFaults' \in 0 .. MaxAlertFaults
    BY <1>15, AlertAssumption DEF EnqueueFails, Break
  <2>2. broken' \subseteq Ids
    BY <1>15 DEF EnqueueFails, Break
  <2> QED BY <1>15, <2>1, <2>2 DEF EnqueueFails, Break
<1>16. ASSUME NEW k \in AlertKinds, CooldownExpires(k) PROVE AlertTypeOK'
  BY <1>16 DEF CooldownExpires
<1>17. CASE TheftKeyExpires
  BY <1>17 DEF TheftKeyExpires
<1>18. CASE LatchExpires
  BY <1>18 DEF LatchExpires
<1>19. CASE AlertRestart
  <2>1. alertFaults' \in 0 .. MaxAlertFaults
    BY <1>19, AlertAssumption DEF AlertRestart, Break
  <2>2. broken' \subseteq Ids
    BY <1>19 DEF AlertRestart, Break
  <2> QED BY <1>19, <2>1, <2>2 DEF AlertRestart
<1>20. CASE UNCHANGED alertVars
  BY <1>20
<1> QED
  BY <1>1, <1>2, <1>3, <1>4, <1>5, <1>6, <1>7, <1>8, <1>9, <1>10,
     <1>11, <1>12, <1>13, <1>14, <1>15, <1>16, <1>17, <1>18, <1>19, <1>20
  DEF AlertNext, AlertStep, AlertTime

LEMMA KindStep ==
  ASSUME AlertTypeOK, KindInv, [AlertNext]_alertVars
  PROVE  KindInv'
<1> USE DEF alertVars, GoOn, AlertTypeOK, KindInv, BatteryKinds, AlertKinds, Running, Break
<1>1. ASSUME NEW m \in Ids, NEW k \in AlertKinds, PublishAlert(m, k, 0) PROVE KindInv'
  BY <1>1 DEF PublishAlert
<1>2. ASSUME NEW m \in Ids, Deliver(m) PROVE KindInv'
  BY <1>2 DEF Deliver
<1>3. ASSUME NEW m \in Ids, Resolve(m) PROVE KindInv'
  BY <1>3 DEF Resolve
<1>4. ASSUME NEW m \in Ids, ReadLatch(m) PROVE KindInv'
  BY <1>4 DEF ReadLatch, StateAfter
<1>5. ASSUME NEW m \in Ids, ReadLatchFails(m) PROVE KindInv'
  BY <1>5 DEF ReadLatchFails, Break
<1>6. ASSUME NEW m \in Ids, WriteLatch(m) PROVE KindInv'
  BY <1>6 DEF WriteLatch, FirstConnect, StateAfter
<1>7. ASSUME NEW m \in Ids, WriteLatchFails(m) PROVE KindInv'
  BY <1>7 DEF WriteLatchFails, Break, FirstConnect, StateAfter
<1>8. ASSUME NEW m \in Ids, ReadCooldown(m) PROVE KindInv'
  BY <1>8 DEF ReadCooldown, Cooling, Silences
<1>9. ASSUME NEW m \in Ids, SetCooldown(m) PROVE KindInv'
  BY <1>9 DEF SetCooldown, CooledKind
<1>10. ASSUME NEW m \in Ids, CooldownFails(m) PROVE KindInv'
  BY <1>10 DEF CooldownFails, Break
<1>11. ASSUME NEW m \in Ids, SaveAlert(m) PROVE KindInv'
  BY <1>11 DEF SaveAlert
<1>12. ASSUME NEW m \in Ids, HandlerFails(m) PROVE KindInv'
  BY <1>12 DEF HandlerFails, Break, Silences
<1>13. ASSUME NEW m \in Ids, Reserve(m) PROVE KindInv'
  BY <1>13 DEF Reserve, Reservable
<1>14. ASSUME NEW m \in Ids, InsertRows(m) PROVE KindInv'
  BY <1>14 DEF InsertRows
<1>15. ASSUME NEW m \in Ids, EnqueueFails(m) PROVE KindInv'
  BY <1>15 DEF EnqueueFails, Break
<1>16. ASSUME NEW k \in AlertKinds, CooldownExpires(k) PROVE KindInv'
  BY <1>16 DEF CooldownExpires
<1>17. CASE TheftKeyExpires
  BY <1>17 DEF TheftKeyExpires
<1>18. CASE LatchExpires
  BY <1>18 DEF LatchExpires
<1>19. CASE AlertRestart
  BY <1>19 DEF AlertRestart
<1>20. CASE UNCHANGED alertVars
  BY <1>20
<1> QED
  BY <1>1, <1>2, <1>3, <1>4, <1>5, <1>6, <1>7, <1>8, <1>9, <1>10,
     <1>11, <1>12, <1>13, <1>14, <1>15, <1>16, <1>17, <1>18, <1>19, <1>20
  DEF AlertNext, AlertStep, AlertTime

LEMMA OverlapStep ==
  ASSUME AlertTypeOK, KindInv, OverlapInv, [AlertNext]_alertVars
  PROVE  OverlapInv'
<1> USE DEF alertVars, GoOn, AlertTypeOK, KindInv, OverlapInv, Family, Running, Break, AlertKinds, BatteryKinds
<1>1. ASSUME NEW m \in Ids, NEW k \in AlertKinds, PublishAlert(m, k, 0) PROVE OverlapInv'
  BY <1>1 DEF PublishAlert
<1>2. ASSUME NEW m \in Ids, Deliver(m) PROVE OverlapInv'
  <2>1. stage' = [stage EXCEPT ![m] = "resolve"] /\ kind' = kind
    BY <1>2 DEF Deliver
  <2>2. overlapped \subseteq overlapped'
    BY <1>2 DEF Deliver
  <2>3. ASSUME NEW n \in Ids, n # m, stage[n] \in Running, kind[n] \in Family(kind[m])
        PROVE  n \in overlapped' /\ m \in overlapped'
    BY <1>2, <2>3 DEF Deliver, Rivals
  <2>4. \A n \in Ids : kind[m] \in Family(kind[n]) => kind[n] \in Family(kind[m])
    OBVIOUS
  <2> QED BY <2>1, <2>2, <2>3, <2>4
<1>3. ASSUME NEW m \in Ids, Resolve(m) PROVE OverlapInv'
  BY <1>3 DEF Resolve
<1>4. ASSUME NEW m \in Ids, ReadLatch(m) PROVE OverlapInv'
  BY <1>4 DEF ReadLatch, StateAfter
<1>5. ASSUME NEW m \in Ids, ReadLatchFails(m) PROVE OverlapInv'
  BY <1>5 DEF ReadLatchFails, Break
<1>6. ASSUME NEW m \in Ids, WriteLatch(m) PROVE OverlapInv'
  BY <1>6 DEF WriteLatch, FirstConnect, StateAfter
<1>7. ASSUME NEW m \in Ids, WriteLatchFails(m) PROVE OverlapInv'
  BY <1>7 DEF WriteLatchFails, Break, FirstConnect, StateAfter
<1>8. ASSUME NEW m \in Ids, ReadCooldown(m) PROVE OverlapInv'
  BY <1>8 DEF ReadCooldown, Cooling, Silences
<1>9. ASSUME NEW m \in Ids, SetCooldown(m) PROVE OverlapInv'
  BY <1>9 DEF SetCooldown, CooledKind
<1>10. ASSUME NEW m \in Ids, CooldownFails(m) PROVE OverlapInv'
  BY <1>10 DEF CooldownFails, Break
<1>11. ASSUME NEW m \in Ids, SaveAlert(m) PROVE OverlapInv'
  BY <1>11 DEF SaveAlert
<1>12. ASSUME NEW m \in Ids, HandlerFails(m) PROVE OverlapInv'
  BY <1>12 DEF HandlerFails, Break, Silences
<1>13. ASSUME NEW m \in Ids, Reserve(m) PROVE OverlapInv'
  BY <1>13 DEF Reserve, Reservable
<1>14. ASSUME NEW m \in Ids, InsertRows(m) PROVE OverlapInv'
  BY <1>14 DEF InsertRows
<1>15. ASSUME NEW m \in Ids, EnqueueFails(m) PROVE OverlapInv'
  BY <1>15 DEF EnqueueFails, Break
<1>16. ASSUME NEW k \in AlertKinds, CooldownExpires(k) PROVE OverlapInv'
  BY <1>16 DEF CooldownExpires
<1>17. CASE TheftKeyExpires
  BY <1>17 DEF TheftKeyExpires
<1>18. CASE LatchExpires
  BY <1>18 DEF LatchExpires
<1>19. CASE AlertRestart
  BY <1>19 DEF AlertRestart
<1>20. CASE UNCHANGED alertVars
  BY <1>20
<1> QED
  BY <1>1, <1>2, <1>3, <1>4, <1>5, <1>6, <1>7, <1>8, <1>9, <1>10,
     <1>11, <1>12, <1>13, <1>14, <1>15, <1>16, <1>17, <1>18, <1>19, <1>20
  DEF AlertNext, AlertStep, AlertTime

\* What passes when the key is set.
LEMMA Passing ==
  ASSUME AlertTypeOK, KindInv, NEW m \in Ids, SetCooldown(m)
  PROVE  /\ stage[m] = "arm" /\ stage' = [stage EXCEPT ![m] = "save"] /\ kind[m] \in AlertKinds
         /\ cooldown'[kind[m]] = TRUE /\ passed'[kind[m]] = passed[kind[m]] \cup {m}
         /\ \A k \in AlertKinds \ {kind[m]} : cooldown'[k] = cooldown[k] /\ passed'[k] = passed[k]
         /\ UNCHANGED <<kind, broken, overlapped>>
<1>1. stage[m] = "arm" /\ kind[m] \in AlertKinds
  BY DEF SetCooldown, AlertTypeOK, KindInv
<1>2. cooldown' = [cooldown EXCEPT ![kind[m]] = TRUE]
      /\ passed' = [passed EXCEPT ![kind[m]] = passed[kind[m]] \cup {m}]
  BY DEF SetCooldown, CooledKind
<1> QED BY <1>1, <1>2 DEF SetCooldown, AlertTypeOK, GoOn

LEMMA CooldownStep ==
  ASSUME AlertTypeOK, KindInv, OverlapInv, PassInv, [AlertNext]_alertVars
  PROVE  PassInv'
<1> USE DEF alertVars, GoOn, AlertTypeOK, KindInv, PassInv, Kept, After, Running, Break
<1>1. ASSUME NEW m \in Ids, NEW k \in AlertKinds, PublishAlert(m, k, 0) PROVE PassInv'
  BY <1>1 DEF PublishAlert
<1>2. ASSUME NEW m \in Ids, Deliver(m) PROVE PassInv'
  BY <1>2 DEF Deliver
<1>3. ASSUME NEW m \in Ids, Resolve(m) PROVE PassInv'
  BY <1>3 DEF Resolve
<1>4. ASSUME NEW m \in Ids, ReadLatch(m) PROVE PassInv'
  BY <1>4 DEF ReadLatch, StateAfter
<1>5. ASSUME NEW m \in Ids, ReadLatchFails(m) PROVE PassInv'
  BY <1>5 DEF ReadLatchFails, Break
<1>6. ASSUME NEW m \in Ids, WriteLatch(m) PROVE PassInv'
  BY <1>6 DEF WriteLatch, FirstConnect, StateAfter
<1>7. ASSUME NEW m \in Ids, WriteLatchFails(m) PROVE PassInv'
  BY <1>7 DEF WriteLatchFails, Break, FirstConnect, StateAfter
<1>8. ASSUME NEW m \in Ids, ReadCooldown(m) PROVE PassInv'
  BY <1>8 DEF ReadCooldown, Cooling, Silences
<1>9. ASSUME NEW m \in Ids, SetCooldown(m) PROVE PassInv'
  <2> DEFINE q == kind[m]
  <2>1. /\ stage[m] = "arm" /\ stage' = [stage EXCEPT ![m] = "save"] /\ q \in AlertKinds
        /\ cooldown'[q] = TRUE /\ passed'[q] = passed[q] \cup {m}
        /\ \A k \in AlertKinds \ {q} : cooldown'[k] = cooldown[k] /\ passed'[k] = passed[k]
        /\ UNCHANGED <<kind, broken, overlapped>>
    BY <1>9, Passing
  <2>2. \A n \in Ids : n # m /\ stage[n] = "arm" /\ kind[n] = q => n \in overlapped /\ m \in overlapped
    BY <2>1 DEF OverlapInv, Family
  <2>3. \A a \in passed[q] : a # m /\ a \in overlapped /\ m \in overlapped
    BY <2>1
  <2> HIDE DEF q
  <2>4. ASSUME NEW k \in AlertKinds \ {q}
        PROVE  cooldown'[k] = cooldown[k] /\ passed'[k] = passed[k] /\ m \notin passed[k]
    BY <2>1
  <2>5. cooldown'[q] /\ passed'[q] = passed[q] \cup {m}
    BY <2>1
  <2>8. kind[m] = q
    BY DEF q
  <2>6. \A n \in Ids : stage'[n] = "arm" => n # m /\ stage[n] = "arm"
    BY <2>1
  <2>7. \A n \in Ids : n # m => stage'[n] = stage[n]
    BY <2>1
  <2> QED BY <2>1, <2>2, <2>3, <2>4, <2>5, <2>6, <2>7, <2>8
<1>10. ASSUME NEW m \in Ids, CooldownFails(m) PROVE PassInv'
  BY <1>10 DEF CooldownFails, Break
<1>11. ASSUME NEW m \in Ids, SaveAlert(m) PROVE PassInv'
  BY <1>11 DEF SaveAlert
<1>12. ASSUME NEW m \in Ids, HandlerFails(m) PROVE PassInv'
  BY <1>12 DEF HandlerFails, Break, Silences
<1>13. ASSUME NEW m \in Ids, Reserve(m) PROVE PassInv'
  BY <1>13 DEF Reserve, Reservable
<1>14. ASSUME NEW m \in Ids, InsertRows(m) PROVE PassInv'
  BY <1>14 DEF InsertRows
<1>15. ASSUME NEW m \in Ids, EnqueueFails(m) PROVE PassInv'
  BY <1>15 DEF EnqueueFails, Break
<1>16. ASSUME NEW k \in AlertKinds, CooldownExpires(k) PROVE PassInv'
  BY <1>16 DEF CooldownExpires
<1>17. CASE TheftKeyExpires
  BY <1>17 DEF TheftKeyExpires
<1>18. CASE LatchExpires
  BY <1>18 DEF LatchExpires
<1>19. CASE AlertRestart
  BY <1>19 DEF AlertRestart
<1>20. CASE UNCHANGED alertVars
  BY <1>20
<1> QED
  BY <1>1, <1>2, <1>3, <1>4, <1>5, <1>6, <1>7, <1>8, <1>9, <1>10,
     <1>11, <1>12, <1>13, <1>14, <1>15, <1>16, <1>17, <1>18, <1>19, <1>20
  DEF AlertNext, AlertStep, AlertTime

LEMMA DuplicateStep ==
  ASSUME AlertTypeOK, KindInv, PassInv, DroppedHasOriginal, [AlertNext]_alertVars
  PROVE  DroppedHasOriginal'
<1> USE DEF alertVars, GoOn, AlertTypeOK, KindInv, DroppedHasOriginal, Running, Break
<1>1. ASSUME NEW m \in Ids, NEW k \in AlertKinds, PublishAlert(m, k, 0) PROVE DroppedHasOriginal'
  BY <1>1 DEF PublishAlert
<1>2. ASSUME NEW m \in Ids, Deliver(m) PROVE DroppedHasOriginal'
  BY <1>2 DEF Deliver
<1>3. ASSUME NEW m \in Ids, Resolve(m) PROVE DroppedHasOriginal'
  BY <1>3 DEF Resolve
<1>4. ASSUME NEW m \in Ids, ReadLatch(m) PROVE DroppedHasOriginal'
  BY <1>4 DEF ReadLatch, StateAfter
<1>5. ASSUME NEW m \in Ids, ReadLatchFails(m) PROVE DroppedHasOriginal'
  BY <1>5 DEF ReadLatchFails, Break
<1>6. ASSUME NEW m \in Ids, WriteLatch(m) PROVE DroppedHasOriginal'
  BY <1>6 DEF WriteLatch, FirstConnect, StateAfter
<1>7. ASSUME NEW m \in Ids, WriteLatchFails(m) PROVE DroppedHasOriginal'
  BY <1>7 DEF WriteLatchFails, Break, FirstConnect, StateAfter
<1>8. ASSUME NEW m \in Ids, ReadCooldown(m) PROVE DroppedHasOriginal'
  <2>1. CASE Cooling(kind[m])
    <3>1. kind[m] \in AlertKinds /\ stage[m] = "check"
      BY <1>8 DEF ReadCooldown
    <3>2. PICK n \in passed[kind[m]] : kind[n] = kind[m] /\ Kept(n) /\ stage[n] \in After \cup {"lost"}
      BY <2>1, <3>1 DEF PassInv, Cooling
    <3>3. n \in Ids \ {m}
      BY <3>1, <3>2 DEF After
    <3> QED BY <1>8, <2>1, <3>2, <3>3 DEF ReadCooldown, Kept, After
  <2>2. CASE ~Cooling(kind[m])
    BY <1>8, <2>2 DEF ReadCooldown
  <2> QED BY <2>1, <2>2
<1>9. ASSUME NEW m \in Ids, SetCooldown(m) PROVE DroppedHasOriginal'
  BY <1>9 DEF SetCooldown, CooledKind
<1>10. ASSUME NEW m \in Ids, CooldownFails(m) PROVE DroppedHasOriginal'
  BY <1>10 DEF CooldownFails, Break
<1>11. ASSUME NEW m \in Ids, SaveAlert(m) PROVE DroppedHasOriginal'
  BY <1>11 DEF SaveAlert
<1>12. ASSUME NEW m \in Ids, HandlerFails(m) PROVE DroppedHasOriginal'
  BY <1>12 DEF HandlerFails, Break, Silences
<1>13. ASSUME NEW m \in Ids, Reserve(m) PROVE DroppedHasOriginal'
  BY <1>13 DEF Reserve, Reservable
<1>14. ASSUME NEW m \in Ids, InsertRows(m) PROVE DroppedHasOriginal'
  BY <1>14 DEF InsertRows
<1>15. ASSUME NEW m \in Ids, EnqueueFails(m) PROVE DroppedHasOriginal'
  BY <1>15 DEF EnqueueFails, Break
<1>16. ASSUME NEW k \in AlertKinds, CooldownExpires(k) PROVE DroppedHasOriginal'
  BY <1>16 DEF CooldownExpires
<1>17. CASE TheftKeyExpires
  BY <1>17 DEF TheftKeyExpires
<1>18. CASE LatchExpires
  BY <1>18 DEF LatchExpires
<1>19. CASE AlertRestart
  BY <1>19 DEF AlertRestart
<1>20. CASE UNCHANGED alertVars
  BY <1>20
<1> QED
  BY <1>1, <1>2, <1>3, <1>4, <1>5, <1>6, <1>7, <1>8, <1>9, <1>10,
     <1>11, <1>12, <1>13, <1>14, <1>15, <1>16, <1>17, <1>18, <1>19, <1>20
  DEF AlertNext, AlertStep, AlertTime

LEMMA TheftStep ==
  ASSUME AlertTypeOK, KindInv, TheftInv, [AlertNext]_alertVars
  PROVE  TheftInv'
<1> USE DEF alertVars, GoOn, AlertTypeOK, KindInv, TheftInv, Served, Running, Break
<1>1. ASSUME NEW m \in Ids, NEW k \in AlertKinds, PublishAlert(m, k, 0) PROVE TheftInv'
  BY <1>1 DEF PublishAlert
<1>2. ASSUME NEW m \in Ids, Deliver(m) PROVE TheftInv'
  BY <1>2 DEF Deliver
<1>3. ASSUME NEW m \in Ids, Resolve(m) PROVE TheftInv'
  BY <1>3 DEF Resolve
<1>4. ASSUME NEW m \in Ids, ReadLatch(m) PROVE TheftInv'
  BY <1>4 DEF ReadLatch, StateAfter
<1>5. ASSUME NEW m \in Ids, ReadLatchFails(m) PROVE TheftInv'
  BY <1>5 DEF ReadLatchFails, Break
<1>6. ASSUME NEW m \in Ids, WriteLatch(m) PROVE TheftInv'
  BY <1>6 DEF WriteLatch, FirstConnect, StateAfter
<1>7. ASSUME NEW m \in Ids, WriteLatchFails(m) PROVE TheftInv'
  BY <1>7 DEF WriteLatchFails, Break, FirstConnect, StateAfter
<1>8. ASSUME NEW m \in Ids, ReadCooldown(m) PROVE TheftInv'
  BY <1>8 DEF ReadCooldown, Cooling, Silences
<1>9. ASSUME NEW m \in Ids, SetCooldown(m) PROVE TheftInv'
  BY <1>9 DEF SetCooldown, CooledKind
<1>10. ASSUME NEW m \in Ids, CooldownFails(m) PROVE TheftInv'
  BY <1>10 DEF CooldownFails, Break
<1>11. ASSUME NEW m \in Ids, SaveAlert(m) PROVE TheftInv'
  BY <1>11 DEF SaveAlert
<1>12. ASSUME NEW m \in Ids, HandlerFails(m) PROVE TheftInv'
  BY <1>12 DEF HandlerFails, Break, Silences
<1>13. ASSUME NEW m \in Ids, Reserve(m) PROVE TheftInv'
  BY <1>13 DEF Reserve, Reservable
<1>14. ASSUME NEW m \in Ids, InsertRows(m) PROVE TheftInv'
  BY <1>14 DEF InsertRows
<1>15. ASSUME NEW m \in Ids, EnqueueFails(m) PROVE TheftInv'
  BY <1>15 DEF EnqueueFails, Break
<1>16. ASSUME NEW k \in AlertKinds, CooldownExpires(k) PROVE TheftInv'
  BY <1>16 DEF CooldownExpires
<1>17. CASE TheftKeyExpires
  BY <1>17 DEF TheftKeyExpires
<1>18. CASE LatchExpires
  BY <1>18 DEF LatchExpires
<1>19. CASE AlertRestart
  BY <1>19 DEF AlertRestart
<1>20. CASE UNCHANGED alertVars
  BY <1>20
<1> QED
  BY <1>1, <1>2, <1>3, <1>4, <1>5, <1>6, <1>7, <1>8, <1>9, <1>10,
     <1>11, <1>12, <1>13, <1>14, <1>15, <1>16, <1>17, <1>18, <1>19, <1>20
  DEF AlertNext, AlertStep, AlertTime

(***************************************************************************)
(* The theorems.                                                           *)
(***************************************************************************)
LEMMA AlertInitially == AlertInit => AlertInv
<1> SUFFICES ASSUME AlertInit PROVE AlertInv
  OBVIOUS
<1> USE DEF AlertInit
<1>1. AlertTypeOK
  <2>1. 0 \in 0 .. MaxAlertFaults
    BY AlertAssumption
  <2>2. <<>> \in Seq(Ids)
    OBVIOUS
  <2> QED BY <2>1, <2>2 DEF AlertTypeOK, AlertStages
<1>2. KindInv /\ OverlapInv /\ PassInv /\ TheftInv /\ DroppedHasOriginal
  BY DEF KindInv, OverlapInv, PassInv, TheftInv, DroppedHasOriginal, Running
<1> QED BY <1>1, <1>2 DEF AlertInv

LEMMA AlertInductive == AlertInv /\ [AlertNext]_alertVars => AlertInv'
BY AlertTypeStep, KindStep, OverlapStep, CooldownStep, DuplicateStep, TheftStep DEF AlertInv

\* The inductive invariant of the alert subscriber holds in every reachable
\* state: the types, the kind of each message, which handlers overlapped, which
\* message armed each cooldown and which theft armed the theft key
\* (alertSubscriber.js:154-260, notificationService.js:150-180).
THEOREM AlertInvariant == AlertSpec => []AlertInv
<1> QED BY AlertInductive, AlertInitially, PTL DEF AlertSpec

\* Every variable keeps its type, and a handler moves the latch only away from
\* the state it read.
THEOREM AlertsTypeCorrect == AlertSpec => []AlertTypeOK
<1>1. AlertInv => AlertTypeOK
  BY DEF AlertInv
<1> QED BY <1>1, AlertInvariant, PTL

\* Sets with more than one element have two.
LEMMA Several ==
  ASSUME NEW S, Cardinality(S) > 1, NEW a \in S
  PROVE  \E b \in S : b # a
<1> SUFFICES ASSUME \A b \in S : b = a PROVE FALSE
  OBVIOUS
<1>1. S = {a}
  OBVIOUS
<1>2. Cardinality({a}) = 1
  BY FS_Singleton
<1> QED BY <1>1, <1>2

\* What the invariant says of the cooldown and of the theft key.
LEMMA AlertInvGives ==
  ASSUME AlertInv
  PROVE  OncePerCooldown /\ DroppedHasOriginal /\ TheftOncePerKey
<1>1. ASSUME NEW k \in AlertKinds, Cardinality(passed[k]) > 1, NEW a \in passed[k]
      PROVE  a \in overlapped
  <2>1. PICK b \in passed[k] : b # a
    BY <1>1, Several
  <2> QED BY <2>1 DEF AlertInv, PassInv
<1>2. theftBy = {} \/ \E a \in theftBy : theftBy = {a}
  BY DEF AlertInv, TheftInv
<1>3. Cardinality(theftBy) <= 1
  BY <1>2, FS_EmptySet, FS_Singleton
<1>4. \A m \in Ids : stage[m] = "held" =>
        \E n \in Ids \ {m} : kind[n] = "fuel_theft" /\ (n \in queued \cup broken \/ stage[n] \in {"insert", "nobody"})
  BY DEF AlertInv, TheftInv, Served
<1> QED BY <1>1, <1>3, <1>4 DEF OncePerCooldown, TheftOncePerKey, AlertInv

\* The unlocked GET and SET of a cooldown let several messages of a type pass only
\* when all of them were being handled at the same time as another
\* (alertSubscriber.js:228-241).
THEOREM SeveralPassOnlyTogether == AlertSpec => []OncePerCooldown
<1>1. AlertInv => OncePerCooldown
  BY AlertInvGives
<1> QED BY <1>1, AlertInvariant, PTL

\* Whatever fails or restarts, a message dropped as a duplicate duplicates one of
\* its type that is kept or that failed (alertSubscriber.js:231-236).
THEOREM DuplicatesHaveOriginals == AlertSpec => []DroppedHasOriginal
<1>1. AlertInv => DroppedHasOriginal
  BY AlertInvGives
<1> QED BY <1>1, AlertInvariant, PTL

\* SET NX lets one theft through per key, and one held back follows one that was
\* served, had no recipient or failed (notificationService.js:161-169, 194-196).
THEOREM OneTheftPerKey == AlertSpec => []TheftOncePerKey
<1>1. AlertInv => TheftOncePerKey
  BY AlertInvGives
<1> QED BY <1>1, AlertInvariant, PTL

(***************************************************************************)
(* The battery latch and its rows.                                         *)
(***************************************************************************)
\* A handler that has moved the latch and has its row to write.
Moved == {"check", "arm", "save"}

\* What the rows of a battery at rest tell, and those before a row on its way.
RowsTell == /\ battery = "disconnected" => LastOf(Len(saved), "battery_off")
            /\ battery = "connected" => NoneOf(Len(saved)) \/ LastOf(Len(saved), "battery_on")

RowsBefore(n, k) ==
  /\ k = "battery_off" => NoneOf(n) \/ LastOf(n, "battery_on")
  /\ k = "battery_on" => LastOf(n, "battery_off")

LatchInv ==
  /\ \A i \in 1 .. Len(saved) : kind[saved[i]] \in AlertKinds
  /\ \A m \in Ids : stage[m] \in {"latch", "move"} => kind[m] \in BatteryKinds
  /\ BatteryCalm =>
       /\ \A m \in BatteryIds :
            /\ stage[m] = "move" => lastState[m] = battery
            /\ stage[m] \in Moved => battery = StateAfter(kind[m]) /\ RowsBefore(Len(saved), kind[m])
       /\ battery = "unknown" => NoneOf(Len(saved))
       /\ (\A m \in BatteryIds : stage[m] \notin Moved) => RowsTell
       /\ \A i \in 1 .. Len(saved) : RowsBefore(i - 1, kind[saved[i]])

\* The excuses are for good, and a message keeps its type.
LEMMA Excuses ==
  ASSUME AlertTypeOK, [AlertNext]_alertVars
  PROVE  /\ overlapped \subseteq overlapped' /\ broken \subseteq broken'
         /\ silent => silent'
         /\ lapsed => lapsed'
         /\ \A m \in Ids : kind[m] # "none" => kind'[m] = kind[m]
<1>1. ASSUME NEW m \in Ids, NEW k \in AlertKinds, PublishAlert(m, k, 0)
      PROVE  /\ UNCHANGED <<overlapped, broken, silent, lapsed>>
             /\ \A n \in Ids : kind[n] # "none" => kind'[n] = kind[n]
  BY <1>1 DEF PublishAlert, AlertTypeOK
<1>2. ASSUME NEW m \in Ids, AlertStep(m)
      PROVE  /\ overlapped \subseteq overlapped' /\ broken \subseteq broken' /\ kind' = kind
             /\ silent => silent'
             /\ lapsed' = lapsed
  <2>1. CASE ReadCooldown(m) \/ HandlerFails(m)
    BY <2>1, Zenon DEF ReadCooldown, HandlerFails, Break, Silences
  <2>2. CASE ~(ReadCooldown(m) \/ HandlerFails(m))
    BY <1>2, <2>2 DEF AlertStep, Deliver, Resolve, ReadLatch, ReadLatchFails, WriteLatch,
                      WriteLatchFails, SetCooldown, CooldownFails, SaveAlert, Reserve, InsertRows,
                      EnqueueFails, Break
  <2> QED BY <2>1, <2>2
<1>3. CASE AlertTime
  BY <1>3 DEF AlertTime, TheftKeyExpires, LatchExpires, CooldownExpires
<1>4. CASE AlertRestart
  BY <1>4 DEF AlertRestart
<1>5. CASE UNCHANGED alertVars
  BY <1>5 DEF alertVars
<1> QED BY <1>1, <1>2, <1>3, <1>4, <1>5 DEF AlertNext

LEMMA CalmBefore ==
  ASSUME AlertTypeOK, [AlertNext]_alertVars, BatteryCalm'
  PROVE  BatteryCalm /\ BatteryIds \subseteq BatteryIds'
<1>1. BatteryIds \subseteq BatteryIds'
  BY Excuses DEF BatteryIds, BatteryKinds
<1> QED BY <1>1, Excuses DEF BatteryCalm

\* Without an excuse a battery's handlers come one by one.
LEMMA OneRunner ==
  ASSUME OverlapInv, BatteryCalm, NEW m \in BatteryIds, NEW n \in BatteryIds,
         stage[m] \in Running, stage[n] \in Running
  PROVE  m = n
BY DEF OverlapInv, BatteryCalm, BatteryIds, Family

\* A step that moves neither the latch nor the rows, and takes no battery's
\* handler into or out of the steps between them.
LEMMA QuietStep ==
  ASSUME LatchInv, UNCHANGED <<kind, saved, battery>>, BatteryCalm' => BatteryCalm,
         \A m \in Ids : stage'[m] \in {"latch", "move"} => kind[m] \in BatteryKinds,
         BatteryCalm' => \A m \in BatteryIds : /\ stage'[m] = "move" => lastState'[m] = battery
                                               /\ stage'[m] \in Moved <=> stage[m] \in Moved
  PROVE  LatchInv'
<1>1. \A n, k : NoneOf(n)' = NoneOf(n) /\ LastOf(n, k)' = LastOf(n, k)
  BY DEF NoneOf, LastOf
<1>2. /\ \A n, k : RowsBefore(n, k)' <=> RowsBefore(n, k)
      /\ RowsTell' <=> RowsTell
      /\ NoneOf(Len(saved))' <=> NoneOf(Len(saved))
  BY <1>1 DEF RowsBefore, RowsTell
<1>3. BatteryIds' = BatteryIds
  BY DEF BatteryIds
<1>4. ASSUME BatteryCalm'
      PROVE  /\ \A m \in BatteryIds :
                  /\ stage'[m] = "move" => lastState'[m] = battery
                  /\ stage'[m] \in Moved => battery = StateAfter(kind[m]) /\ RowsBefore(Len(saved), kind[m])
             /\ battery = "unknown" => NoneOf(Len(saved))
             /\ (\A m \in BatteryIds : stage'[m] \notin Moved) => RowsTell
             /\ \A i \in 1 .. Len(saved) : RowsBefore(i - 1, kind[saved[i]])
  BY <1>4 DEF LatchInv
<1>5. \A m \in Ids : StateAfter(kind[m])' = StateAfter(kind[m])
  BY DEF StateAfter
<1> QED BY <1>2, <1>3, <1>4, <1>5 DEF LatchInv

\* Rows before a place do not change when one is added behind it, and a row that is
\* not the battery's tells nothing of it.
LEMMA RowAdded ==
  ASSUME NEW m \in Ids, saved \in Seq(Ids), saved' = Append(saved, m), kind' = kind,
         NEW N, N = Len(saved)
  PROVE  /\ Len(saved') = N + 1 /\ N \in Nat /\ saved'[N + 1] = m
         /\ \A i \in 1 .. N : saved'[i] = saved[i]
         /\ \A n \in 0 .. N : NoneOf(n)' <=> NoneOf(n)
         /\ \A n \in 0 .. N : \A k : LastOf(n, k)' <=> LastOf(n, k)
         /\ \A n \in 0 .. N : \A k : RowsBefore(n, k)' <=> RowsBefore(n, k)
         /\ kind[m] \notin BatteryKinds => /\ NoneOf(N) => NoneOf(N + 1)'
                                           /\ \A k : LastOf(N, k) => LastOf(N + 1, k)'
         /\ LastOf(N + 1, kind[m])'
<1>1. /\ Len(saved') = N + 1 /\ N \in Nat /\ saved'[N + 1] = m
      /\ \A i \in 1 .. N : saved'[i] = saved[i]
  OBVIOUS
<1>2. ASSUME NEW n \in 0 .. N, NEW k
      PROVE  (NoneOf(n)' <=> NoneOf(n)) /\ (LastOf(n, k)' <=> LastOf(n, k))
  <2>1. \A i \in 1 .. n : saved'[i] = saved[i]
    BY <1>1
  <2>2. NoneOf(n)' <=> NoneOf(n)
    BY <2>1 DEF NoneOf
  <2>3. \A i \in 1 .. n : \A j \in i + 1 .. n : j \in 1 .. n
    BY <1>1
  <2>4. LastOf(n, k)' <=> LastOf(n, k)
    BY <2>1, <2>3 DEF LastOf
  <2> QED BY <2>2, <2>4
<1>3. ASSUME kind[m] \notin BatteryKinds
      PROVE  /\ NoneOf(N) => NoneOf(N + 1)'
             /\ \A k : LastOf(N, k) => LastOf(N + 1, k)'
  <2>1. \A j \in 1 .. N + 1 : j = N + 1 \/ j \in 1 .. N
    BY <1>1
  <2>2. NoneOf(N) => NoneOf(N + 1)'
    BY <1>1, <1>3, <2>1 DEF NoneOf
  <2>3. ASSUME NEW k, LastOf(N, k) PROVE LastOf(N + 1, k)'
    <3>1. PICK i \in 1 .. N : kind[saved[i]] = k /\ \A j \in i + 1 .. N : kind[saved[j]] \notin BatteryKinds
      BY <2>3 DEF LastOf
    <3>2. i \in 1 .. N + 1 /\ kind'[saved'[i]] = k
      BY <1>1, <3>1
    <3>3. ASSUME NEW j \in i + 1 .. N + 1 PROVE kind'[saved'[j]] \notin BatteryKinds
      <4>1. j = N + 1 \/ (j \in i + 1 .. N /\ j \in 1 .. N)
        BY <1>1
      <4> QED BY <1>1, <1>3, <3>1, <4>1
    <3> QED BY <3>2, <3>3 DEF LastOf
  <2> QED BY <2>2, <2>3
<1>4. LastOf(N + 1, kind[m])'
  <2>1. N + 1 \in 1 .. N + 1 /\ \A j \in N + 1 + 1 .. N + 1 : FALSE
    BY <1>1
  <2> QED BY <1>1, <2>1 DEF LastOf
<1>5. \A n \in 0 .. N : \A k : RowsBefore(n, k)' <=> RowsBefore(n, k)
  BY <1>2 DEF RowsBefore
<1> QED BY <1>1, <1>2, <1>3, <1>4, <1>5

\* What a step must not do to be quiet.
Quiet ==
  /\ UNCHANGED <<kind, saved, battery>>
  /\ \A m \in Ids : stage'[m] \in {"latch", "move"} => kind[m] \in BatteryKinds
  /\ BatteryCalm' => \A m \in BatteryIds : /\ stage'[m] = "move" => lastState'[m] = battery
                                           /\ stage'[m] \in Moved <=> stage[m] \in Moved

LEMMA QuietSteps ==
  ASSUME AlertTypeOK, KindInv, LatchInv, NEW m \in Ids, AlertStep(m), ~WriteLatch(m), ~SaveAlert(m)
  PROVE  Quiet
<1>1. \A n \in Ids : stage[n] \in {"latch", "move"} => kind[n] \in BatteryKinds
  BY DEF LatchInv
<1>2. [AlertNext]_alertVars
  BY DEF AlertNext
<1>3. ASSUME BatteryCalm'
      PROVE  /\ \A n \in BatteryIds : stage[n] = "move" => lastState[n] = battery
             /\ kind' = kind => m \notin BatteryIds \/ (m \notin broken' /\ ~silent')
  <2>1. BatteryCalm
    BY <1>2, <1>3, CalmBefore
  <2> QED BY <1>3, <2>1 DEF LatchInv, BatteryCalm, BatteryIds
<1> USE DEF GoOn, AlertTypeOK, Moved
<1>4. CASE Deliver(m)
  BY <1>1, <1>3, <1>4 DEF Quiet, Deliver, BatteryIds
<1>5. CASE Resolve(m)
  BY <1>1, <1>3, <1>5 DEF Quiet, Resolve, BatteryIds
<1>6. CASE ReadLatch(m)
  BY <1>1, <1>3, <1>6 DEF Quiet, ReadLatch, StateAfter, BatteryIds
<1>7. CASE ReadLatchFails(m)
  BY <1>1, <1>3, <1>7 DEF Quiet, ReadLatchFails, Break, BatteryIds
<1>8. CASE WriteLatchFails(m)
  BY <1>1, <1>3, <1>8 DEF Quiet, WriteLatchFails, Break, FirstConnect, BatteryIds
<1>9. CASE ReadCooldown(m)
  BY <1>1, <1>3, <1>9 DEF Quiet, ReadCooldown, Cooling, Silences, BatteryIds
<1>10. CASE SetCooldown(m)
  BY <1>1, <1>3, <1>10 DEF Quiet, SetCooldown, CooledKind, BatteryIds
<1>11. CASE CooldownFails(m)
  BY <1>1, <1>3, <1>11 DEF Quiet, CooldownFails, Break, BatteryIds
<1>12. CASE HandlerFails(m)
  BY <1>1, <1>3, <1>12 DEF Quiet, HandlerFails, Break, BatteryIds
<1>13. CASE Reserve(m)
  BY <1>1, <1>3, <1>13 DEF Quiet, Reserve, BatteryIds
<1>14. CASE InsertRows(m)
  BY <1>1, <1>3, <1>14 DEF Quiet, InsertRows, BatteryIds
<1>15. CASE EnqueueFails(m)
  BY <1>1, <1>3, <1>15 DEF Quiet, EnqueueFails, Break, BatteryIds
<1> QED BY <1>4, <1>5, <1>6, <1>7, <1>8, <1>9, <1>10, <1>11, <1>12, <1>13, <1>14, <1>15 DEF AlertStep

LEMMA LatchWritten ==
  ASSUME AlertInv, LatchInv, NEW m \in Ids, WriteLatch(m)
  PROVE  LatchInv'
<1> USE DEF AlertInv, AlertTypeOK
<1>1. [AlertNext]_alertVars
  BY DEF AlertNext, AlertStep
<1>2. /\ stage[m] = "move" /\ kind[m] \in BatteryKinds /\ m \in BatteryIds
      /\ battery' = StateAfter(kind[m])
      /\ stage' = [stage EXCEPT ![m] = IF FirstConnect(m) THEN "filtered" ELSE "check"]
      /\ UNCHANGED <<kind, saved, lastState>>
  BY DEF WriteLatch, GoOn, LatchInv, BatteryIds
<1>3. /\ \A n, k : NoneOf(n)' = NoneOf(n) /\ LastOf(n, k)' = LastOf(n, k)
      /\ \A n, k : RowsBefore(n, k)' <=> RowsBefore(n, k)
      /\ BatteryIds' = BatteryIds
  BY <1>2 DEF NoneOf, LastOf, RowsBefore, BatteryIds
<1>4. ASSUME BatteryCalm'
      PROVE  /\ \A n \in BatteryIds :
                  /\ stage'[n] = "move" => lastState'[n] = battery'
                  /\ stage'[n] \in Moved => battery' = StateAfter(kind[n]) /\ RowsBefore(Len(saved), kind[n])
             /\ battery' = "unknown" => NoneOf(Len(saved))
             /\ (\A n \in BatteryIds : stage'[n] \notin Moved) => RowsTell'
             /\ \A i \in 1 .. Len(saved) : RowsBefore(i - 1, kind[saved[i]])
  <2>1. BatteryCalm
    BY <1>1, <1>4, CalmBefore
  <2>2. \A n \in BatteryIds : n # m => stage[n] \notin Running
    BY <1>2, <2>1, OneRunner DEF Running
  <2>3. lastState[m] = battery /\ battery # StateAfter(kind[m])
    BY <1>2, <2>1 DEF LatchInv
  <2>4. RowsTell /\ (battery = "unknown" => NoneOf(Len(saved)))
    BY <1>2, <2>1, <2>2 DEF LatchInv, Moved, Running
  <2>5. RowsBefore(Len(saved), kind[m]) \/ FirstConnect(m)
    BY <1>2, <2>3, <2>4 DEF RowsTell, RowsBefore, StateAfter, FirstConnect, BatteryKinds
  <2>6. \A n \in BatteryIds : n # m => stage'[n] = stage[n] /\ stage[n] \notin Moved /\ stage[n] # "move"
    BY <1>2, <2>2 DEF Moved, Running, BatteryIds
  <2>7. battery' # "unknown"
    BY <1>2 DEF StateAfter
  <2>8. CASE FirstConnect(m)
    <3>1. stage'[m] = "filtered" /\ NoneOf(Len(saved)) /\ battery' = "connected"
      BY <1>2, <2>3, <2>4, <2>8 DEF FirstConnect, StateAfter
    <3>2. NoneOf(Len(saved))'
      BY <1>2, <3>1 DEF NoneOf
    <3>3. RowsTell'
      BY <3>1, <3>2 DEF RowsTell
    <3> QED BY <2>1, <2>6, <2>7, <3>1, <3>3 DEF LatchInv, Moved
  <2>9. CASE ~FirstConnect(m)
    <3>1. stage'[m] = "check" /\ RowsBefore(Len(saved), kind[m])
      BY <1>2, <2>5, <2>9
    <3> QED BY <1>2, <2>1, <2>6, <2>7, <3>1 DEF LatchInv, Moved
  <2> QED BY <2>8, <2>9
<1>5. \A n \in Ids : stage'[n] \in {"latch", "move"} => kind'[n] \in BatteryKinds
  BY <1>2 DEF LatchInv
<1>6. \A n \in Ids : StateAfter(kind[n])' = StateAfter(kind[n])
  BY <1>2 DEF StateAfter
<1> QED BY <1>2, <1>3, <1>4, <1>5, <1>6 DEF LatchInv

LEMMA RowWritten ==
  ASSUME AlertInv, LatchInv, NEW m \in Ids, SaveAlert(m)
  PROVE  LatchInv'
<1> USE DEF AlertInv, AlertTypeOK
<1>1. [AlertNext]_alertVars
  BY DEF AlertNext, AlertStep
<1>2. /\ stage[m] = "save" /\ stage'[m] \in {"reserve", "insert", "done"}
      /\ \A n \in Ids : n # m => stage'[n] = stage[n]
      /\ saved \in Seq(Ids) /\ saved' = Append(saved, m)
      /\ UNCHANGED <<kind, battery, lastState>>
  BY DEF SaveAlert, GoOn
<1>3. kind[m] \in AlertKinds
  BY <1>2 DEF KindInv
<1>4. PICK N : N = Len(saved)
  OBVIOUS
<1>5. /\ Len(saved') = N + 1 /\ N \in Nat /\ saved'[N + 1] = m
      /\ \A i \in 1 .. N : saved'[i] = saved[i]
      /\ \A n \in 0 .. N : NoneOf(n)' <=> NoneOf(n)
      /\ \A n \in 0 .. N : \A k : LastOf(n, k)' <=> LastOf(n, k)
      /\ \A n \in 0 .. N : \A k : RowsBefore(n, k)' <=> RowsBefore(n, k)
      /\ kind[m] \notin BatteryKinds => /\ NoneOf(N) => NoneOf(N + 1)'
                                        /\ \A k : LastOf(N, k) => LastOf(N + 1, k)'
      /\ LastOf(N + 1, kind[m])'
  BY <1>2, <1>4, RowAdded
<1>6. \A i \in 1 .. N + 1 : i = N + 1 \/ i \in 1 .. N
  BY <1>5
<1>7. /\ \A i \in 1 .. Len(saved)' : kind'[saved'[i]] \in AlertKinds
      /\ \A n \in Ids : stage'[n] \in {"latch", "move"} => kind'[n] \in BatteryKinds
  BY <1>2, <1>3, <1>4, <1>5, <1>6 DEF LatchInv
<1>8. RowsTell' <=> (/\ battery = "disconnected" => LastOf(N + 1, "battery_off")'
                     /\ battery = "connected" => NoneOf(N + 1)' \/ LastOf(N + 1, "battery_on")')
  <2>1. Len(saved)' = N + 1
    BY <1>5
  <2> QED BY <1>2, <2>1 DEF RowsTell, NoneOf, LastOf
<1>9. ASSUME BatteryCalm'
      PROVE  /\ \A n \in BatteryIds' :
                  /\ stage'[n] = "move" => lastState'[n] = battery'
                  /\ stage'[n] \in Moved => battery' = StateAfter(kind[n]) /\ RowsBefore(N + 1, kind[n])'
             /\ battery' = "unknown" => NoneOf(N + 1)'
             /\ (\A n \in BatteryIds' : stage'[n] \notin Moved) => RowsTell'
             /\ \A i \in 1 .. N + 1 : RowsBefore(i - 1, kind[saved[i]])'
  <2>1. BatteryCalm /\ BatteryIds' = BatteryIds
    BY <1>1, <1>2, <1>9, CalmBefore DEF BatteryIds
  <2>2. RowsBefore(N, kind[m])
    BY <1>2, <1>3, <1>4, <2>1 DEF LatchInv, Moved, BatteryIds, RowsBefore, BatteryKinds
  <2>3. \A i \in 1 .. N + 1 : RowsBefore(i - 1, kind[saved[i]])'
    <3>1. ASSUME NEW i \in 1 .. N PROVE RowsBefore(i - 1, kind[saved[i]])'
      <4>1. RowsBefore(i - 1, kind[saved[i]]) /\ i - 1 \in 0 .. N /\ saved'[i] = saved[i]
        BY <1>4, <1>5, <2>1 DEF LatchInv
      <4> QED BY <1>2, <1>5, <4>1 DEF RowsBefore
    <3>2. RowsBefore(N, kind[m])' /\ N + 1 - 1 = N /\ kind'[saved'[N + 1]] = kind[m]
      <4>1. N \in 0 .. N
        BY <1>5
      <4> QED BY <1>2, <1>5, <2>2, <4>1 DEF RowsBefore
    <3> QED BY <1>2, <1>5, <1>6, <3>1, <3>2 DEF RowsBefore
  <2>4. CASE kind[m] \in BatteryKinds
    <3>1. /\ \A n \in BatteryIds : n # m => stage[n] \notin Running
          /\ battery = StateAfter(kind[m])
      BY <1>2, <2>1, <2>4, OneRunner DEF Running, BatteryIds, LatchInv, Moved
    <3>2. \A n \in BatteryIds : stage'[n] \notin Moved \cup {"move"}
      BY <1>2, <3>1 DEF Moved, Running, BatteryIds
    <3>3. battery' # "unknown"
      BY <1>2, <3>1 DEF StateAfter
    <3>4. RowsTell'
      <4>1. /\ battery' = "disconnected" => kind[m] = "battery_off"
            /\ battery' = "connected" => kind[m] = "battery_on"
        BY <1>2, <2>4, <3>1 DEF StateAfter, BatteryKinds
      <4> QED BY <1>2, <1>5, <1>8, <4>1
    <3> QED BY <2>1, <2>3, <3>2, <3>3, <3>4
  <2>5. CASE kind[m] \notin BatteryKinds
    <3>1. \A n \in BatteryIds : stage'[n] = stage[n]
      BY <1>2, <2>5 DEF BatteryIds
    <3>2. /\ NoneOf(N) => NoneOf(N + 1)'
          /\ \A k : LastOf(N, k) => LastOf(N + 1, k)'
      BY <1>5, <2>5
    <3>3. \A k : RowsBefore(N, k) => RowsBefore(N + 1, k)'
      BY <3>2 DEF RowsBefore
    <3>4. RowsTell => RowsTell'
      BY <1>2, <1>4, <1>8, <3>2 DEF RowsTell
    <3>5. /\ \A n \in BatteryIds :
               /\ stage[n] = "move" => lastState[n] = battery
               /\ stage[n] \in Moved => battery = StateAfter(kind[n]) /\ RowsBefore(N, kind[n])
          /\ battery = "unknown" => NoneOf(N)
          /\ (\A n \in BatteryIds : stage[n] \notin Moved) => RowsTell
      BY <1>4, <2>1 DEF LatchInv
    <3> QED BY <1>2, <2>1, <2>3, <3>1, <3>2, <3>3, <3>4, <3>5 DEF RowsBefore
  <2> QED BY <2>4, <2>5
<1>10. \A n \in Ids : StateAfter(kind[n])' = StateAfter(kind[n])
  BY <1>2 DEF StateAfter
<1> QED BY <1>2, <1>5, <1>7, <1>9, <1>10 DEF LatchInv, RowsBefore, NoneOf, BatteryIds

LEMMA LatchStep ==
  ASSUME AlertInv, LatchInv, [AlertNext]_alertVars
  PROVE  LatchInv'
<1>1. AlertTypeOK /\ KindInv /\ (BatteryCalm' => BatteryCalm)
  BY CalmBefore DEF AlertInv
<1>2. ASSUME NEW m \in Ids, NEW k \in AlertKinds, PublishAlert(m, k, 0) PROVE LatchInv'
  <2>1. /\ kind[m] = "none" /\ stage'[m] = "channel"
        /\ \A n \in Ids \ {m} : stage'[n] = stage[n] /\ kind'[n] = kind[n]
        /\ UNCHANGED <<saved, battery, lastState>>
    BY <1>1, <1>2 DEF PublishAlert, GoOn, AlertTypeOK
  <2>2. \A i \in 1 .. Len(saved) : saved[i] \in Ids /\ saved[i] # m
    BY <1>1, <2>1 DEF LatchInv, AlertTypeOK, AlertKinds, BatteryKinds
  <2>3. \A i \in 1 .. Len(saved) : kind'[saved'[i]] = kind[saved[i]]
    BY <2>1, <2>2
  <2>4. Len(saved) \in Nat
    BY <1>1 DEF AlertTypeOK
  <2>5. ASSUME NEW n \in 0 .. Len(saved), NEW x
        PROVE  (NoneOf(n)' <=> NoneOf(n)) /\ (LastOf(n, x)' <=> LastOf(n, x))
    <3>1. /\ \A i \in 1 .. n : i \in 1 .. Len(saved)
          /\ \A i \in 1 .. n : \A j \in i + 1 .. n : j \in 1 .. Len(saved)
      BY <2>4
    <3>2. NoneOf(n)' <=> NoneOf(n)
      BY <2>3, <3>1 DEF NoneOf
    <3>3. LastOf(n, x)' <=> LastOf(n, x)
      BY <2>3, <3>1 DEF LastOf
    <3> QED BY <3>2, <3>3
  <2>6. \A i \in 1 .. Len(saved) : i - 1 \in 0 .. Len(saved)
    BY <2>4
  <2>7. \A n \in BatteryIds' : stage'[n] \in Moved \cup {"move"} => n \in BatteryIds /\ n # m
    BY <2>1 DEF BatteryIds, Moved
  <2>8. \A n \in BatteryIds : n \in BatteryIds' /\ n # m
    BY <2>1 DEF BatteryIds, BatteryKinds
  <2>9. RowsTell => RowsTell'
    BY <2>1, <2>3 DEF RowsTell, NoneOf, LastOf
  <2>10. NoneOf(Len(saved)) => NoneOf(Len(saved))'
    BY <2>1, <2>3 DEF NoneOf
  <2>11. \A n \in Ids \ {m} : RowsBefore(Len(saved), kind[n]) => RowsBefore(Len(saved), kind[n])'
    BY <2>1, <2>3 DEF RowsBefore, NoneOf, LastOf
  <2>12. \A i \in 1 .. Len(saved) : RowsBefore(i - 1, kind[saved[i]]) => RowsBefore(i - 1, kind[saved[i]])'
    <3>1. ASSUME NEW i \in 1 .. Len(saved), RowsBefore(i - 1, kind[saved[i]])
          PROVE  RowsBefore(i - 1, kind[saved[i]])'
      <4>1. RowsBefore(i - 1, kind[saved[i]])'
            <=> (/\ kind'[saved'[i]] = "battery_off" => NoneOf(i - 1)' \/ LastOf(i - 1, "battery_on")'
                 /\ kind'[saved'[i]] = "battery_on" => LastOf(i - 1, "battery_off")')
        BY DEF RowsBefore
      <4> QED BY <2>3, <2>5, <2>6, <3>1, <4>1 DEF RowsBefore
    <3> QED BY <3>1
  <2>13. \A n \in Ids \ {m} : StateAfter(kind[n])' = StateAfter(kind[n])
    BY <2>1 DEF StateAfter
  <2>14. ASSUME BatteryCalm'
         PROVE  /\ \A n \in BatteryIds' :
                     /\ stage'[n] = "move" => lastState'[n] = battery'
                     /\ stage'[n] \in Moved => /\ battery' = StateAfter(kind[n])'
                                               /\ RowsBefore(Len(saved), kind[n])'
                /\ battery' = "unknown" => NoneOf(Len(saved))'
                /\ (\A n \in BatteryIds' : stage'[n] \notin Moved) => RowsTell'
                /\ \A i \in 1 .. Len(saved) : RowsBefore(i - 1, kind[saved[i]])'
    <3>1. /\ \A n \in BatteryIds :
               /\ stage[n] = "move" => lastState[n] = battery
               /\ stage[n] \in Moved => battery = StateAfter(kind[n]) /\ RowsBefore(Len(saved), kind[n])
          /\ battery = "unknown" => NoneOf(Len(saved))
          /\ (\A n \in BatteryIds : stage[n] \notin Moved) => RowsTell
          /\ \A i \in 1 .. Len(saved) : RowsBefore(i - 1, kind[saved[i]])
      BY <1>1, <2>14 DEF LatchInv
    <3>2. \A n \in BatteryIds : n \in Ids
      BY DEF BatteryIds
    <3>3. (\A n \in BatteryIds' : stage'[n] \notin Moved) => (\A n \in BatteryIds : stage[n] \notin Moved)
      BY <2>1, <2>8, <3>2
    <3>4. \A n \in BatteryIds' :
            /\ stage'[n] = "move" => lastState'[n] = battery'
            /\ stage'[n] \in Moved => /\ battery' = StateAfter(kind[n])'
                                      /\ RowsBefore(Len(saved), kind[n])'
      BY <2>1, <2>7, <2>11, <2>13, <3>1, <3>2
    <3> QED BY <2>1, <2>9, <2>10, <2>12, <3>1, <3>3, <3>4
  <2>15. /\ \A i \in 1 .. Len(saved)' : kind'[saved'[i]] \in AlertKinds
         /\ \A n \in Ids : stage'[n] \in {"latch", "move"} => kind'[n] \in BatteryKinds
    BY <2>1, <2>3 DEF LatchInv
  <2> QED BY <2>1, <2>14, <2>15 DEF LatchInv
<1>3. ASSUME NEW m \in Ids, AlertStep(m) PROVE LatchInv'
  <2>1. CASE WriteLatch(m)
    BY <2>1, LatchWritten
  <2>2. CASE SaveAlert(m)
    BY <2>2, RowWritten
  <2>3. CASE ~WriteLatch(m) /\ ~SaveAlert(m)
    <3>1. Quiet
      BY <1>1, <1>3, <2>3, QuietSteps
    <3> QED BY <1>1, <3>1, QuietStep DEF Quiet
  <2> QED BY <2>1, <2>2, <2>3
<1>4. CASE AlertTime
  <2>1. CASE LatchExpires
    <3>1. UNCHANGED <<kind, stage, saved>> /\ ~BatteryCalm'
      BY <2>1 DEF LatchExpires, BatteryCalm
    <3> QED BY <3>1 DEF LatchInv
  <2>2. CASE ~LatchExpires
    <3>1. UNCHANGED <<kind, stage, saved, battery, lastState>>
      BY <1>4, <2>2 DEF AlertTime, TheftKeyExpires, CooldownExpires
    <3>2. \A m \in Ids : stage[m] \in {"latch", "move"} => kind[m] \in BatteryKinds
      BY DEF LatchInv
    <3>3. BatteryCalm => \A m \in BatteryIds : stage[m] = "move" => lastState[m] = battery
      BY DEF LatchInv
    <3> QED BY <1>1, <3>1, <3>2, <3>3, QuietStep
  <2> QED BY <2>1, <2>2
<1>5. CASE AlertRestart
  <2>1. /\ UNCHANGED <<kind, saved, battery, lastState>>
        /\ \A m \in Ids : stage'[m] = IF stage[m] \in Running \cup {"channel"} THEN "lost" ELSE stage[m]
        /\ \A m \in Ids : stage[m] \in Running \cup {"channel"} => m \in broken'
    BY <1>5 DEF AlertRestart
  <2>2. \A m \in Ids : stage'[m] \notin {"latch", "move"}
    BY <2>1 DEF Running
  <2>3. BatteryIds' = BatteryIds /\ BatteryIds \subseteq Ids
    BY <2>1 DEF BatteryIds
  <2>4. BatteryCalm' => \A m \in BatteryIds : stage'[m] \in Moved <=> stage[m] \in Moved
    BY <2>1, <2>3 DEF BatteryCalm, Moved, Running
  <2> QED BY <1>1, <2>1, <2>2, <2>3, <2>4, QuietStep
<1>6. CASE UNCHANGED alertVars
  <2>1. UNCHANGED <<kind, stage, saved, battery, lastState>>
    BY <1>6 DEF alertVars
  <2>2. \A m \in Ids : stage[m] \in {"latch", "move"} => kind[m] \in BatteryKinds
    BY DEF LatchInv
  <2>3. BatteryCalm => \A m \in BatteryIds : stage[m] = "move" => lastState[m] = battery
    BY DEF LatchInv
  <2> QED BY <1>1, <2>1, <2>2, <2>3, QuietStep
<1> QED BY <1>2, <1>3, <1>4, <1>5, <1>6 DEF AlertNext

LEMMA LatchInitially == AlertInit => LatchInv
<1> SUFFICES ASSUME AlertInit PROVE LatchInv
  OBVIOUS
<1>1. /\ Len(saved) = 0 /\ battery = "unknown" /\ \A i : i \notin 1 .. Len(saved)
      /\ \A m \in Ids : stage[m] = "absent"
  BY DEF AlertInit
<1> QED BY <1>1 DEF LatchInv, NoneOf, RowsTell, Moved, BatteryIds

LEMMA LatchHolds == AlertSpec => [](AlertInv /\ LatchInv)
BY AlertInitially, AlertInductive, LatchInitially, LatchStep, PTL DEF AlertSpec

\* At rest the last row about the main battery tells the state the latch holds,
\* for any number of messages, unless handlers overlapped, a call failed, the
\* latch expired or the cooldown swallowed a row (alertSubscriber.js:156-205).
THEOREM LatchIsTold == AlertSpec => []LatchTold
<1>1. LatchInv => LatchTold
  <2> SUFFICES ASSUME LatchInv, BatteryCalm, \A m \in BatteryIds : stage[m] \notin Running
               PROVE  RowsTell
    BY DEF LatchTold, RowsTell
  <2>1. \A m \in BatteryIds : stage[m] \notin Moved
    BY DEF Moved, Running
  <2> QED BY <2>1 DEF LatchInv
<1> QED BY <1>1, LatchHolds, PTL

\* Rows about the main battery alternate and start with a cut, with the same
\* excuses (alertSubscriber.js:156-159).
THEOREM BatteryRowsAlternate == AlertSpec => []BatteryAlternates
<1>1. LatchInv => BatteryAlternates
  BY DEF LatchInv, BatteryAlternates, RowsBefore
<1> QED BY <1>1, LatchHolds, PTL
=============================================================================
