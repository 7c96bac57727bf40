------------------------ MODULE RefillSessionProofs ------------------------
(***************************************************************************)
(* The refill sessions of RefillSession, for any number of handlers and    *)
(* packets, any readings and any thresholds: types, one announcement per   *)
(* session, its direction, and the set that must cover the session.        *)
(***************************************************************************)
EXTENDS RefillSession, TLAPS

(***************************************************************************)
(* The inductive invariant.                                                *)
(***************************************************************************)
Stages   == {"idle", "begun", "looked", "stored", "discarded", "settled"}
Sessions == [id : Nat, start : Nat, peak : Nat, since : Nat, before : Nat]
Packets  == [time : 0 .. MaxTime, fuel : Nat, prev : Levels \cup {0},
             prevTime : 0 .. MaxTime, motion : Motions]
Tales    == [id : Nat, start : Nat, level : Nat, before : Nat, at : Nat]

\* The shape of the data, and a handler waits for one answer at a time.
Within(q, h) == \E i \in 1 .. Len(q) : q[i] = h
Distinct(q)  == \A i, j \in 1 .. Len(q) : q[i] = q[j] => i = j

ShapeInv ==
  /\ packet \in [Handlers -> Packets]
  /\ seen \in [Handlers -> Sessions] /\ session \in Sessions
  /\ cached \in [fuel : Nat, time : Int]
  /\ replies \in Seq(Handlers) /\ Distinct(replies)
  /\ announced \in Seq(Tales)

\* The reading of a packet at work is one of the sensor's.
BegunInv == \A h \in Handlers : step[h] = "begun" => packet[h].fuel \in Levels

\* Who has a session in hand, once its number is not among the shared.
InHand(h, x) == Waiting(h) /\ seen[h].id = x
Told(x)      == \E i \in 1 .. Len(announced) : announced[i].id = x

TokenInv ==
  /\ \A h \in Handlers : step[h] = "settled" => seen[h] # NoSession
  /\ \A i \in 1 .. Len(announced) : announced[i].id \in 1 .. opened
  /\ \A x \in 1 .. opened : x \notin shared =>
       /\ \A g, h \in Handlers : InHand(g, x) /\ InHand(h, x) => g = h
       /\ Told(x) => session.id # x /\ \A h \in Handlers : ~InHand(h, x)
       /\ \A h \in Handlers : InHand(h, x) /\ step[h] \in {"discarded", "settled"} => session.id # x

\* A session starts before its last rise, and is settled after it.
Forward(s) == s.before > s.since => s.id \in backward

DirectionInv ==
  /\ Forward(session) /\ \A h \in Handlers : Forward(seen[h])
  /\ \A h \in Handlers : step[h] = "settled" => packet[h].time >= seen[h].since

\* What is deleted while a store is on its way comes before the store.
Erases(i) == step[replies[i]] \in {"discarded", "settled"}
Stores(i) == step[replies[i]] = "stored"

CoverInv ==
  session # NoSession /\ ~forgotten =>
    /\ \A i \in 1 .. Len(replies) : Erases(i) => \E k \in 1 .. Len(replies) : k > i /\ Stores(k)
    /\ hot \/ \E k \in 1 .. Len(replies) : Stores(k)

RefillInv ==
  /\ RefillTypeOK /\ ShapeInv /\ BegunInv
  /\ TokenInv /\ AnnouncedOnce
  /\ DirectionInv /\ RefillGoesForward
  /\ CoverInv

(***************************************************************************)
(* The queue of answers.                                                   *)
(***************************************************************************)
LEMMA TailKeeps ==
  ASSUME NEW S, NEW q \in Seq(S), q # <<>>, Distinct(q)
  PROVE  /\ Tail(q) \in Seq(S) /\ Len(Tail(q)) = Len(q) - 1 /\ Len(q) \in Nat \ {0}
         /\ \A i \in 1 .. Len(Tail(q)) : i + 1 \in 1 .. Len(q) /\ Tail(q)[i] = q[i + 1]
         /\ Head(q) = q[1] /\ 1 \in 1 .. Len(q)
         /\ Distinct(Tail(q))
         /\ \A h \in S : Within(Tail(q), h) <=> Within(q, h) /\ h # Head(q)
<1>1. /\ Tail(q) \in Seq(S) /\ Len(Tail(q)) = Len(q) - 1 /\ Len(q) \in Nat \ {0}
      /\ \A i \in 1 .. Len(Tail(q)) : i + 1 \in 1 .. Len(q) /\ Tail(q)[i] = q[i + 1]
      /\ Head(q) = q[1] /\ 1 \in 1 .. Len(q)
  OBVIOUS
<1>2. \A j \in 1 .. Len(q) : j = 1 \/ (j - 1 \in 1 .. Len(Tail(q)) /\ Tail(q)[j - 1] = q[j])
  BY <1>1
<1>3. Distinct(Tail(q))
  BY <1>1 DEF Distinct
<1>4. ASSUME NEW h \in S PROVE Within(Tail(q), h) <=> Within(q, h) /\ h # Head(q)
  BY <1>1, <1>2 DEF Within, Distinct
<1> QED BY <1>1, <1>3, <1>4

LEMMA AppendKeeps ==
  ASSUME NEW S, NEW q \in Seq(S), NEW e \in S, Distinct(q), ~Within(q, e)
  PROVE  /\ Append(q, e) \in Seq(S) /\ Len(Append(q, e)) = Len(q) + 1 /\ Len(q) \in Nat
         /\ \A i \in 1 .. Len(q) : Append(q, e)[i] = q[i]
         /\ Append(q, e)[Len(q) + 1] = e
         /\ Distinct(Append(q, e))
         /\ \A h \in S : Within(Append(q, e), h) <=> Within(q, h) \/ h = e
<1>1. /\ Append(q, e) \in Seq(S) /\ Len(Append(q, e)) = Len(q) + 1 /\ Len(q) \in Nat
      /\ \A i \in 1 .. Len(q) : Append(q, e)[i] = q[i]
      /\ Append(q, e)[Len(q) + 1] = e
  OBVIOUS
<1>2. \A i \in 1 .. Len(Append(q, e)) : i \in 1 .. Len(q) \/ i = Len(q) + 1
  BY <1>1
<1>3. Distinct(Append(q, e))
  BY <1>1, <1>2 DEF Distinct, Within
<1>4. ASSUME NEW h \in S PROVE Within(Append(q, e), h) <=> Within(q, h) \/ h = e
  <2>1. Within(q, h) => Within(Append(q, e), h)
    BY <1>1 DEF Within
  <2>2. Within(Append(q, e), e)
    BY <1>1 DEF Within
  <2> QED BY <1>1, <1>2, <2>1, <2>2 DEF Within
<1> QED BY <1>1, <1>3, <1>4

\* The handler answered leaves the queue, or issues the next command.
LEMMA Answers ==
  ASSUME ShapeInv, NEW h \in Handlers, Answered(h)
  PROVE  /\ Tail(replies) \in Seq(Handlers) /\ Distinct(Tail(replies))
         /\ \A g \in Handlers : Within(Tail(replies), g) <=> Waiting(g) /\ g # h
         /\ Append(Tail(replies), h) \in Seq(Handlers) /\ Distinct(Append(Tail(replies), h))
         /\ \A g \in Handlers : Within(Append(Tail(replies), h), g) <=> Waiting(g)
<1>1. /\ Tail(replies) \in Seq(Handlers) /\ Distinct(Tail(replies))
      /\ \A g \in Handlers : Within(Tail(replies), g) <=> Within(replies, g) /\ g # h
      /\ Within(replies, h)
  BY TailKeeps DEF ShapeInv, Answered, Within
<1>2. /\ Append(Tail(replies), h) \in Seq(Handlers) /\ Distinct(Append(Tail(replies), h))
      /\ \A g \in Handlers : Within(Append(Tail(replies), h), g) <=> Within(Tail(replies), g) \/ g = h
  BY <1>1, AppendKeeps
<1>3. \A g \in Handlers : Waiting(g) <=> Within(replies, g)
  BY DEF Waiting, Within
<1> QED BY <1>1, <1>2, <1>3

(***************************************************************************)
(* Types.                                                                  *)
(***************************************************************************)
LEMMA Numbers ==
  /\ Levels \subseteq Nat
  /\ StartDelta \in Nat /\ SettleTolerance \in Nat /\ RefillThreshold \in Nat /\ SettleTime \in Nat
  /\ JumpLimit \in Nat /\ RollbackSlack \in Nat /\ MaxTime \in Nat /\ MaxArrivals \in Nat
  /\ MaxRefillFaults \in Nat /\ 0 \in 0 .. MaxTime
  /\ Levels \cup {0} \subseteq Nat /\ 0 .. MaxTime \subseteq Nat
BY RefillAssumption

\* The queue and the handlers in it agree.
QueueOK == /\ replies \in Seq(Handlers) /\ Distinct(replies)
           /\ step \in [Handlers -> Stages]
           /\ \A h \in Handlers : Waiting(h) <=> step[h] \notin {"idle", "begun"}

LEMMA Requeues ==
  ASSUME QueueOK, ShapeInv, NEW h \in Handlers, Answered(h), replies' = Append(Tail(replies), h),
         NEW s \in {"stored", "discarded", "settled"}, step' = [step EXCEPT ![h] = s]
  PROVE  QueueOK'
<1>1. Waiting(h)
  BY TailKeeps DEF ShapeInv, Answered, Waiting
<1>2. \A g \in Handlers : Within(Append(Tail(replies), h), g) <=> Waiting(g)
  BY Answers
<1>3. \A g \in Handlers : Waiting(g)' <=> Waiting(g)
  BY <1>2 DEF Waiting, Within
<1> QED BY <1>1, <1>3, Answers DEF QueueOK, Stages

LEMMA Dequeues ==
  ASSUME QueueOK, ShapeInv, NEW h \in Handlers, Answered(h), replies' = Tail(replies),
         step' = [step EXCEPT ![h] = "idle"]
  PROVE  QueueOK'
<1>1. \A g \in Handlers : Waiting(g)' <=> Waiting(g) /\ g # h
  BY Answers DEF Waiting, Within
<1> QED BY <1>1, Answers DEF QueueOK, Stages

LEMMA Enqueues ==
  ASSUME QueueOK, ShapeInv, NEW h \in Handlers, step[h] = "begun", replies' = Append(replies, h),
         step' = [step EXCEPT ![h] = "looked"]
  PROVE  QueueOK' /\ \A g \in Handlers : Waiting(g)' <=> Waiting(g) \/ g = h
<1>1. ~Within(replies, h)
  BY DEF QueueOK, Waiting, Within
<1>2. /\ \A g \in Handlers : Waiting(g)' <=> Waiting(g) \/ g = h
      /\ replies' \in Seq(Handlers) /\ Distinct(replies')
  BY <1>1, AppendKeeps DEF QueueOK, Waiting, Within
<1> QED BY <1>2 DEF QueueOK, Stages

LEMMA Sits ==
  ASSUME QueueOK, NEW h \in Handlers, step[h] \in {"idle", "begun"}, UNCHANGED replies,
         NEW s \in {"idle", "begun"}, step' = [step EXCEPT ![h] = s]
  PROVE  QueueOK'
BY DEF QueueOK, Stages, Waiting

LEMMA QueueStep ==
  ASSUME QueueOK, ShapeInv, [RefillNext]_refillVars
  PROVE  QueueOK'
<1>1. ASSUME NEW h \in Handlers, RefillStep(h) PROVE QueueOK'
  <2>1. ASSUME NEW t \in 0 .. MaxTime, NEW f \in Levels, NEW m \in Motions, Begin(h, t, f, m)
        PROVE QueueOK'
    BY <2>1, Sits DEF Begin
  <2>2. CASE Skip(h)
    BY <2>2, Sits DEF Skip, Free
  <2>3. CASE Look(h)
    BY <2>3, Enqueues DEF Look
  <2>4. CASE Open(h) \/ Raise(h) \/ Keep(h)
    BY <2>4, Requeues DEF Open, Raise, Keep, Store
  <2>5. CASE Delete(h)
    BY <2>5, Requeues DEF Delete
  <2>6. CASE Ignore(h) \/ Stored(h) \/ Discarded(h) \/ CommandFails(h)
    BY <2>6, Dequeues DEF Ignore, Stored, Discarded, CommandFails, Free
  <2> QED BY <1>1, <2>1, <2>2, <2>3, <2>4, <2>5, <2>6 DEF RefillStep
<1>2. ASSUME NEW h \in Handlers, Settled(h) PROVE QueueOK'
  BY <1>2, Dequeues DEF Settled, Free
<1>3. CASE RefillOther \/ UNCHANGED refillVars
  BY <1>3 DEF RefillOther, FirstPacket, SessionExpires, refillVars, QueueOK, Waiting
<1>4. CASE RefillRestart
  <2>1. <<>> \in Seq(Handlers) /\ Len(<<>>) = 0
    OBVIOUS
  <2> QED BY <1>4, <2>1 DEF RefillRestart, QueueOK, Distinct, Waiting, Stages
<1> QED BY <1>1, <1>2, <1>3, <1>4 DEF RefillNext

\* The parts of the type invariant.
FineSession(s, n) ==
  /\ s.id \in 0 .. n
  /\ s.start \in Levels \cup {0} /\ s.peak \in Levels \cup {0}
  /\ s.since \in 0 .. MaxTime /\ s.before \in 0 .. MaxTime
  /\ s # NoSession => s.id > 0 /\ s.peak >= s.start + StartDelta

FineInv  == FineSession(session, opened) /\ \A h \in Handlers : FineSession(seen[h], opened)
FuelInv  == /\ \A h \in Handlers : packet[h].fuel \in Levels \cup {0}
            /\ cached = NoState \/ (cached.fuel \in Levels /\ cached.time \in 0 .. MaxTime)
CountInv == /\ hot \in BOOLEAN /\ forgotten \in BOOLEAN
            /\ arrived \in 0 .. MaxArrivals /\ opened \in Nat
            /\ shared \cup backward \subseteq 1 .. opened
            /\ refillFaults \in 0 .. MaxRefillFaults

LEMMA TypeParts ==
  /\ RefillTypeOK /\ ShapeInv => FineInv /\ FuelInv /\ CountInv /\ QueueOK
  /\ FineInv /\ FuelInv /\ CountInv /\ QueueOK => RefillTypeOK
BY DEF RefillTypeOK, SessionOk, FineInv, FineSession, FuelInv, CountInv, QueueOK, ShapeInv, Stages

\* The records the handlers hold and store.
LEMMA ShapeStep ==
  ASSUME RefillTypeOK, ShapeInv, QueueOK', [RefillNext]_refillVars
  PROVE  ShapeInv'
<1> USE DEF ShapeInv, Sessions, Packets
<1>0. NoSession \in Sessions /\ NoPacket \in Packets
  BY Numbers DEF NoSession, NoPacket, Motions
<1>1. QueueOK' => replies' \in Seq(Handlers) /\ Distinct(replies)'
  BY DEF QueueOK
<1>2. ASSUME NEW h \in Handlers, RefillStep(h) PROVE ShapeInv'
  <2>1. ASSUME NEW t \in 0 .. MaxTime, NEW f \in Levels, NEW m \in Motions, Begin(h, t, f, m)
        PROVE ShapeInv'
    <3>1. cached.fuel \in Levels /\ cached.time \in 0 .. MaxTime
      BY <2>1 DEF Begin, RefillTypeOK
    <3> QED BY <1>1, <2>1, <3>1, Numbers DEF Begin
  <2>c. [fuel |-> packet[h].fuel, time |-> packet[h].time] \in [fuel : Nat, time : Int]
    BY Numbers
  <2>2. CASE Skip(h)
    BY <1>0, <1>1, <2>2, <2>c DEF Skip, Free, Cache
  <2>3. CASE Look(h)
    BY <1>1, <2>3, <2>c DEF Look, Cache
  <2>4. CASE Open(h)
    <3>0. /\ opened \in Nat
          /\ packet[h].prev \in Levels \cup {0} /\ packet[h].fuel \in Nat
          /\ packet[h].time \in 0 .. MaxTime /\ packet[h].prevTime \in 0 .. MaxTime
      BY DEF RefillTypeOK
    <3>a. opened + 1 \in Nat
      BY <3>0
    <3>b. packet[h].prev \in Nat
      BY <3>0, Numbers
    <3>1. /\ opened + 1 \in Nat
          /\ packet[h].prev \in Nat /\ packet[h].fuel \in Nat
          /\ packet[h].time \in Nat /\ packet[h].prevTime \in Nat
      BY <3>0, <3>a, <3>b, Numbers
    <3>2. [id |-> opened + 1, start |-> packet[h].prev, peak |-> packet[h].fuel,
           since |-> packet[h].time, before |-> packet[h].prevTime] \in Sessions
      BY <3>1
    <3>3. session' \in Sessions
      BY <2>4, <3>2 DEF Open, Store
    <3> QED BY <1>1, <2>4, <3>3 DEF Open, Store
  <2>5. CASE Raise(h) \/ Keep(h)
    <3>1. seen[h] \in Sessions /\ packet[h].fuel \in Nat /\ packet[h].time \in Nat
      BY Numbers
    <3>2. [seen[h] EXCEPT !.peak = packet[h].fuel, !.since = packet[h].time] \in Sessions
      BY <3>1
    <3>3. session' \in Sessions
      BY <2>5, <3>1, <3>2 DEF Raise, Keep, Store
    <3> QED BY <1>1, <2>5, <3>3 DEF Raise, Keep, Store
  <2>6. CASE Delete(h)
    BY <1>0, <1>1, <2>6 DEF Delete, SessionAfterDel
  <2>7. CASE Ignore(h) \/ Stored(h) \/ Discarded(h) \/ CommandFails(h)
    <3>1. Free(h) /\ UNCHANGED <<cached, session, announced>>
      BY <2>7 DEF Ignore, Stored, Discarded, CommandFails
    <3> QED BY <1>0, <1>1, <3>1 DEF Free
  <2> QED BY <1>2, <2>1, <2>2, <2>3, <2>4, <2>5, <2>6, <2>7 DEF RefillStep
<1>3. ASSUME NEW h \in Handlers, Settled(h) PROVE ShapeInv'
  <2>1. announced' \in Seq(Tales)
    <3> DEFINE tale == [id |-> seen[h].id, start |-> seen[h].start,
                        level |-> Confirmed(packet[h], seen[h]), before |-> seen[h].before,
                        at |-> packet[h].time]
    <3>1. tale \in Tales
      BY Numbers DEF Tales, Confirmed, Lesser
    <3> HIDE DEF tale
    <3>2. Append(announced, tale) \in Seq(Tales)
      BY <3>1
    <3> QED BY <1>3, <3>2 DEF Settled, tale
  <2> QED BY <1>0, <1>1, <1>3, <2>1 DEF Settled, Free
<1>4. CASE RefillOther \/ UNCHANGED refillVars
  <2>1. ASSUME NEW t \in 0 .. MaxTime, NEW f \in Levels, FirstPacket(t, f) PROVE ShapeInv'
    <3>1. [fuel |-> f, time |-> t] \in [fuel : Nat, time : Int]
      BY Numbers
    <3> QED BY <1>1, <2>1, <3>1 DEF FirstPacket
  <2>2. CASE SessionExpires
    BY <1>0, <1>1, <2>2 DEF SessionExpires
  <2>3. CASE UNCHANGED refillVars
    BY <1>1, <2>3 DEF refillVars
  <2> QED BY <1>4, <2>1, <2>2, <2>3 DEF RefillOther
<1>5. CASE RefillRestart
  BY <1>0, <1>1, <1>5 DEF RefillRestart
<1> QED BY <1>2, <1>3, <1>4, <1>5 DEF RefillNext

\* Sessions are numbered on, and what is stored is well formed.
LEMMA FineStep ==
  ASSUME RefillTypeOK, ShapeInv, [RefillNext]_refillVars
  PROVE  FineInv'
<1>1. /\ FineSession(session, opened) /\ \A h \in Handlers : FineSession(seen[h], opened)
      /\ opened \in Nat
  BY TypeParts DEF FineInv, CountInv
<1>2. FineSession(NoSession, opened)
  BY <1>1, Numbers DEF FineSession, NoSession
<1>3. ASSUME NEW h \in Handlers, RefillStep(h) \/ Settled(h) PROVE FineInv'
  <2>1. CASE UNCHANGED opened /\ session' \in {session, NoSession}
             /\ \E s \in {session, NoSession, seen[h]} : seen' = [seen EXCEPT ![h] = s]
    BY <1>1, <1>2, <2>1 DEF FineInv, ShapeInv
  <2>2. CASE Open(h)
    <3>0. /\ packet[h].fuel \in Levels \cup {0} /\ packet[h].prev \in Levels \cup {0}
          /\ packet[h].time \in 0 .. MaxTime /\ packet[h].prevTime \in 0 .. MaxTime
      BY TypeParts DEF ShapeInv, FuelInv, Packets
    <3>1. /\ packet[h].prev \in Levels \cup {0} /\ packet[h].fuel \in Levels \cup {0}
          /\ packet[h].time \in 0 .. MaxTime /\ packet[h].prevTime \in 0 .. MaxTime
          /\ packet[h].fuel - packet[h].prev >= StartDelta
          /\ packet[h].fuel \in Nat /\ packet[h].prev \in Nat
      BY <2>2, <3>0, Numbers DEF Open, Opens
    <3>2. FineSession(session', opened + 1)
      BY <1>1, <2>2, <3>1, Numbers DEF FineSession, Open, Store
    <3>3. \A g \in Handlers : FineSession(seen[g], opened + 1)
      BY <1>1 DEF FineSession
    <3> QED BY <2>2, <3>2, <3>3 DEF FineInv, Open, Store
  <2>3. CASE Raise(h) \/ Keep(h)
    <3>1. CASE Raise(h)
      <4>1. /\ packet[h].fuel - seen[h].peak > SettleTolerance /\ seen[h] # NoSession
            /\ packet[h].fuel \in Levels \cup {0} /\ packet[h].fuel \in Nat
            /\ packet[h].time \in 0 .. MaxTime /\ seen[h] \in Sessions
        BY <3>1, Numbers, TypeParts DEF Raise, Rises, ShapeInv, Packets, FuelInv
      <4>2. FineSession([seen[h] EXCEPT !.peak = packet[h].fuel, !.since = packet[h].time], opened)
        BY <1>1, <4>1, Numbers DEF FineSession, Sessions
      <4> QED BY <1>1, <3>1, <4>2 DEF FineInv, Raise, Store
    <3>2. CASE Keep(h)
      BY <1>1, <3>2 DEF FineInv, Keep, Store
    <3> QED BY <2>3, <3>1, <3>2
  <2>4. Open(h) \/ Raise(h) \/ Keep(h)
        \/ (UNCHANGED opened /\ session' \in {session, NoSession}
            /\ \E s \in {session, NoSession, seen[h]} : seen' = [seen EXCEPT ![h] = s])
    <3>1. seen = [seen EXCEPT ![h] = seen[h]]
      BY DEF ShapeInv
    <3> QED BY <1>3, <3>1 DEF RefillStep, Begin, Skip, Look, Delete, SessionAfterDel, Ignore,
               Stored, Discarded, CommandFails, Settled, Free
  <2> QED BY <2>1, <2>2, <2>3, <2>4
<1>4. CASE RefillOther \/ UNCHANGED refillVars
  BY <1>1, <1>2, <1>4 DEF RefillOther, FirstPacket, SessionExpires, refillVars, FineInv
<1>5. CASE RefillRestart
  BY <1>1, <1>2, <1>5 DEF RefillRestart, FineInv
<1> QED BY <1>3, <1>4, <1>5 DEF RefillNext

\* Readings.
LEMMA FuelStep ==
  ASSUME RefillTypeOK, ShapeInv, BegunInv, [RefillNext]_refillVars
  PROVE  FuelInv'
<1>0. FuelInv /\ NoPacket.fuel \in Levels \cup {0}
  BY TypeParts DEF NoPacket
<1>1. ASSUME NEW h \in Handlers, RefillStep(h) \/ Settled(h) PROVE FuelInv'
  <2>1. packet[h].time \in 0 .. MaxTime
    BY <1>0 DEF FuelInv, ShapeInv, Packets
  <2>2. CASE \E t \in 0 .. MaxTime, f \in Levels, m \in Motions : Begin(h, t, f, m)
    <3>1. PICK t \in 0 .. MaxTime, f \in Levels, m \in Motions : Begin(h, t, f, m)
      BY <2>2
    <3> QED BY <1>0, <3>1 DEF FuelInv, ShapeInv, Begin
  <2>3. CASE packet' = [packet EXCEPT ![h] = NoPacket] /\ UNCHANGED cached
    BY <1>0, <2>3 DEF FuelInv, ShapeInv
  <2>4. CASE packet' \in {packet, [packet EXCEPT ![h] = NoPacket]} /\ Cache(packet[h])
             /\ step[h] = "begun"
    BY <1>0, <2>1, <2>4 DEF FuelInv, ShapeInv, BegunInv, Cache
  <2>5. CASE UNCHANGED <<packet, cached>>
    BY <1>0, <2>5 DEF FuelInv
  <2>6. CASE Skip(h) \/ Look(h)
    BY <2>4, <2>6 DEF Skip, Look, Free
  <2>7. CASE Open(h) \/ Raise(h) \/ Keep(h) \/ Delete(h)
    BY <2>5, <2>7 DEF Open, Raise, Keep, Store, Delete
  <2>8. CASE Ignore(h) \/ Stored(h) \/ Discarded(h) \/ CommandFails(h) \/ Settled(h)
    BY <2>3, <2>8 DEF Ignore, Stored, Discarded, CommandFails, Settled, Free
  <2> QED BY <1>1, <2>2, <2>6, <2>7, <2>8 DEF RefillStep
<1>2. CASE RefillOther \/ UNCHANGED refillVars
  BY <1>0, <1>2 DEF RefillOther, FirstPacket, SessionExpires, refillVars, FuelInv
<1>3. CASE RefillRestart
  BY <1>0, <1>3 DEF RefillRestart, FuelInv
<1> QED BY <1>1, <1>2, <1>3 DEF RefillNext

\* Counters and histories.
LEMMA CountStep ==
  ASSUME RefillTypeOK, ShapeInv, [RefillNext]_refillVars
  PROVE  CountInv'
<1>0. CountInv
  BY TypeParts
<1>1. ASSUME NEW h \in Handlers, RefillStep(h) \/ Settled(h) PROVE CountInv'
  <2>1. ASSUME NEW t \in 0 .. MaxTime, NEW f \in Levels, NEW m \in Motions, Begin(h, t, f, m)
        PROVE CountInv'
    BY <1>0, <2>1, Numbers DEF Begin, CountInv
  <2>2. CASE Look(h)
    <3>1. session # NoSession => session.id \in 1 .. opened
      BY <1>0, TypeParts DEF FineInv, FineSession, CountInv
    <3> QED BY <1>0, <2>2, <3>1 DEF Look, CountInv
  <2>3. CASE Open(h)
    BY <1>0, <2>3 DEF Open, Store, CountInv
  <2>4. CASE Skip(h) \/ Raise(h) \/ Keep(h) \/ Delete(h) \/ Ignore(h) \/ Stored(h) \/ Discarded(h)
             \/ Settled(h)
    BY <1>0, <2>4 DEF Skip, Raise, Keep, Store, Delete, Ignore, Stored, HotAfterStore, Discarded,
       Settled, CountInv
  <2>5. CASE CommandFails(h)
    BY <1>0, <2>5, Numbers DEF CommandFails, RefillFault, CountInv
  <2> QED BY <1>1, <2>1, <2>2, <2>3, <2>4, <2>5 DEF RefillStep
<1>2. CASE RefillOther \/ UNCHANGED refillVars
  BY <1>0, <1>2, Numbers DEF RefillOther, FirstPacket, SessionExpires, refillVars, CountInv
<1>3. CASE RefillRestart
  <2>1. /\ refillFaults < MaxRefillFaults /\ refillFaults' = refillFaults + 1
        /\ ~hot' /\ forgotten' /\ hot' \in BOOLEAN /\ forgotten' \in BOOLEAN
        /\ UNCHANGED <<arrived, opened, shared, backward>>
    BY <1>3 DEF RefillRestart, RefillFault
  <2> QED BY <1>0, <2>1, Numbers DEF CountInv
<1> QED BY <1>1, <1>2, <1>3 DEF RefillNext

LEMMA BegunStep ==
  ASSUME RefillTypeOK, ShapeInv, BegunInv, [RefillNext]_refillVars
  PROVE  BegunInv'
<1> USE DEF BegunInv, ShapeInv
<1>0. step \in [Handlers -> Stages]
  BY TypeParts DEF QueueOK
<1>1. ASSUME NEW h \in Handlers, RefillStep(h) \/ Settled(h) PROVE BegunInv'
  <2>1. ASSUME NEW t \in 0 .. MaxTime, NEW f \in Levels, NEW m \in Motions, Begin(h, t, f, m)
        PROVE BegunInv'
    BY <1>0, <2>1 DEF Begin
  <2>2. CASE Look(h) \/ Open(h) \/ Raise(h) \/ Keep(h) \/ Delete(h)
    BY <1>0, <2>2 DEF Look, Open, Raise, Keep, Store, Delete
  <2>3. CASE Skip(h) \/ Ignore(h) \/ Stored(h) \/ Discarded(h) \/ CommandFails(h) \/ Settled(h)
    BY <1>0, <2>3 DEF Skip, Ignore, Stored, Discarded, CommandFails, Settled, Free
  <2> QED BY <1>1, <2>1, <2>2, <2>3 DEF RefillStep
<1>2. CASE RefillOther \/ UNCHANGED refillVars
  BY <1>2 DEF RefillOther, FirstPacket, SessionExpires, refillVars
<1>3. CASE RefillRestart
  BY <1>3 DEF RefillRestart
<1> QED BY <1>1, <1>2, <1>3 DEF RefillNext

LEMMA RefillTypeStep ==
  ASSUME RefillTypeOK, ShapeInv, BegunInv, [RefillNext]_refillVars
  PROVE  RefillTypeOK' /\ ShapeInv'
<1>1. QueueOK'
  BY QueueStep, TypeParts
<1>2. (FineInv /\ FuelInv /\ CountInv /\ QueueOK => RefillTypeOK)'
  BY TypeParts, PTL
<1> QED BY <1>1, <1>2, ShapeStep, FineStep, FuelStep, CountStep

(***************************************************************************)
(* The direction of a refill.                                              *)
(***************************************************************************)
\* What Settled appends, if anything.
Tale(h) == [id |-> seen[h].id, start |-> seen[h].start, level |-> Confirmed(packet[h], seen[h]),
            before |-> seen[h].before, at |-> packet[h].time]

LEMMA Telling ==
  ASSUME ShapeInv, NEW h \in Handlers, Settled(h)
  PROVE  \/ announced' = announced
         \/ /\ Announces(h) /\ Len(announced') = Len(announced) + 1 /\ Len(announced) \in Nat
            /\ announced'[Len(announced) + 1] = Tale(h)
            /\ \A i \in 1 .. Len(announced) : announced'[i] = announced[i]
<1>1. announced' = announced \/ (Announces(h) /\ announced' = Append(announced, Tale(h)))
  BY DEF Settled, Tale
<1>2. Tale(h) \in Tales
  BY Numbers DEF Tales, Tale, Confirmed, Lesser, ShapeInv, Sessions, Packets
<1>3. announced \in Seq(Tales)
  BY DEF ShapeInv
<1> HIDE DEF Tale, Tales
<1>4. /\ Len(Append(announced, Tale(h))) = Len(announced) + 1 /\ Len(announced) \in Nat
      /\ Append(announced, Tale(h))[Len(announced) + 1] = Tale(h)
      /\ \A i \in 1 .. Len(announced) : Append(announced, Tale(h))[i] = announced[i]
  BY <1>2, <1>3
<1> QED BY <1>1, <1>4

\* A packet older than the last rise neither raises nor settles.
LEMMA DirectionStep ==
  ASSUME RefillTypeOK, ShapeInv, DirectionInv, [RefillNext]_refillVars
  PROVE  DirectionInv'
<1> USE DEF DirectionInv, ShapeInv
<1>0. ~(NoSession.before > NoSession.since) /\ step \in [Handlers -> Stages]
  BY TypeParts DEF NoSession, QueueOK
<1>1. ASSUME NEW h \in Handlers, RefillStep(h) \/ Settled(h) PROVE DirectionInv'
  <2>1. ASSUME NEW t \in 0 .. MaxTime, NEW f \in Levels, NEW m \in Motions, Begin(h, t, f, m)
        PROVE DirectionInv'
    BY <1>0, <2>1 DEF Begin, Forward
  <2>2. CASE Look(h)
    BY <1>0, <2>2 DEF Look, Forward
  <2>3. CASE Open(h)
    <3>1. Forward(session)'
      <4>1. session'.before = packet[h].prevTime /\ session'.since = packet[h].time
            /\ session'.id = opened + 1
        BY <2>3 DEF Open, Store
      <4>2. packet[h].time \in Nat /\ packet[h].prevTime \in Nat
        BY Numbers DEF Packets
      <4> QED BY <2>3, <4>1, <4>2 DEF Open, Forward
    <3> QED BY <1>0, <2>3, <3>1 DEF Open, Store, Forward
  <2>4. CASE Raise(h)
    <3>1. packet[h].time >= seen[h].since
      <4>1. packet[h].time \in Nat /\ seen[h].since \in Nat
        BY Numbers DEF Packets, Sessions
      <4> QED BY <2>4, <4>1 DEF Raise, Rises, Stale
    <3>2. Forward(session)'
      <4>1. session'.before = seen[h].before /\ session'.since = packet[h].time
            /\ session'.id = seen[h].id
        BY <2>4 DEF Raise, Store, Sessions
      <4>2. packet[h].time \in Nat /\ seen[h].before \in Nat /\ seen[h].since \in Nat
        BY Numbers DEF Packets, Sessions
      <4> QED BY <2>4, <3>1, <4>1, <4>2 DEF Raise, Forward
    <3> QED BY <1>0, <2>4, <3>2 DEF Raise, Store, Forward
  <2>5. CASE Keep(h)
    BY <1>0, <2>5 DEF Keep, Store, Forward
  <2>6. CASE Delete(h)
    <3>1. Settles(packet[h], seen[h]) => packet[h].time >= seen[h].since
      BY Numbers DEF Settles, Holds, Stale, Packets, Sessions
    <3> QED BY <1>0, <2>6, <3>1 DEF Delete, SessionAfterDel, Forward
  <2>7. CASE Skip(h) \/ Ignore(h) \/ Stored(h) \/ Discarded(h) \/ CommandFails(h) \/ Settled(h)
    BY <1>0, <2>7 DEF Skip, Ignore, Stored, Discarded, CommandFails, Settled, Free, Forward
  <2> QED BY <1>1, <2>1, <2>2, <2>3, <2>4, <2>5, <2>6, <2>7 DEF RefillStep
<1>2. CASE RefillOther \/ UNCHANGED refillVars
  BY <1>0, <1>2 DEF RefillOther, FirstPacket, SessionExpires, refillVars, Forward
<1>3. CASE RefillRestart
  BY <1>0, <1>3 DEF RefillRestart, Forward
<1> QED BY <1>1, <1>2, <1>3 DEF RefillNext

LEMMA ForwardStep ==
  ASSUME RefillTypeOK, ShapeInv, DirectionInv, RefillGoesForward, [RefillNext]_refillVars
  PROVE  RefillGoesForward'
<1>1. backward \subseteq backward'
  BY DEF RefillNext, RefillStep, RefillOther, RefillRestart, refillVars, Begin, Skip, Look, Open,
     Raise, Keep, Store, Delete, Ignore, Stored, Discarded, CommandFails, Settled, FirstPacket,
     SessionExpires
<1>2. CASE UNCHANGED announced
  BY <1>1, <1>2 DEF RefillGoesForward
<1>3. ASSUME NEW h \in Handlers, Settled(h), announced' # announced PROVE RefillGoesForward'
  <2>1. /\ Announces(h) /\ Len(announced') = Len(announced) + 1 /\ Len(announced) \in Nat
        /\ announced'[Len(announced) + 1] = Tale(h)
        /\ \A i \in 1 .. Len(announced) : announced'[i] = announced[i]
    BY <1>3, Telling
  <2>2. /\ Tale(h).level - Tale(h).start >= RefillThreshold
        /\ Tale(h).before > Tale(h).at => Tale(h).id \in backward
    <3>1. packet[h].time >= seen[h].since /\ Forward(seen[h])
      BY <2>1 DEF Announces, DirectionInv
    <3>2. packet[h].time \in Nat /\ seen[h].before \in Nat /\ seen[h].since \in Nat
      BY Numbers DEF Packets, Sessions, ShapeInv
    <3> QED BY <2>1, <3>1, <3>2 DEF Announces, Tale, Forward
  <2>3. \A i \in 1 .. Len(announced') : i \in 1 .. Len(announced) \/ i = Len(announced) + 1
    BY <2>1
  <2> QED BY <1>1, <2>1, <2>2, <2>3 DEF RefillGoesForward
<1>4. UNCHANGED announced \/ \E h \in Handlers : Settled(h) /\ announced' # announced
  BY DEF RefillNext, RefillStep, RefillOther, RefillRestart, refillVars, Begin, Skip, Look, Open,
     Raise, Keep, Store, Delete, Ignore, Stored, Discarded, CommandFails, FirstPacket, SessionExpires
<1> QED BY <1>2, <1>3, <1>4

(***************************************************************************)
(* One announcement per session.                                           *)
(***************************************************************************)
\* A session that nobody shares, x below, is in one place: in Redis, in the hand
\* of one handler, or told.
Sole(x) ==
  /\ \A g, h \in Handlers : InHand(g, x) /\ InHand(h, x) => g = h
  /\ Told(x) => session.id # x /\ \A h \in Handlers : ~InHand(h, x)
  /\ \A h \in Handlers : InHand(h, x) /\ step[h] \in {"discarded", "settled"} => session.id # x

Numbered == /\ opened \in Nat /\ session.id \in 0 .. opened
       /\ \A h \in Handlers : seen[h].id \in 0 .. opened
       /\ \A i \in 1 .. Len(announced) : announced[i].id \in 1 .. opened

\* What the queue becomes.
LEMMA Hands ==
  ASSUME RefillTypeOK, ShapeInv, NEW h \in Handlers, Answered(h)
  PROVE  /\ Waiting(h)
         /\ replies' = Tail(replies) => \A g \in Handlers : Waiting(g)' <=> Waiting(g) /\ g # h
         /\ replies' = Append(Tail(replies), h) => \A g \in Handlers : Waiting(g)' <=> Waiting(g)
<1>1. Waiting(h)
  BY TailKeeps DEF ShapeInv, Answered, Waiting
<1>2. /\ \A g \in Handlers : Within(Append(Tail(replies), h), g) <=> Waiting(g)
      /\ \A g \in Handlers : Within(Tail(replies), g) <=> Waiting(g) /\ g # h
  BY Answers
<1> QED BY <1>1, <1>2 DEF Waiting, Within

LEMMA SoleStep ==
  ASSUME RefillTypeOK, ShapeInv, TokenInv, [RefillNext]_refillVars,
         NEW x \in 1 .. opened', x \notin shared'
  PROVE  Sole(x)'
<1>0. /\ Numbered /\ step \in [Handlers -> Stages] /\ NoSession.id = 0 /\ NoSession \in Sessions
      /\ seen \in [Handlers -> Sessions] /\ session \in Sessions
      /\ \A h \in Handlers : Waiting(h) <=> step[h] \notin {"idle", "begun"}
  BY TypeParts DEF Numbered, FineInv, FineSession, CountInv, QueueOK, TokenInv, NoSession, ShapeInv, Sessions
<1>1. x \in Nat /\ x # 0 /\ (x \in 1 .. opened /\ x \notin shared => Sole(x))
  BY <1>0 DEF Numbered, TokenInv, Sole
<1>2. CASE UNCHANGED <<session, announced, opened, shared>>
           /\ \A g \in Handlers : InHand(g, x)' => InHand(g, x) /\ step'[g] = step[g]
  BY <1>1, <1>2 DEF Sole, Told
<1>3. ASSUME NEW h \in Handlers, RefillStep(h) PROVE Sole(x)'
  <2>1. ASSUME NEW t \in 0 .. MaxTime, NEW f \in Levels, NEW m \in Motions, Begin(h, t, f, m)
        PROVE Sole(x)'
    BY <1>0, <1>2, <2>1 DEF Begin, InHand, Waiting
  <2>2. CASE Skip(h)
    BY <1>0, <1>1, <1>2, <2>2 DEF Skip, Free, InHand, Waiting
  <2>3. CASE Look(h)
    <3>1. /\ \A g \in Handlers : Waiting(g)' <=> Waiting(g) \/ g = h
          /\ ~Waiting(h)
      BY <1>0, <2>3, Enqueues, TypeParts DEF Look
    <3>2. x \in 1 .. opened /\ x \notin shared
      BY <2>3 DEF Look
    <3>3. session.id = x => \A g \in Handlers : ~InHand(g, x)
      <4>1. session.id = x => session # NoSession
        BY <1>0, <1>1
      <4> QED BY <2>3, <4>1 DEF Look, InHand
    <3>4. \A g \in Handlers : InHand(g, x)' => (g = h /\ session.id = x) \/ InHand(g, x)
      BY <1>0, <2>3, <3>1 DEF Look, InHand
    <3>5. ~(Waiting(h)' /\ step'[h] \in {"discarded", "settled"})
          /\ \A g \in Handlers \ {h} : step'[g] = step[g]
      BY <1>0, <2>3 DEF Look
    <3> QED BY <1>1, <2>3, <3>2, <3>3, <3>4, <3>5 DEF Look, Sole, Told, InHand
  <2>4. CASE Open(h)
    <3>1. \A g \in Handlers : InHand(g, x)' <=> InHand(g, x)
      BY <2>4, Hands DEF Open, Store, InHand
    <3>2. session'.id = opened + 1 /\ opened' = opened + 1
      BY <2>4 DEF Open, Store
    <3>3. \A g \in Handlers \ {h} : step'[g] = step[g]
      BY <1>0, <2>4 DEF Open, Store
    <3>4. step'[h] = "stored" /\ UNCHANGED <<announced, shared>>
      BY <1>0, <2>4 DEF Open, Store
    <3>5. CASE x = opened + 1
      BY <1>0, <3>1, <3>4, <3>5 DEF Numbered, Sole, Told, InHand
    <3>6. CASE x # opened + 1
      <4>1. Sole(x)
        BY <1>0, <1>1, <3>2, <3>4, <3>6 DEF Numbered
      <4> QED BY <1>0, <3>1, <3>2, <3>3, <3>4, <3>6, <4>1 DEF Sole, Told
    <3> QED BY <3>5, <3>6
  <2>5. CASE Raise(h) \/ Keep(h)
    <3>1. \A g \in Handlers : InHand(g, x)' <=> InHand(g, x)
      BY <2>5, Hands DEF Raise, Keep, Store, InHand
    <3>2. session'.id = seen[h].id /\ Waiting(h) /\ step'[h] = "stored"
          /\ \A g \in Handlers \ {h} : step'[g] = step[g]
      BY <1>0, <2>5, Hands DEF Raise, Keep, Store, Sessions
    <3>3. UNCHANGED <<announced, opened, shared>> /\ Sole(x)
      BY <1>1, <2>5 DEF Raise, Keep, Store
    <3> QED BY <3>1, <3>2, <3>3 DEF Sole, Told, InHand
  <2>6. CASE Delete(h)
    <3>1. \A g \in Handlers : InHand(g, x)' <=> InHand(g, x)
      BY <2>6, Hands DEF Delete, InHand
    <3>2. session'.id = 0 /\ UNCHANGED <<announced, opened, shared>> /\ Sole(x)
      BY <1>0, <1>1, <2>6 DEF Delete, SessionAfterDel
    <3> QED BY <1>1, <3>1, <3>2 DEF Sole, Told
  <2>7. CASE Ignore(h) \/ Stored(h) \/ Discarded(h) \/ CommandFails(h)
    <3>1. Free(h) /\ Answered(h) /\ replies' = Tail(replies)
          /\ UNCHANGED <<session, announced, opened, shared>>
      BY <2>7 DEF Ignore, Stored, Discarded, CommandFails
    <3>2. \A g \in Handlers : InHand(g, x)' => InHand(g, x) /\ step'[g] = step[g]
      BY <1>0, <3>1, Hands DEF InHand, Free
    <3> QED BY <1>2, <3>1, <3>2
  <2> QED BY <1>3, <2>1, <2>2, <2>3, <2>4, <2>5, <2>6, <2>7 DEF RefillStep
<1>4. ASSUME NEW h \in Handlers, Settled(h) PROVE Sole(x)'
  <2>1. Waiting(h) /\ \A g \in Handlers : InHand(g, x)' => InHand(g, x) /\ step'[g] = step[g] /\ g # h
    BY <1>0, <1>4, Hands DEF Settled, InHand, Free
  <2>2. UNCHANGED <<session, opened, shared>> /\ Sole(x) /\ step[h] = "settled"
    BY <1>1, <1>4 DEF Settled
  <2>3. Told(x)' => Told(x) \/ InHand(h, x)
    <3>1. announced' = announced \/
            (/\ Len(announced') = Len(announced) + 1 /\ Len(announced) \in Nat
             /\ announced'[Len(announced) + 1].id = seen[h].id
             /\ \A i \in 1 .. Len(announced) : announced'[i] = announced[i])
      <4>1. Tale(h).id = seen[h].id
        BY DEF Tale
      <4> QED BY <1>4, <4>1, Telling
    <3> QED BY <2>1, <3>1 DEF Told, InHand
  <2> QED BY <2>1, <2>2, <2>3 DEF Sole
<1>5. CASE RefillOther \/ UNCHANGED refillVars
  <2>1. CASE SessionExpires
    BY <1>0, <1>1, <2>1 DEF SessionExpires, Sole, Told, InHand, Waiting
  <2>2. CASE ~SessionExpires
    BY <1>2, <1>5, <2>2 DEF RefillOther, FirstPacket, refillVars, InHand, Waiting
  <2> QED BY <2>1, <2>2
<1>6. CASE RefillRestart
  <2>1. \A g \in Handlers : ~InHand(g, x)'
    BY <1>6 DEF RefillRestart, InHand, Waiting
  <2> QED BY <1>2, <1>6, <2>1 DEF RefillRestart
<1> QED BY <1>3, <1>4, <1>5, <1>6 DEF RefillNext

LEMMA TokenStep ==
  ASSUME RefillTypeOK, ShapeInv, TokenInv, [RefillNext]_refillVars
  PROVE  TokenInv'
<1>0. /\ step \in [Handlers -> Stages] /\ seen \in [Handlers -> Sessions] /\ opened \in Nat
      /\ \A h \in Handlers : FineSession(seen[h], opened)
  BY TypeParts DEF FineInv, CountInv, QueueOK, ShapeInv
<1>1. \A x \in 1 .. opened' : x \notin shared' => Sole(x)'
  BY SoleStep
<1>2. \A h \in Handlers : step'[h] = "settled" => seen'[h] # NoSession
  <2>1. ASSUME NEW h \in Handlers, RefillStep(h) \/ Settled(h), NEW g \in Handlers,
               step'[g] = "settled"
        PROVE  seen'[g] # NoSession
    <3>1. CASE Delete(h)
      BY <1>0, <2>1, <3>1 DEF Delete, Settles, Holds, TokenInv
    <3>2. CASE ~Delete(h)
      BY <1>0, <2>1, <3>2 DEF RefillStep, Begin, Skip, Look, Open, Raise, Keep, Store, Ignore,
         Stored, Discarded, CommandFails, Settled, Free, TokenInv
    <3> QED BY <3>1, <3>2
  <2>2. CASE RefillOther \/ RefillRestart \/ UNCHANGED refillVars
    BY <2>2 DEF RefillOther, FirstPacket, SessionExpires, RefillRestart, refillVars, TokenInv
  <2> QED BY <2>1, <2>2 DEF RefillNext
<1>3. \A i \in 1 .. Len(announced') : announced'[i].id \in 1 .. opened'
  <2>1. CASE UNCHANGED announced
    <3>1. opened' \in {opened, opened + 1}
      BY DEF RefillNext, RefillStep, RefillOther, RefillRestart, refillVars, Begin, Skip, Look, Open,
         Raise, Keep, Store, Delete, Ignore, Stored, Discarded, CommandFails, Settled, FirstPacket,
         SessionExpires
    <3> QED BY <1>0, <2>1, <3>1 DEF TokenInv
  <2>2. ASSUME NEW h \in Handlers, Settled(h)
        PROVE  \A i \in 1 .. Len(announced') : announced'[i].id \in 1 .. opened'
    <3>1. seen[h].id \in 1 .. opened /\ Tale(h).id = seen[h].id
      BY <1>0, <2>2 DEF Settled, TokenInv, FineSession, Tale
    <3> QED BY <2>2, <3>1, Telling DEF TokenInv, Settled
  <2>3. UNCHANGED announced \/ \E h \in Handlers : Settled(h)
    BY DEF RefillNext, RefillStep, RefillOther, RefillRestart, refillVars, Begin, Skip, Look, Open,
       Raise, Keep, Store, Delete, Ignore, Stored, Discarded, CommandFails, FirstPacket, SessionExpires
  <2> QED BY <2>1, <2>2, <2>3
<1> QED BY <1>1, <1>2, <1>3 DEF TokenInv, Sole

LEMMA OnceStep ==
  ASSUME RefillTypeOK, ShapeInv, TokenInv, AnnouncedOnce, [RefillNext]_refillVars
  PROVE  AnnouncedOnce'
<1>0. shared \subseteq shared'
  BY DEF RefillNext, RefillStep, RefillOther, RefillRestart, refillVars, Begin, Skip, Look, Open,
     Raise, Keep, Store, Delete, Ignore, Stored, Discarded, CommandFails, Settled, FirstPacket,
     SessionExpires
<1>1. CASE UNCHANGED announced
  BY <1>0, <1>1 DEF AnnouncedOnce
<1>2. ASSUME NEW h \in Handlers, Settled(h), announced' # announced PROVE AnnouncedOnce'
  <2>1. /\ Len(announced') = Len(announced) + 1 /\ Len(announced) \in Nat
        /\ announced'[Len(announced) + 1] = Tale(h)
        /\ \A i \in 1 .. Len(announced) : announced'[i] = announced[i]
    BY <1>2, Telling
  <2>2. Tale(h).id = seen[h].id /\ Waiting(h)
    BY <1>2, Hands DEF Tale, Settled
  <2>3. \A i \in 1 .. Len(announced) : announced[i].id = seen[h].id => seen[h].id \in shared
    BY <2>2 DEF TokenInv, Told, InHand
  <2>4. \A i \in 1 .. Len(announced') : i \in 1 .. Len(announced) \/ i = Len(announced) + 1
    BY <2>1
  <2> QED BY <1>0, <2>1, <2>2, <2>3, <2>4 DEF AnnouncedOnce
<1>3. UNCHANGED announced \/ \E h \in Handlers : Settled(h) /\ announced' # announced
  BY DEF RefillNext, RefillStep, RefillOther, RefillRestart, refillVars, Begin, Skip, Look, Open,
     Raise, Keep, Store, Delete, Ignore, Stored, Discarded, CommandFails, FirstPacket, SessionExpires
<1> QED BY <1>1, <1>2, <1>3

(***************************************************************************)
(* The set covers the session.                                             *)
(***************************************************************************)
LEMMA CoverStep ==
  ASSUME RefillTypeOK, ShapeInv, CoverInv, [RefillNext]_refillVars
  PROVE  CoverInv'
<1> SUFFICES ASSUME session' # NoSession, ~forgotten'
             PROVE  /\ \A i \in 1 .. Len(replies') : Erases(i)' =>
                         \E k \in 1 .. Len(replies') : k > i /\ Stores(k)'
                    /\ hot' \/ \E k \in 1 .. Len(replies') : Stores(k)'
  BY DEF CoverInv
<1> DEFINE Erased == \A i \in 1 .. Len(replies') : Erases(i)' =>
                       \E k \in 1 .. Len(replies') : k > i /\ Stores(k)'
           Found == hot' \/ \E k \in 1 .. Len(replies') : Stores(k)'
<1>0. /\ step \in [Handlers -> Stages] /\ replies \in Seq(Handlers) /\ Distinct(replies)
      /\ Len(replies) \in Nat /\ \A i \in 1 .. Len(replies) : replies[i] \in Handlers
      /\ \A h \in Handlers : Waiting(h) <=> step[h] \notin {"idle", "begun"}
  BY TypeParts DEF QueueOK
<1>1. ASSUME NEW h \in Handlers, RefillStep(h) \/ Settled(h) PROVE Erased /\ Found
  <2>1. CASE step[h] \in {"idle", "begun"} /\ replies' = replies
             /\ (\E s \in {"idle", "begun"} : step' = [step EXCEPT ![h] = s])
             /\ UNCHANGED <<session, hot, forgotten>>
    <3>1. \A i \in 1 .. Len(replies) : replies[i] # h
      BY <1>0, <2>1 DEF Waiting
    <3> QED BY <1>0, <2>1, <3>1 DEF Erases, Stores, CoverInv
  <2>2. CASE Look(h)
    <3>1. \A i \in 1 .. Len(replies) : replies[i] # h
      BY <1>0, <2>2 DEF Waiting, Look
    <3>2. /\ Len(replies') = Len(replies) + 1 /\ replies'[Len(replies) + 1] = h
          /\ \A i \in 1 .. Len(replies) : replies'[i] = replies[i]
      BY <1>0, <2>2 DEF Look
    <3>3. step'[h] = "looked" /\ \A g \in Handlers \ {h} : step'[g] = step[g]
      BY <1>0, <2>2 DEF Look
    <3>4. \A i \in 1 .. Len(replies) : replies'[i] = replies[i] /\ step'[replies[i]] = step[replies[i]]
      BY <1>0, <3>1, <3>2, <3>3
    <3>5. \A i \in 1 .. Len(replies) : (Erases(i)' <=> Erases(i)) /\ (Stores(i)' <=> Stores(i))
      BY <3>4 DEF Erases, Stores
    <3>6. \A i \in 1 .. Len(replies') : i = Len(replies) + 1 => ~Erases(i)'
      BY <3>2, <3>3 DEF Erases
    <3>7. /\ \A i \in 1 .. Len(replies) : Erases(i) => \E k \in 1 .. Len(replies) : k > i /\ Stores(k)
          /\ hot \/ \E k \in 1 .. Len(replies) : Stores(k)
          /\ hot' = hot
      BY <2>2 DEF Look, CoverInv
    <3>8. \A i \in 1 .. Len(replies) : i \in 1 .. Len(replies')
      BY <1>0, <3>2
    <3>9. \A i \in 1 .. Len(replies') : i \in 1 .. Len(replies) \/ i = Len(replies) + 1
      BY <1>0, <3>2
    <3>a. Erased
      <4> SUFFICES ASSUME NEW i \in 1 .. Len(replies'), Erases(i)'
                   PROVE  \E k \in 1 .. Len(replies') : k > i /\ Stores(k)'
        OBVIOUS
      <4>1. i \in 1 .. Len(replies) /\ Erases(i)
        BY <3>5, <3>6, <3>9
      <4> QED BY <3>5, <3>7, <3>8, <4>1
    <3>b. Found
      BY <3>5, <3>7, <3>8
    <3> QED BY <3>a, <3>b
  <2>3. CASE Open(h) \/ Raise(h) \/ Keep(h)
    <3>1. Answered(h) /\ replies' = Append(Tail(replies), h) /\ step' = [step EXCEPT ![h] = "stored"]
      BY <2>3 DEF Open, Raise, Keep, Store
    <3>2. replies # <<>> /\ h = Head(replies)
      BY <3>1 DEF Answered
    <3>3. Len(replies') = Len(replies) /\ replies'[Len(replies)] = h /\ Len(replies) \in Nat \ {0}
      BY <1>0, <3>1, <3>2
    <3>4. Stores(Len(replies))'
      BY <1>0, <3>1, <3>3 DEF Stores
    <3>5. ~Erases(Len(replies))'
      BY <3>4 DEF Stores, Erases
    <3> QED BY <3>3, <3>4, <3>5
  <2>4. CASE Delete(h)
    BY <2>4 DEF Delete, SessionAfterDel
  <2>5. CASE Ignore(h) \/ Stored(h) \/ Discarded(h) \/ CommandFails(h) \/ Settled(h)
    <3>1. Answered(h) /\ replies' = Tail(replies) /\ step' = [step EXCEPT ![h] = "idle"]
          /\ session' = session
      BY <2>5 DEF Ignore, Stored, Discarded, CommandFails, Settled, Free
    <3>2. /\ Len(replies') = Len(replies) - 1 /\ Len(replies) \in Nat \ {0}
          /\ \A i \in 1 .. Len(replies') : i + 1 \in 1 .. Len(replies) /\ replies'[i] = replies[i + 1]
          /\ h = replies[1]
      BY <1>0, <3>1, TailKeeps DEF Answered
    <3>3. \A i \in 1 .. Len(replies') : replies'[i] # h
      BY <1>0, <3>2 DEF Distinct
    <3>4. \A i \in 1 .. Len(replies') :
            (Erases(i)' <=> Erases(i + 1)) /\ (Stores(i)' <=> Stores(i + 1))
      BY <1>0, <3>1, <3>2, <3>3 DEF Erases, Stores
    <3>5. \A k \in 1 .. Len(replies) : k > 1 => k - 1 \in 1 .. Len(replies') /\ (k - 1) + 1 = k
      BY <3>2
    <3>6. ~forgotten
      BY <2>5 DEF Ignore, Stored, Discarded, CommandFails, Settled
    <3>7. /\ \A i \in 1 .. Len(replies) : Erases(i) => \E k \in 1 .. Len(replies) : k > i /\ Stores(k)
          /\ hot \/ \E k \in 1 .. Len(replies) : Stores(k)
      BY <3>1, <3>6 DEF CoverInv
    <3>8. Erased
      <4> SUFFICES ASSUME NEW i \in 1 .. Len(replies'), Erases(i)'
                   PROVE  \E k \in 1 .. Len(replies') : k > i /\ Stores(k)'
        OBVIOUS
      <4>1. PICK k \in 1 .. Len(replies) : k > i + 1 /\ Stores(k)
        BY <3>2, <3>4, <3>7
      <4>2. k - 1 \in 1 .. Len(replies') /\ k - 1 > i /\ Stores(k - 1)'
        BY <3>2, <3>4, <3>5, <4>1
      <4> QED BY <4>2
    <3>9. Found
      <4>1. ASSUME NEW k \in 1 .. Len(replies), k > 1, Stores(k) PROVE Found
        <5>1. k - 1 \in 1 .. Len(replies') /\ Stores(k - 1)'
          BY <3>4, <3>5, <4>1
        <5> QED BY <5>1
      <4>2. CASE step[h] = "stored"
        BY <2>5, <4>2 DEF Ignore, Stored, HotAfterStore, Discarded, CommandFails, Settled
      <4>3. CASE step[h] \in {"discarded", "settled"}
        <5>1. Erases(1) /\ 1 \in 1 .. Len(replies)
          BY <3>2, <4>3 DEF Erases
        <5> QED BY <3>7, <4>1, <5>1
      <4>4. CASE step[h] \notin {"stored", "discarded", "settled"}
        <5>1. ~Stores(1) /\ hot' = hot
          BY <2>5, <3>2, <4>4 DEF Stores, Ignore, Stored, Discarded, CommandFails, Settled
        <5>2. \A k \in 1 .. Len(replies) : k = 1 \/ k > 1
          BY <3>2
        <5> QED BY <3>7, <4>1, <5>1, <5>2
      <4> QED BY <4>2, <4>3, <4>4
    <3> QED BY <3>8, <3>9
  <2>6. CASE (\E t \in 0 .. MaxTime, f \in Levels, m \in Motions : Begin(h, t, f, m)) \/ Skip(h)
    BY <2>1, <2>6 DEF Begin, Skip, Free
  <2> QED BY <1>1, <2>2, <2>3, <2>4, <2>5, <2>6 DEF RefillStep
<1>2. CASE RefillOther \/ UNCHANGED refillVars
  BY <1>2 DEF RefillOther, FirstPacket, SessionExpires, refillVars, CoverInv, Erases, Stores
<1>3. CASE RefillRestart
  BY <1>3 DEF RefillRestart
<1> QED BY <1>1, <1>2, <1>3 DEF RefillNext

(***************************************************************************)
(* Theorems.                                                               *)
(***************************************************************************)
LEMMA RefillInitially == RefillInit => RefillInv
<1> SUFFICES ASSUME RefillInit PROVE RefillInv
  OBVIOUS
<1> USE DEF RefillInit
<1>1. /\ replies = <<>> /\ announced = <<>> /\ Len(<<>>) = 0
      /\ <<>> \in Seq(Handlers) /\ <<>> \in Seq(Tales)
  OBVIOUS
<1>2. ShapeInv
  BY <1>1, Numbers DEF ShapeInv, Sessions, Packets, NoSession, NoPacket, NoState, Motions, Distinct
<1>3. FineInv /\ FuelInv
  BY Numbers DEF FineInv, FineSession, FuelInv, NoSession, NoPacket, NoState
<1>c. CountInv
  <2>1. 0 \in 0 .. MaxArrivals /\ 0 \in 0 .. MaxRefillFaults /\ 0 \in Nat
    BY Numbers
  <2> QED BY <2>1 DEF CountInv
<1>q. QueueOK
  BY <1>1 DEF QueueOK, Distinct, Waiting, Stages
<1>4. BegunInv /\ TokenInv /\ DirectionInv /\ CoverInv
  BY <1>1 DEF BegunInv, TokenInv, DirectionInv, Forward, CoverInv, Erases, Stores, InHand, Waiting,
     Told, NoSession
<1>5. AnnouncedOnce /\ RefillGoesForward
  BY <1>1 DEF AnnouncedOnce, RefillGoesForward
<1> QED BY <1>2, <1>3, <1>c, <1>q, <1>4, <1>5, TypeParts DEF RefillInv

LEMMA RefillInductive == RefillInv /\ [RefillNext]_refillVars => RefillInv'
BY RefillTypeStep, BegunStep, TokenStep, OnceStep, DirectionStep, ForwardStep, CoverStep DEF RefillInv

\* The inductive invariant of the refill sessions holds in every reachable state:
\* types, the queue of answers, where each session is, the direction of its
\* rises, and the stores on their way (fuelEventAggregator.js:55-161).
THEOREM RefillInvariant == RefillSpec => []RefillInv
<1> QED BY RefillInitially, RefillInductive, PTL DEF RefillSpec

\* Every reachable state is type-correct and a session holds a rise of at least
\* the opening one (fuelEventAggregator.js:72-90).
THEOREM RefillTypeCorrect == RefillSpec => []RefillTypeOK
<1>1. RefillInv => RefillTypeOK
  BY DEF RefillInv
<1> QED BY <1>1, RefillInvariant, PTL

\* A session is announced once unless two handlers had it in hand together, for
\* any number of handlers and packets (fuelEventAggregator.js:133-160).
THEOREM EachSessionOnce == RefillSpec => []AnnouncedOnce
<1>1. RefillInv => AnnouncedOnce
  BY DEF RefillInv
<1> QED BY <1>1, RefillInvariant, PTL

\* An announced refill goes up by the threshold and forward in time, however the
\* packets are ordered, unless its session was opened backward
\* (fuelEventAggregator.js:92-95, 137-142).
THEOREM RefillsGoForward == RefillSpec => []RefillGoesForward
<1>1. RefillInv => RefillGoesForward
  BY DEF RefillInv
<1> QED BY <1>1, RefillInvariant, PTL

\* At rest the set of active vehicles covers the session in Redis, unless a
\* restart or a failed command emptied it (fuelEventAggregator.js:62-64).
THEOREM SetCoversSession == RefillSpec => []HotCoversSession
<1>1. RefillInv => HotCoversSession
  <2>1. replies = <<>> => Len(replies) = 0
    OBVIOUS
  <2> QED BY <2>1 DEF RefillInv, CoverInv, HotCoversSession
<1> QED BY <1>1, RefillInvariant, PTL
=============================================================================
