------------------------ MODULE WhatsAppOutboxProofs ------------------------
(***************************************************************************)
(* Proofs about WhatsAppOutbox for any number of rows, recipients and      *)
(* workers, any attempt budget, batch limit and cap, and any faults.       *)
(***************************************************************************)
EXTENDS WhatsAppOutbox, FiniteSetTheorems, WellFoundedInduction, TLAPS

(***************************************************************************)
(* The dispatch loop is at a row it holds: claim order has a least row.    *)
(***************************************************************************)
LEMMA LeastNatural ==
  ASSUME NEW T, T \subseteq Nat, T # {}
  PROVE  \E x \in T : \A y \in T : x <= y
<1> DEFINE R == OpToRel(<, Nat)
<1>1. IsWellFoundedOn(R, Nat)
  BY NatLessThanWellFounded
<1>2. \A x, y \in Nat : y < x => <<y, x>> \in R
  BY Zenon DEF OpToRel
<1> HIDE DEF R
<1>3. PICK x \in T : \A y \in T : <<y, x>> \notin R
  BY <1>1, WFMin, Zenon
<1>4. \A y \in T : ~(y < x)
  BY <1>2, <1>3, Zenon
<1>5. QED
  BY <1>4

LEMMA FirstInOrder ==
  ASSUME NEW S, S \subseteq Messages, S # {}
  PROVE  \E m \in S : \A k \in S \ {m} : Before(m, k)
<1>1. \A m \in S : Rank(m) \in Nat
  BY OutboxAssumption DEF Rank, Kinds
<1>2. PICK m0 \in S : \A k \in S : Rank(m0) <= Rank(k)
  <2> DEFINE T == {Rank(m) : m \in S}
  <2>1. T \subseteq Nat /\ T # {}
    BY <1>1
  <2>2. PICK x \in T : \A y \in T : x <= y
    BY <2>1, LeastNatural
  <2>3. QED
    BY <2>2
<1> DEFINE U == {m \in S : Rank(m) = Rank(m0)}
<1>3. U \subseteq Nat /\ U # {}
  BY OutboxAssumption
<1>4. PICK m \in U : \A k \in U : m <= k
  BY <1>3, LeastNatural
<1>5. \A k \in S \ {m} : Before(m, k)
  BY <1>1, <1>2, <1>3, <1>4 DEF Before
<1>6. QED
  BY <1>4, <1>5

LEMMA CurrentHeld ==
  ASSUME TypeOK, NEW w \in Workers, Dispatching(w)
  PROVE  Current(w) \in held[w] /\ Current(w) \in Messages
<1>1. held[w] \subseteq Messages /\ held[w] # {}
  BY DEF TypeOK
<1>2. QED
  BY <1>1, FirstInOrder DEF Current

(***************************************************************************)
(* Type correctness.                                                       *)
(***************************************************************************)
LEMMA TypeInit == Init => TypeOK
BY OutboxAssumption DEF Init, TypeOK, Dispatching, Statuses, Places, Verdicts, BlankSnap

LEMMA TypeAdvance ==
  ASSUME TypeOK, NEW w \in Workers, Dispatching(w), Advance(w)
  PROVE  /\ pc' \in [Workers -> Places]
         /\ held' \in [Workers -> SUBSET Messages]
         /\ \A v \in Workers : Dispatching(v)' <=> held'[v] # {}
         /\ snap' \in [Workers -> [Messages -> [attempts : Nat, linked : BOOLEAN]]]
         /\ verdict' \in [Workers -> Verdicts]
         /\ reply' \in [Workers -> Nat]
         /\ maintDue' \in [Workers -> BOOLEAN]
<1>1. Current(w) \in Messages /\ BlankSnap \in [attempts : Nat, linked : BOOLEAN]
  BY CurrentHeld DEF BlankSnap
<1>2. snap' \in [Workers -> [Messages -> [attempts : Nat, linked : BOOLEAN]]]
  BY <1>1 DEF Advance, TypeOK
<1>3. QED
  BY <1>1, <1>2 DEF Advance, TypeOK, Dispatching, Places, Verdicts, Continue

LEMMA TypeOfRow ==
  ASSUME TypeOK, NEW w \in Workers, NEW m \in Messages
  PROVE  /\ copies[m] \in Nat
         /\ attempts[m] \in Nat
         /\ snap[w][m].attempts \in Nat
<1>1. copies[m] \in 0..MaxCopies /\ MaxCopies \in Nat /\ attempts[m] \in Nat
  BY OutboxAssumption DEF TypeOK
<1>2. snap \in [Workers -> [Messages -> [attempts : Nat, linked : BOOLEAN]]]
  BY DEF TypeOK
<1>3. snap[w][m] \in [attempts : Nat, linked : BOOLEAN]
  BY <1>2
<1>4. snap[w][m].attempts \in Nat
  BY <1>3
<1>5. QED
  BY <1>1, <1>4

LEMMA TypeSetStatus ==
  ASSUME TypeOK, NEW m \in Messages, NEW s \in Statuses,
         SetStatus(m, s) \/ UNCHANGED <<status, stale>>
  PROVE  status' \in [Messages -> Statuses] /\ stale' \in [Messages -> BOOLEAN]
<1>1. status \in [Messages -> Statuses] /\ stale \in [Messages -> BOOLEAN]
  BY DEF TypeOK
<1>2. CASE SetStatus(m, s)
  BY <1>1, <1>2 DEF SetStatus
<1>3. CASE UNCHANGED <<status, stale>>
  BY <1>1, <1>3
<1>4. QED
  BY <1>2, <1>3

LEMMA TypeAccept ==
  ASSUME TypeOK, NEW m \in Messages, Accept(m)
  PROVE  /\ copies' \in [Messages -> 0..MaxCopies]
         /\ fate' \in [Messages -> [1..MaxCopies -> {"none", "accepted", "delivered", "failed"}]]
<1>1. copies[m] \in 0..MaxCopies /\ MaxCopies \in Nat
  BY OutboxAssumption DEF TypeOK
<1>2. copies[m] + 1 \in 1..MaxCopies
  BY <1>1 DEF Accept
<1>3. copies' = [copies EXCEPT ![m] = copies[m] + 1]
  BY DEF Accept
<1>4. copies' \in [Messages -> 0..MaxCopies]
  BY <1>1, <1>2, <1>3 DEF TypeOK
<1>5. [fate[m] EXCEPT ![copies[m] + 1] = "accepted"]
        \in [1..MaxCopies -> {"none", "accepted", "delivered", "failed"}]
  BY DEF TypeOK
<1>6. fate' = [fate EXCEPT ![m] = [fate[m] EXCEPT ![copies[m] + 1] = "accepted"]]
  BY DEF Accept
<1>7. QED
  BY <1>4, <1>5, <1>6 DEF TypeOK

\* One step of each action keeps the types.
LEMMA TypeStep ==
  ASSUME TypeOK, [Next]_vars
  PROVE  TypeOK'
<1> USE OutboxAssumption DEF TypeOK, Dispatching, Statuses, Open, Settled, Accepted,
      Places, Verdicts, rowVars, workerVars, metaVars
<1>1. ASSUME NEW m \in Messages, Enqueue(m) PROVE TypeOK'
  BY <1>1 DEF Enqueue, SetStatus
<1>2. ASSUME NEW w \in Workers, Tick(w) PROVE TypeOK'
  BY <1>2 DEF Tick
<1>3. ASSUME NEW w \in Workers, MarkExpired(w) PROVE TypeOK'
  BY <1>3 DEF MarkExpired, GoTo
<1>4. ASSUME NEW w \in Workers, RecoverStuck(w) PROVE TypeOK'
  BY <1>4 DEF RecoverStuck, GoTo
<1>5. ASSUME NEW w \in Workers, MaintenanceFails(w) PROVE TypeOK'
  BY <1>5 DEF MaintenanceFails, GoTo, Fault
<1>6. ASSUME NEW w \in Workers, Claim(w) PROVE TypeOK'
  <2>1. Batch \subseteq Messages
    BY DEF Batch, Claimable
  <2>2. \A m \in Messages : Linked(m) \in BOOLEAN
    BY DEF Linked
  <2>3. snap' \in [Workers -> [Messages -> [attempts : Nat, linked : BOOLEAN]]]
    BY <1>6, <2>2 DEF Claim, BlankSnap
  <2>4. QED
    BY <1>6, <2>1, <2>3 DEF Claim, Continue
<1>7. ASSUME NEW w \in Workers, ClaimFails(w) \/ ConnectFails(w) PROVE TypeOK'
  <2>1. CASE ClaimFails(w)
    BY <2>1 DEF ClaimFails, GoTo, Fault
  <2>2. CASE ConnectFails(w)
    BY <2>2 DEF ConnectFails, GoTo, Fault
  <2>3. QED
    BY <1>7, <2>1, <2>2
<1>8. ASSUME NEW w \in Workers, CheckOptIn(w) PROVE TypeOK'
  BY <1>8 DEF CheckOptIn, Decide
<1>9. ASSUME NEW w \in Workers, CheckDailyCap(w) PROVE TypeOK'
  BY <1>9 DEF CheckDailyCap, Decide, GoTo
<1>10. ASSUME NEW w \in Workers, SendAccepted(w) PROVE TypeOK'
  <2>1. Current(w) \in Messages /\ Accept(Current(w))
    BY <1>10, CurrentHeld DEF SendAccepted
  <2>2. copies[Current(w)] + 1 \in Nat
    <3>1. copies[Current(w)] \in Nat
      BY <2>1, TypeOfRow, Zenon
    <3>2. QED
      BY <3>1
  <2>3. QED
    BY <1>10, <2>1, <2>2, TypeAccept DEF SendAccepted, Decide
<1>11. ASSUME NEW w \in Workers, SendTimesOut(w) PROVE TypeOK'
  <2>1. Current(w) \in Messages /\ Accept(Current(w))
    BY <1>11, CurrentHeld DEF SendTimesOut
  <2>2. excused' \in [Messages -> BOOLEAN] /\ faults' \in Nat
    BY <1>11, <2>1 DEF SendTimesOut, Fault
  <2>3. verdict' \in [Workers -> Verdicts]
    BY <1>11 DEF SendTimesOut, Decide, Rejections
  <2>4. pc' \in [Workers -> Places] /\ \A v \in Workers : Dispatching(v)' <=> held'[v] # {}
    BY <1>11 DEF SendTimesOut, Decide
  <2>5. QED
    BY <1>11, <2>1, <2>2, <2>3, <2>4, TypeAccept DEF SendTimesOut, Decide
<1>12. ASSUME NEW w \in Workers, NEW code \in Rejections, SendRejected(w, code) PROVE TypeOK'
  BY <1>12 DEF SendRejected, Decide
<1>13. ASSUME NEW w \in Workers, RecordVerdict(w) PROVE TypeOK'
  <2>1. Current(w) \in Messages
    BY <1>13, CurrentHeld DEF RecordVerdict
  <2>2. \A v, n : Outcome(v, n) \in {"sent", "dead", "failed"}
    BY DEF Outcome
  <2>3. Dispatching(w) /\ Advance(w)
    BY <1>13 DEF RecordVerdict
  <2>4. snap[w][Current(w)].attempts \in Nat
    BY <2>1, TypeOfRow
  <2>5. status' \in [Messages -> Statuses] /\ stale' \in [Messages -> BOOLEAN]
    BY <1>13, <2>1, <2>2 DEF RecordVerdict, SetStatus
  <2>6. attempts' \in [Messages -> Nat]
    <3>1. attempts[Current(w)] \in Nat
      BY <2>1, TypeOfRow, Zenon
    <3>2. attempts[Current(w)] + 1 \in Nat /\ snap[w][Current(w)].attempts + 1 \in Nat
      BY <2>4, <3>1
    <3>3. QED
      BY <1>13, <2>1, <3>2 DEF RecordVerdict
  <2>7. wamid' \in [Messages -> Nat] /\ due' \in [Messages -> BOOLEAN]
    BY <1>13, <2>1 DEF RecordVerdict
  <2>8. QED
    BY <1>13, <2>3, <2>5, <2>6, <2>7, TypeAdvance DEF RecordVerdict
<1>14. ASSUME NEW w \in Workers, DispatchThrows(w) PROVE TypeOK'
  <2>1. Dispatching(w) /\ Advance(w)
    BY <1>14 DEF DispatchThrows
  <2>2. \A m \in Messages : (excused[m] \/ Unstored(w, m)) \in BOOLEAN
    BY DEF Unstored
  <2>3. excused' \in [Messages -> BOOLEAN] /\ faults' \in Nat
    BY <1>14, <2>2 DEF DispatchThrows, Fault
  <2>4. QED
    BY <1>14, <2>1, <2>3, TypeAdvance DEF DispatchThrows
<1>15. ASSUME NEW w \in Workers, Crash(w) PROVE TypeOK'
  <2>1. \A m \in Messages : Unstored(w, m) \in BOOLEAN
    BY DEF Unstored
  <2>2. snap' \in [Workers -> [Messages -> [attempts : Nat, linked : BOOLEAN]]]
    BY <1>15 DEF Crash, BlankSnap
  <2>3. QED
    BY <1>15, <2>1, <2>2 DEF Crash, Fault
<1>16. ASSUME Clock PROVE TypeOK'
  BY <1>16 DEF Clock, BackoffElapses, TtlElapses, VisibilityElapses, MinuteElapses
<1>17. ASSUME NEW m \in Messages, NEW n \in 1..MaxCopies,
              StatusDelivered(m, n) \/ StatusRead(m, n) \/ StatusSent(m, n) \/ StatusFailed(m, n)
       PROVE TypeOK'
  <2>1. OnDelivered(status[m]) \in Accepted /\ OnSent(status[m]) \in Accepted
    BY DEF OnDelivered, OnSent
  <2>2. ASSUME NEW o \in {"delivered", "failed"}, Reported(m, n, o)
        PROVE  fate' \in [Messages -> [1..MaxCopies -> {"none", "accepted", "delivered", "failed"}]]
    <3>1. [fate[m] EXCEPT ![n] = o] \in [1..MaxCopies -> {"none", "accepted", "delivered", "failed"}]
      OBVIOUS
    <3>2. fate' = [fate EXCEPT ![m] = [fate[m] EXCEPT ![n] = o]]
      BY <2>2 DEF Reported
    <3>3. QED
      BY <3>1, <3>2
  <2>3. CASE StatusDelivered(m, n)
    <3>1. PICK s \in Accepted : \/ UNCHANGED <<status, stale>>
                                \/ SetStatus(m, s)
      BY <2>1, <2>3, Zenon DEF StatusDelivered
    <3>2. status' \in [Messages -> Statuses] /\ stale' \in [Messages -> BOOLEAN]
      BY <3>1, TypeSetStatus
    <3>3. QED
      BY <2>2, <2>3, <3>2 DEF StatusDelivered
  <2>4. CASE StatusRead(m, n)
    BY <2>2, <2>4 DEF StatusRead, SetStatus
  <2>5. CASE StatusSent(m, n)
    BY <2>1, <2>5 DEF StatusSent, SetStatus
  <2>6. CASE StatusFailed(m, n)
    BY <2>2, <2>6 DEF StatusFailed, SetStatus
  <2>7. QED
    BY <1>17, <2>3, <2>4, <2>5, <2>6
<1>18. ASSUME NEW r \in Recipients, Stop(r) \/ Start(r) \/ DeleteRecipient(r) PROVE TypeOK'
  <2>1. ASSUME NEW c \in {"out", "deleted"}, Withdraw(r, c) PROVE TypeOK'
    BY <2>1 DEF Withdraw
  <2>2. CASE Start(r)
    BY <2>2 DEF Start
  <2>3. QED
    BY <1>18, <2>1, <2>2 DEF Stop, DeleteRecipient
<1>19. ASSUME NEW m \in Messages, Retry(m) PROVE TypeOK'
  BY <1>19 DEF Retry, SetStatus, Fault, HeldBySomeone
<1>20. ASSUME UNCHANGED vars PROVE TypeOK'
  BY <1>20 DEF vars
<1>21. QED
  BY <1>1, <1>2, <1>3, <1>4, <1>5, <1>6, <1>7, <1>8, <1>9, <1>10, <1>11, <1>12, <1>13,
     <1>14, <1>15, <1>16, <1>17, <1>18, <1>19, <1>20
     DEF Next, Poll, Dispatch, Webhook, Http

\* Every behaviour keeps the types, and a worker holds rows exactly while it
\* dispatches.
THEOREM TypeCorrect == Spec => []TypeOK
<1>1. Init => TypeOK
  BY TypeInit
<1>2. TypeOK /\ [Next]_vars => TypeOK'
  BY TypeStep
<1>3. QED
  BY <1>1, <1>2, PTL DEF Spec

(***************************************************************************)
(* Meta gets at most one copy of a message to which nothing excusable has  *)
(* happened.  The induction is row by row: Safe(m) is what RowInv says of  *)
(* one row, and a step that leaves m unexcused keeps Safe(m).              *)
(***************************************************************************)
Safe(m) == /\ RowAgrees(m)
           /\ \A v, w \in Workers : m \in held[v] /\ m \in held[w] => v = w

LEMMA ExcusedStays ==
  ASSUME TypeOK, [Next]_vars, NEW m \in Messages, ~excused'[m]
  PROVE  ~excused[m]
<1>1. excused \in [Messages -> BOOLEAN]
  BY DEF TypeOK
<1>2. \A w \in Workers : Poll(w) => ~excused[m]
  BY <1>1 DEF Poll, Tick, MarkExpired, RecoverStuck, MaintenanceFails, Claim, ClaimFails, ConnectFails
<1>3. \A w \in Workers : Dispatch(w) => ~excused[m]
  BY <1>1 DEF Dispatch, CheckOptIn, CheckDailyCap, SendAccepted, SendTimesOut, SendRejected,
              RecordVerdict, DispatchThrows
<1>4. \A w \in Workers : Crash(w) => ~excused[m]
  BY <1>1 DEF Crash
<1>5. Clock => ~excused[m]
  BY <1>1 DEF Clock, BackoffElapses, TtlElapses, VisibilityElapses, MinuteElapses
<1>6. Webhook => ~excused[m]
  BY <1>1 DEF Webhook, StatusDelivered, StatusRead, StatusSent, StatusFailed, Stop, Start, Withdraw
<1>7. Http => ~excused[m]
  BY <1>1 DEF Http, DeleteRecipient, Withdraw, Retry
<1>8. \A k \in Messages : Enqueue(k) => ~excused[m]
  BY <1>1 DEF Enqueue
<1>9. UNCHANGED vars => ~excused[m]
  BY DEF vars
<1>10. QED
  BY <1>2, <1>3, <1>4, <1>5, <1>6, <1>7, <1>8, <1>9 DEF Next

\* A step that leaves the row, its copies and its holders alone.
LEMMA SafeFrame ==
  ASSUME NEW m \in Messages, Safe(m), held' = held,
         status'[m] = status[m], copies'[m] = copies[m], wamid'[m] = wamid[m],
         \A w \in Workers : Unstored(w, m)' <=> Unstored(w, m)
  PROVE  Safe(m)'
BY DEF Safe, RowAgrees, HeldBySomeone

LEMMA CurrentFrame ==
  ASSUME NEW w \in Workers, held'[w] = held[w]
  PROVE  Current(w)' = Current(w)
BY DEF Current

\* A worker that moves between places other than "write", or decides on an
\* outcome other than SENT, has nothing unstored before or after.
LEMMA SafeMove ==
  ASSUME NEW m \in Messages, Safe(m), NEW w \in Workers, held' = held, TypeOK,
         status'[m] = status[m], copies'[m] = copies[m], wamid'[m] = wamid[m],
         pc[w] # "write", pc'[w] # "write" \/ verdict'[w] # "SENT",
         \A v \in Workers \ {w} : pc'[v] = pc[v] /\ verdict'[v] = verdict[v]
  PROVE  Safe(m)'
<1>1. \A v \in Workers : Current(v)' = Current(v)
  BY CurrentFrame
<1>2. \A v \in Workers : Unstored(v, m)' <=> Unstored(v, m)
  BY <1>1 DEF Unstored
<1>3. QED
  BY <1>2, SafeFrame

\* The worker gives up the row it is at; it was its only holder.
LEMMA SafeRelease ==
  ASSUME TypeOK, NEW m \in Messages, Safe(m), NEW w \in Workers, Dispatching(w), Advance(w),
         copies'[m] = copies[m], wamid'[m] = wamid[m] \/ m = Current(w),
         m # Current(w) => status'[m] = status[m],
         m = Current(w) => RowAgrees(m)'
  PROVE  Safe(m)'
<1>1. Current(w) \in held[w] /\ Current(w) \in Messages
  BY CurrentHeld
<1>2. /\ held' = [held EXCEPT ![w] = held[w] \ {Current(w)}]
      /\ \A v \in Workers \ {w} : held'[v] = held[v] /\ pc'[v] = pc[v] /\ verdict'[v] = verdict[v]
      /\ held'[w] = held[w] \ {Current(w)} /\ pc'[w] # "write"
  BY DEF Advance, TypeOK, Continue
<1>3. \A v, u \in Workers : m \in held'[v] /\ m \in held'[u] => v = u
  BY <1>2 DEF Safe
<1>4. CASE m = Current(w)
  BY <1>3, <1>4 DEF Safe
<1>5. CASE m # Current(w)
  <2>1. \A v \in Workers : m \in held'[v] <=> m \in held[v]
    BY <1>2, <1>5
  <2>2. \A v \in Workers \ {w} : Current(v)' = Current(v)
    BY <1>2, CurrentFrame
  <2>3. \A v \in Workers : Unstored(v, m)' <=> Unstored(v, m)
    BY <1>2, <1>5, <2>1, <2>2 DEF Unstored
  <2>4. RowAgrees(m)'
    BY <1>5, <2>1, <2>3 DEF Safe, RowAgrees, HeldBySomeone
  <2>5. QED
    BY <1>3, <2>4 DEF Safe
<1>6. QED
  BY <1>4, <1>5

LEMMA SafePoll ==
  ASSUME TypeOK, NEW m \in Messages, Safe(m), ~excused'[m], NEW w \in Workers, Poll(w)
  PROVE  Safe(m)'
<1>1. CASE Tick(w)
  BY <1>1, SafeMove DEF Tick, rowVars, metaVars, TypeOK
<1>2. CASE MarkExpired(w)
  <2>1. /\ held' = held /\ copies'[m] = copies[m] /\ wamid'[m] = wamid[m]
        /\ \A v \in Workers : Current(v)' = Current(v)
        /\ \A v \in Workers : pc'[v] = pc[v] \/ (pc[v] = "expire" /\ pc'[v] = "recover")
        /\ verdict' = verdict
    BY <1>2, CurrentFrame DEF MarkExpired, GoTo, metaVars, TypeOK
  <2>2. \A v \in Workers : Unstored(v, m)' <=> Unstored(v, m)
    BY <2>1 DEF Unstored
  <2>3. CASE m \notin Expirable
    BY <1>2, <2>1, <2>2, <2>3, SafeFrame DEF MarkExpired
  <2>4. CASE m \in Expirable
    <3>1. status[m] \in Open /\ status'[m] = "expired"
      BY <1>2, <2>4 DEF MarkExpired, Expirable
    <3>2. copies[m] = 0 /\ wamid[m] = 0 /\ \A v \in Workers : m \notin held[v]
      BY <3>1 DEF Safe, RowAgrees, Open, Accepted
    <3>3. QED
      BY <2>1, <3>1, <3>2 DEF Safe, RowAgrees, Accepted
  <2>5. QED
    BY <2>3, <2>4
<1>3. CASE RecoverStuck(w)
  <2>1. /\ held' = held /\ copies'[m] = copies[m] /\ wamid'[m] = wamid[m]
        /\ \A v \in Workers : Current(v)' = Current(v)
        /\ \A v \in Workers : pc'[v] = pc[v] \/ (pc[v] = "recover" /\ pc'[v] = "claim")
        /\ verdict' = verdict
    BY <1>3, CurrentFrame DEF RecoverStuck, GoTo, metaVars, TypeOK
  <2>2. \A v \in Workers : Unstored(v, m)' <=> Unstored(v, m)
    BY <2>1 DEF Unstored
  <2>3. CASE status'[m] = status[m]
    BY <2>1, <2>2, <2>3, SafeFrame
  <2>4. CASE status'[m] # status[m]
    <3>1. status[m] = "sending" /\ status'[m] = "queued" /\ ~HeldBySomeone(m)
      BY <1>3, <2>4 DEF RecoverStuck
    <3>2. copies[m] = 0 /\ wamid[m] = 0
      BY <3>1 DEF Safe, RowAgrees, Accepted
    <3>3. QED
      BY <2>1, <3>1, <3>2 DEF Safe, RowAgrees, Accepted, HeldBySomeone
  <2>5. QED
    BY <2>3, <2>4
<1>4. CASE MaintenanceFails(w)
  BY <1>4, SafeMove DEF MaintenanceFails, GoTo, rowVars, metaVars, TypeOK
<1>5. CASE Claim(w)
  <2>1. pc[w] = "claim" /\ held[w] = {}
    BY <1>5 DEF Claim, TypeOK, Dispatching
  <2>2. /\ held'[w] = Batch
        /\ \A v \in Workers \ {w} : held'[v] = held[v] /\ pc'[v] = pc[v]
        /\ pc'[w] # "write" /\ verdict' = verdict
        /\ copies'[m] = copies[m] /\ wamid'[m] = wamid[m]
    BY <1>5 DEF Claim, TypeOK, metaVars, Continue
  <2>3. \A v \in Workers \ {w} : Current(v)' = Current(v)
    BY <2>2, CurrentFrame
  <2>4. CASE m \in Batch
    <3>1. status[m] \in Open /\ status'[m] = "sending"
      BY <1>5, <2>4 DEF Claim, Batch, Claimable
    <3>2. copies[m] = 0 /\ wamid[m] = 0 /\ \A v \in Workers : m \notin held[v]
      BY <3>1 DEF Safe, RowAgrees, Open, Accepted
    <3>3. \A v \in Workers : m \in held'[v] <=> v = w
      BY <2>2, <2>4, <3>2
    <3>4. \A v \in Workers : ~Unstored(v, m)'
      BY <2>2, <3>3 DEF Unstored
    <3>5. QED
      BY <2>2, <3>1, <3>2, <3>3, <3>4 DEF Safe, RowAgrees, Accepted
  <2>5. CASE m \notin Batch
    <3>1. status'[m] = status[m] /\ \A v \in Workers : m \in held'[v] <=> m \in held[v]
      BY <1>5, <2>1, <2>2, <2>5 DEF Claim
    <3>2. \A v \in Workers : Unstored(v, m)' <=> Unstored(v, m)
      BY <2>1, <2>2, <2>3, <3>1 DEF Unstored
    <3>3. QED
      BY <2>2, <3>1, <3>2 DEF Safe, RowAgrees, HeldBySomeone
  <2>6. QED
    BY <2>4, <2>5
<1>6. CASE ClaimFails(w)
  BY <1>6, SafeMove DEF ClaimFails, GoTo, rowVars, metaVars, TypeOK
<1>7. CASE ConnectFails(w)
  BY <1>7, SafeMove DEF ConnectFails, GoTo, rowVars, metaVars, TypeOK
<1>8. QED
  BY <1>1, <1>2, <1>3, <1>4, <1>5, <1>6, <1>7 DEF Poll

LEMMA SafeDispatch ==
  ASSUME TypeOK, NEW m \in Messages, Safe(m), ~excused'[m], NEW w \in Workers, Dispatch(w)
  PROVE  Safe(m)'
<1> DEFINE c == Current(w)
<1>1. CASE CheckOptIn(w)
  BY <1>1, SafeMove DEF CheckOptIn, Decide, rowVars, metaVars, TypeOK
<1>2. CASE CheckDailyCap(w)
  BY <1>2, SafeMove DEF CheckDailyCap, Decide, GoTo, rowVars, metaVars, TypeOK
<1>3. CASE SendAccepted(w)
  <2>1. Dispatching(w) /\ pc[w] = "send" /\ pc'[w] = "write" /\ verdict'[w] = "SENT"
        /\ held' = held /\ status' = status /\ wamid' = wamid
        /\ \A v \in Workers \ {w} : pc'[v] = pc[v] /\ verdict'[v] = verdict[v]
    BY <1>3 DEF SendAccepted, Decide, Dispatching, rowVars, TypeOK
  <2>2. c \in held[w] /\ c \in Messages
    BY <2>1, CurrentHeld
  <2>3. \A v \in Workers : Current(v)' = Current(v)
    BY <2>1, CurrentFrame
  <2>4. CASE m = c
    <3>1. ~Unstored(w, m) /\ copies[m] = 0 /\ status[m] = "sending" /\ wamid[m] = 0
      BY <2>1, <2>2, <2>4 DEF Unstored, Safe, RowAgrees, Accepted
    <3>2. copies'[m] = 1
      BY <1>3, <2>2, <2>4, <3>1 DEF SendAccepted, Accept, TypeOK
    <3>3. \A v \in Workers : m \in held[v] <=> v = w
      BY <2>2, <2>4 DEF Safe
    <3>4. Unstored(w, m)'
      BY <2>1, <2>2, <2>3, <2>4 DEF Unstored
    <3>5. QED
      BY <2>1, <3>1, <3>2, <3>3, <3>4 DEF Safe, RowAgrees, HeldBySomeone, Accepted
  <2>5. CASE m # c
    <3>1. copies'[m] = copies[m]
      BY <1>3, <2>2, <2>5 DEF SendAccepted, Accept, TypeOK
    <3>2. \A v \in Workers : Unstored(v, m)' <=> Unstored(v, m)
      BY <2>1, <2>3, <2>5 DEF Unstored
    <3>3. QED
      BY <2>1, <3>1, <3>2, SafeFrame
  <2>6. QED
    BY <2>4, <2>5
<1>4. CASE SendTimesOut(w)
  <2>1. Dispatching(w) /\ pc[w] = "send" /\ verdict'[w] = "GENERIC" /\ held' = held
        /\ status' = status /\ wamid' = wamid
        /\ \A v \in Workers \ {w} : pc'[v] = pc[v] /\ verdict'[v] = verdict[v]
    BY <1>4 DEF SendTimesOut, Decide, Dispatching, rowVars, TypeOK
  <2>2. c \in Messages
    BY <2>1, CurrentHeld
  <2>3. m # c
    BY <1>4, <2>2 DEF SendTimesOut, TypeOK
  <2>4. copies'[m] = copies[m]
    BY <1>4, <2>2, <2>3 DEF SendTimesOut, Accept, TypeOK
  <2>5. QED
    BY <2>1, <2>4, SafeMove
<1>5. ASSUME NEW code \in Rejections, SendRejected(w, code) PROVE Safe(m)'
  <2>1. code # "SENT"
    BY DEF Rejections
  <2>2. QED
    BY <1>5, <2>1, SafeMove DEF SendRejected, Decide, rowVars, metaVars, TypeOK
<1>6. CASE RecordVerdict(w)
  <2>1. Dispatching(w) /\ Advance(w) /\ pc[w] = "write" /\ copies' = copies
    BY <1>6 DEF RecordVerdict, Dispatching, metaVars
  <2>2. c \in held[w] /\ c \in Messages
    BY <2>1, CurrentHeld
  <2>3. m # c => status'[m] = status[m]
    BY <1>6, <2>2 DEF RecordVerdict, SetStatus, TypeOK
  <2>4. wamid'[m] = wamid[m] \/ m = c
    BY <1>6, <2>2 DEF RecordVerdict, TypeOK
  <2>5. ASSUME m = c PROVE RowAgrees(m)'
    <3>1. status[m] = "sending" /\ wamid[m] = 0
          /\ (verdict[w] = "SENT" => copies[m] = 1)
          /\ (verdict[w] # "SENT" => copies[m] = 0)
      BY <2>1, <2>2, <2>5 DEF Safe, RowAgrees, Unstored, Accepted
    <3>2. \A v \in Workers : m \notin held'[v]
      BY <2>1, <2>2, <2>5 DEF Safe, Advance, TypeOK
    <3>3. CASE verdict[w] = "SENT"
      <4>1. status'[m] = "sent"
        BY <1>6, <2>2, <2>5, <3>3 DEF RecordVerdict, SetStatus, Outcome, TypeOK
      <4>2. QED
        BY <2>1, <3>1, <3>2, <3>3, <4>1 DEF RowAgrees, Accepted
    <3>4. CASE verdict[w] # "SENT"
      <4>1. status'[m] \in {"dead", "failed"} /\ wamid'[m] = wamid[m]
        BY <1>6, <2>2, <2>5, <3>4 DEF RecordVerdict, SetStatus, Outcome, TypeOK
      <4>2. QED
        BY <2>1, <3>1, <3>2, <3>4, <4>1 DEF RowAgrees, Accepted
    <3>5. QED
      BY <3>3, <3>4
  <2>6. QED
    BY <2>1, <2>3, <2>4, <2>5, SafeRelease
<1>7. CASE DispatchThrows(w)
  <2>1. Dispatching(w) /\ Advance(w) /\ ~Unstored(w, m)
        /\ status' = status /\ copies' = copies /\ wamid' = wamid
    BY <1>7 DEF DispatchThrows, Dispatching, rowVars, metaVars
  <2>2. c \in held[w] /\ c \in Messages
    BY <2>1, CurrentHeld
  <2>3. ASSUME m = c PROVE RowAgrees(m)'
    <3>1. status[m] = "sending" /\ copies[m] = 0
      BY <2>1, <2>2, <2>3 DEF Safe, RowAgrees
    <3>2. \A v \in Workers : m \notin held'[v]
      BY <2>1, <2>2, <2>3 DEF Safe, Advance, TypeOK
    <3>3. QED
      BY <2>1, <3>1, <3>2 DEF Safe, RowAgrees, Accepted
  <2>4. QED
    BY <2>1, <2>3, SafeRelease
<1>8. QED
  BY <1>1, <1>2, <1>3, <1>4, <1>5, <1>6, <1>7 DEF Dispatch

LEMMA SafeCrash ==
  ASSUME TypeOK, NEW m \in Messages, Safe(m), ~excused'[m], NEW w \in Workers, Crash(w)
  PROVE  Safe(m)'
<1>1. /\ ~Unstored(w, m) /\ held'[w] = {}
      /\ status' = status /\ copies' = copies /\ wamid' = wamid
      /\ \A v \in Workers \ {w} : held'[v] = held[v] /\ pc'[v] = pc[v] /\ verdict'[v] = verdict[v]
  BY DEF Crash, rowVars, metaVars, TypeOK
<1>2. \A v \in Workers \ {w} : Unstored(v, m)' <=> Unstored(v, m)
  BY <1>1, CurrentFrame DEF Unstored
<1>3. \A v, u \in Workers : m \in held'[v] /\ m \in held'[u] => v = u
  BY <1>1 DEF Safe
<1>4. status[m] = "sending" /\ ~HeldBySomeone(m)' => copies[m] = 0
  BY <1>1 DEF Safe, RowAgrees, HeldBySomeone
<1>5. \A v \in Workers : m \in held'[v] =>
        status[m] = "sending" /\ (IF Unstored(v, m)' THEN copies[m] = 1 ELSE copies[m] = 0)
  BY <1>1, <1>2 DEF Safe, RowAgrees
<1>6. QED
  BY <1>1, <1>3, <1>4, <1>5 DEF Safe, RowAgrees

\* Steps outside the workers leave pc, verdict and held alone: it is enough
\* that the row still agrees with its copies.
LEMMA SafeOutside ==
  ASSUME NEW m \in Messages, Safe(m), UNCHANGED workerVars,
         copies'[m] = copies[m],
         \/ status'[m] = status[m] /\ wamid'[m] = wamid[m]
         \/ status[m] \in Accepted /\ status'[m] \in Accepted
         \/ /\ copies[m] = 0 /\ ~HeldBySomeone(m)
            /\ status'[m] \notin Accepted /\ wamid'[m] = wamid[m]
  PROVE  Safe(m)'
<1>1. held' = held /\ pc' = pc /\ verdict' = verdict
  BY DEF workerVars
<1>2. \A v \in Workers : Unstored(v, m)' <=> Unstored(v, m)
  BY <1>1, CurrentFrame DEF Unstored
<1>3. CASE status'[m] = status[m] /\ wamid'[m] = wamid[m]
  BY <1>1, <1>2, <1>3, SafeFrame
<1>4. CASE status[m] \in Accepted /\ status'[m] \in Accepted
  BY <1>1, <1>4 DEF Safe, RowAgrees, Accepted, HeldBySomeone
<1>5. CASE /\ copies[m] = 0 /\ ~HeldBySomeone(m)
           /\ status'[m] \notin Accepted /\ wamid'[m] = wamid[m]
  <2>1. wamid[m] = 0
    BY <1>5 DEF Safe, RowAgrees, Accepted
  <2>2. QED
    BY <1>1, <1>5, <2>1 DEF Safe, RowAgrees, HeldBySomeone
<1>6. QED
  BY <1>3, <1>4, <1>5

LEMMA SafeEnvironment ==
  ASSUME TypeOK, NEW m \in Messages, Safe(m), ~excused'[m],
         Clock \/ Webhook \/ Http \/ (\E k \in Messages : Enqueue(k))
  PROVE  Safe(m)'
<1>1. ASSUME NEW k \in Messages, Enqueue(k) PROVE Safe(m)'
  <2>1. UNCHANGED workerVars /\ copies' = copies /\ wamid' = wamid
    BY <1>1 DEF Enqueue, metaVars
  <2>2. CASE m = k
    <3>1. status[m] = "absent" /\ status'[m] = "queued"
      BY <1>1, <2>2 DEF Enqueue, SetStatus, TypeOK
    <3>2. copies[m] = 0 /\ ~HeldBySomeone(m)
      BY <3>1 DEF Safe, RowAgrees, HeldBySomeone, Accepted
    <3>3. QED
      BY <2>1, <3>1, <3>2, SafeOutside DEF Accepted
  <2>3. CASE m # k
    <3>1. status'[m] = status[m]
      BY <1>1, <2>3 DEF Enqueue, SetStatus, TypeOK
    <3>2. QED
      BY <2>1, <3>1, SafeOutside
  <2>4. QED
    BY <2>2, <2>3
<1>2. ASSUME NEW k \in Messages, BackoffElapses(k) \/ TtlElapses(k) \/ VisibilityElapses(k)
      PROVE Safe(m)'
  <2>1. UNCHANGED workerVars /\ copies' = copies /\ wamid' = wamid /\ status' = status
    BY <1>2 DEF BackoffElapses, TtlElapses, VisibilityElapses, metaVars
  <2>2. QED
    BY <2>1, SafeOutside
<1>3. ASSUME NEW w \in Workers, MinuteElapses(w) PROVE Safe(m)'
  <2>1. held' = held /\ pc' = pc /\ verdict' = verdict
        /\ copies' = copies /\ wamid' = wamid /\ status' = status
    BY <1>3 DEF MinuteElapses, rowVars, metaVars
  <2>2. \A v \in Workers : Unstored(v, m)' <=> Unstored(v, m)
    BY <2>1, CurrentFrame DEF Unstored
  <2>3. QED
    BY <2>1, <2>2, SafeFrame
<1>4. ASSUME NEW k \in Messages, NEW n \in 1..MaxCopies,
             StatusDelivered(k, n) \/ StatusRead(k, n) \/ StatusSent(k, n)
      PROVE Safe(m)'
  <2>1. UNCHANGED workerVars /\ copies' = copies /\ wamid' = wamid
    BY <1>4 DEF StatusDelivered, StatusRead, StatusSent, metaVars
  <2>2. n # 0
    OBVIOUS
  <2>3. \/ status'[m] = status[m]
        \/ m = k /\ wamid[m] = n /\ status'[m] \in Accepted
    <3>1. OnDelivered(status[k]) \in Accepted /\ OnSent(status[k]) \in Accepted /\ "read" \in Accepted
      BY DEF OnDelivered, OnSent, Accepted
    <3>2. \/ status' = status
          \/ wamid[k] = n /\ \E s \in Accepted : status' = [status EXCEPT ![k] = s]
      BY <1>4, <3>1, Zenon DEF StatusDelivered, StatusRead, StatusSent, SetStatus
    <3>3. QED
      BY <3>2 DEF TypeOK
  <2>4. wamid[m] = n => status[m] \in Accepted
    BY <2>2 DEF Safe, RowAgrees
  <2>5. QED
    BY <2>1, <2>3, <2>4, SafeOutside
<1>5. ASSUME NEW k \in Messages, NEW n \in 1..MaxCopies, StatusFailed(k, n) PROVE Safe(m)'
  <2>1. UNCHANGED workerVars /\ copies' = copies /\ wamid' = wamid
    BY <1>5 DEF StatusFailed, metaVars
  <2>2. status'[m] = status[m]
    BY <1>5 DEF StatusFailed, SetStatus, TypeOK
  <2>3. QED
    BY <2>1, <2>2, SafeOutside
<1>6. ASSUME NEW r \in Recipients, Stop(r) \/ Start(r) \/ DeleteRecipient(r) PROVE Safe(m)'
  <2>1. UNCHANGED workerVars /\ copies' = copies /\ wamid' = wamid /\ status' = status
    BY <1>6 DEF Stop, Start, DeleteRecipient, Withdraw, rowVars, metaVars
  <2>2. QED
    BY <2>1, SafeOutside
<1>7. ASSUME NEW k \in Messages, Retry(k) PROVE Safe(m)'
  <2>1. UNCHANGED workerVars /\ copies' = copies /\ wamid' = wamid
    BY <1>7 DEF Retry, metaVars
  <2>2. CASE m = k
    <3>1. status'[m] = "queued" /\ ~(copies[m] > 0) /\ ~HeldBySomeone(m)
      BY <1>7, <2>2 DEF Retry, SetStatus, TypeOK
    <3>2. copies[m] = 0
      BY <3>1, OutboxAssumption DEF TypeOK
    <3>3. QED
      BY <2>1, <3>1, <3>2, SafeOutside DEF Accepted
  <2>3. CASE m # k
    <3>1. status'[m] = status[m]
      BY <1>7, <2>3 DEF Retry, SetStatus, TypeOK
    <3>2. QED
      BY <2>1, <3>1, SafeOutside
  <2>4. QED
    BY <2>2, <2>3
<1>8. QED
  BY <1>1, <1>2, <1>3, <1>4, <1>5, <1>6, <1>7 DEF Clock, Webhook, Http

LEMMA SafeStep ==
  ASSUME TypeOK, [Next]_vars, NEW m \in Messages, Safe(m), ~excused'[m]
  PROVE  Safe(m)'
<1>1. CASE \E w \in Workers : Poll(w) \/ Dispatch(w) \/ Crash(w)
  BY <1>1, SafePoll, SafeDispatch, SafeCrash
<1>2. CASE Clock \/ Webhook \/ Http \/ (\E k \in Messages : Enqueue(k))
  BY <1>2, SafeEnvironment
<1>3. CASE UNCHANGED vars
  <2>1. UNCHANGED workerVars /\ copies' = copies /\ status' = status /\ wamid' = wamid
    BY <1>3 DEF vars, rowVars, metaVars
  <2>2. QED
    BY <2>1, SafeOutside
<1>4. QED
  BY <1>1, <1>2, <1>3 DEF Next

\* Every reachable row agrees with its holders and with Meta, unless something
\* that makes the outbox at-least-once happened to it.
THEOREM RowInvariant == Spec => []RowInv
<1>1. RowInv <=> \A m \in Messages : ~excused[m] => Safe(m)
  BY DEF RowInv, ExclusiveHold, Safe
<1>2. Init => RowInv
  BY DEF Init, RowInv, ExclusiveHold, RowAgrees, Accepted, HeldBySomeone
<1>3. TypeOK /\ RowInv /\ [Next]_vars => RowInv'
  <2> SUFFICES ASSUME TypeOK, RowInv, [Next]_vars, NEW m \in Messages, ~excused'[m]
               PROVE  Safe(m)'
    BY DEF RowInv, ExclusiveHold, Safe
  <2>1. Safe(m)
    BY <1>1, ExcusedStays
  <2>2. QED
    BY <2>1, SafeStep
<1>4. QED
  BY <1>2, <1>3, TypeCorrect, PTL DEF Spec

\* No row is held by two workers, whatever they interleave, unless the row was
\* taken back from one of them.
THEOREM ExclusiveHolders == Spec => []ExclusiveHold
<1>1. RowInv => ExclusiveHold
  BY DEF RowInv
<1>2. QED
  BY <1>1, RowInvariant, PTL

\* Meta never has two copies of a message to which nothing excusable happened.
THEOREM AtMostOneCopy == Spec => []DuplicateOnlyWhenExcused
<1>1. TypeOK /\ RowInv => DuplicateOnlyWhenExcused
  <2> SUFFICES ASSUME TypeOK, RowInv, NEW m \in Messages, ~excused[m]
               PROVE  copies[m] <= 1
    BY DEF DuplicateOnlyWhenExcused
  <2>1. RowAgrees(m)
    BY DEF RowInv
  <2>2. copies[m] = 0 \/ copies[m] = 1
    BY <2>1 DEF RowAgrees, HeldBySomeone
  <2>3. QED
    BY <2>2
<1>2. QED
  BY <1>1, TypeCorrect, RowInvariant, PTL

(***************************************************************************)
(* A row that waits has an attempt left, a settled row is final, and       *)
(* nobody who left is written to.                                          *)
(***************************************************************************)
Waits(m) == status[m] \in Open \cup {"sending"}
NewRowsAreFresh == \A m \in Messages : status[m] = "absent" => attempts[m] = 0

\* What a step does to the status and the attempts of a row nobody excused.
LEMMA RowChange ==
  ASSUME TypeOK, RowInv, [Next]_vars, NEW m \in Messages, ~excused'[m]
  PROVE  \/ status'[m] = status[m] /\ attempts'[m] = attempts[m]
         \/ Waits(m) /\ Waits(m)' /\ attempts'[m] = attempts[m]
         \/ status[m] = "absent" /\ status'[m] = "queued" /\ attempts'[m] = attempts[m]
         \/ status[m] \in Open /\ status'[m] = "expired" /\ attempts'[m] = attempts[m]
         \/ status'[m] = "queued" /\ attempts'[m] = 0
         \/ status[m] = "sending" /\ status'[m] = "failed" /\ attempts'[m] < MaxAttempts
         \/ status[m] = "sending" /\ status'[m] \in {"sent", "dead"}
         \/ /\ 0 < Progress(status[m]) /\ Progress(status[m]) < Progress(status'[m])
            /\ attempts'[m] = attempts[m]
<1> USE DEF Waits, Open
<1>1. /\ ~excused[m] /\ status \in [Messages -> Statuses] /\ attempts \in [Messages -> Nat]
      /\ RowAgrees(m)
  BY ExcusedStays DEF TypeOK, RowInv
<1>2. ASSUME NEW w \in Workers, Poll(w) \/ Crash(w)
      PROVE  \/ status'[m] = status[m]
             \/ Waits(m) /\ Waits(m)'
             \/ status[m] \in Open /\ status'[m] = "expired"
  BY <1>1, <1>2 DEF Poll, Crash, Tick, MarkExpired, RecoverStuck, MaintenanceFails, Claim, ClaimFails,
     ConnectFails, Expirable, Batch, Claimable, rowVars
<1>3. ASSUME NEW w \in Workers, Poll(w) \/ Crash(w) PROVE attempts'[m] = attempts[m]
  BY <1>3 DEF Poll, Crash, Tick, MarkExpired, RecoverStuck, MaintenanceFails, Claim, ClaimFails,
     ConnectFails, rowVars
<1>4. ASSUME NEW w \in Workers, Dispatch(w)
      PROVE  \/ status'[m] = status[m] /\ attempts'[m] = attempts[m]
             \/ Waits(m) /\ Waits(m)' /\ attempts'[m] = attempts[m]
             \/ status[m] = "sending" /\ status'[m] = "failed" /\ attempts'[m] < MaxAttempts
             \/ status[m] = "sending" /\ status'[m] \in {"sent", "dead"}
  <2>1. CASE RecordVerdict(w)
    <3>1. CASE m # Current(w)
      BY <1>1, <2>1, <3>1 DEF RecordVerdict, SetStatus
    <3>2. CASE m = Current(w)
      <4>1. status[m] = "sending"
        BY <1>1, <2>1, <3>2, CurrentHeld DEF RecordVerdict, Dispatching, RowAgrees
      <4>2. snap[w][m].attempts + 1 \in Nat /\ MaxAttempts \in Nat
        BY TypeOfRow, OutboxAssumption
      <4>3. /\ status'[m] = Outcome(verdict[w], snap[w][m].attempts + 1)
            /\ verdict[w] \notin {"SENT", "GENERIC"} => attempts'[m] = attempts[m]
            /\ verdict[w] = "GENERIC" => attempts'[m] = snap[w][m].attempts + 1
        BY <1>1, <2>1, <3>2 DEF RecordVerdict, SetStatus
      <4> QED BY <4>1, <4>2, <4>3 DEF Outcome, Spent
    <3> QED BY <3>1, <3>2
  <2>2. CASE ~RecordVerdict(w)
    BY <1>4, <2>2 DEF Dispatch, CheckOptIn, CheckDailyCap, SendAccepted, SendTimesOut, SendRejected,
       DispatchThrows, rowVars
  <2> QED BY <2>1, <2>2
<1>5. ASSUME Webhook
      PROVE  /\ attempts'[m] = attempts[m]
             /\ \/ status'[m] = status[m]
                \/ 0 < Progress(status[m]) /\ Progress(status[m]) < Progress(status'[m])
  <2>1. ASSUME NEW k \in Messages, NEW n \in 1 .. MaxCopies,
               StatusDelivered(k, n) \/ StatusRead(k, n) \/ StatusSent(k, n)
        PROVE  \/ status'[m] = status[m]
               \/ 0 < Progress(status[m]) /\ Progress(status[m]) < Progress(status'[m])
    <3>1. CASE k # m \/ wamid[k] # n
      BY <1>1, <2>1, <3>1 DEF StatusDelivered, StatusRead, StatusSent, SetStatus
    <3>2. CASE k = m /\ wamid[k] = n
      <4>1. status[m] \in Accepted
        BY <1>1, <3>2 DEF RowAgrees
      <4>2. status'[m] \in {OnDelivered(status[m]), "read", OnSent(status[m])}
        BY <1>1, <2>1, <3>2 DEF StatusDelivered, StatusRead, StatusSent, SetStatus
      <4> QED BY <4>1, <4>2 DEF Accepted, OnDelivered, OnSent, Progress
    <3> QED BY <3>1, <3>2
  <2>2. ASSUME NEW k \in Messages, NEW n \in 1 .. MaxCopies, StatusFailed(k, n)
        PROVE  status'[m] = status[m]
    <3>1. excused \in [Messages -> BOOLEAN]
      BY DEF TypeOK
    <3> QED BY <1>1, <2>2, <3>1 DEF StatusFailed, SetStatus
  <2>3. CASE \E r \in Recipients : Stop(r) \/ Start(r)
    BY <2>3 DEF Stop, Start, Withdraw, rowVars
  <2>4. attempts' = attempts
    BY <1>5 DEF Webhook, StatusDelivered, StatusRead, StatusSent, StatusFailed, Stop, Start, Withdraw,
       rowVars
  <2> QED BY <1>5, <2>1, <2>2, <2>3, <2>4 DEF Webhook
<1>6. ASSUME Clock \/ Http \/ (\E k \in Messages : Enqueue(k)) \/ UNCHANGED vars
      PROVE  \/ status'[m] = status[m] /\ attempts'[m] = attempts[m]
             \/ status[m] = "absent" /\ status'[m] = "queued" /\ attempts'[m] = attempts[m]
             \/ status'[m] = "queued" /\ attempts'[m] = 0
  BY <1>1, <1>6 DEF Clock, BackoffElapses, TtlElapses, VisibilityElapses, MinuteElapses, Http,
     DeleteRecipient, Withdraw, Retry, Enqueue, SetStatus, vars, rowVars
<1> QED BY <1>2, <1>3, <1>4, <1>5, <1>6 DEF Next

LEMMA StrandStep ==
  ASSUME TypeOK, RowInv, NoStrandedRow, NewRowsAreFresh, [Next]_vars
  PROVE  NoStrandedRow'
<1> SUFFICES ASSUME NEW m \in Messages, Waits(m)', ~excused'[m] PROVE attempts'[m] < MaxAttempts
  BY DEF NoStrandedRow, Waits
<1>1. ~excused[m] /\ MaxAttempts \in Nat \ {0}
  BY ExcusedStays, OutboxAssumption
<1>2. Waits(m) => attempts[m] < MaxAttempts
  BY <1>1 DEF NoStrandedRow, Waits
<1>3. status[m] = "absent" => attempts[m] < MaxAttempts
  BY <1>1 DEF NewRowsAreFresh
<1>4. ~(0 < Progress(status[m]) /\ Progress(status[m]) < Progress(status'[m]))
  BY DEF Progress, Waits, Open
<1>5. /\ status'[m] \notin {"expired", "sent", "dead"}
      /\ status'[m] = status[m] => Waits(m)
  BY DEF Waits, Open
<1> QED BY <1>1, <1>2, <1>3, <1>4, <1>5, RowChange

\* A row never becomes absent again.
LEMMA FreshStep ==
  ASSUME TypeOK, NewRowsAreFresh, [Next]_vars
  PROVE  NewRowsAreFresh'
<1> SUFFICES ASSUME NEW m \in Messages, status'[m] = "absent"
             PROVE  status[m] = "absent" /\ attempts'[m] = attempts[m]
  BY DEF NewRowsAreFresh
<1>1. status \in [Messages -> Statuses] /\ attempts \in [Messages -> Nat]
  BY DEF TypeOK
<1>2. ASSUME NEW w \in Workers, Poll(w) \/ Crash(w)
      PROVE  status[m] = "absent" /\ attempts'[m] = attempts[m]
  BY <1>1, <1>2 DEF Poll, Crash, Tick, MarkExpired, RecoverStuck, MaintenanceFails, Claim, ClaimFails,
     ConnectFails, rowVars
<1>3. ASSUME NEW w \in Workers, Dispatch(w)
      PROVE  status[m] = "absent" /\ attempts'[m] = attempts[m]
  <2>1. CASE RecordVerdict(w)
    BY <1>1, <2>1 DEF RecordVerdict, SetStatus, Outcome
  <2>2. CASE ~RecordVerdict(w)
    BY <1>3, <2>2 DEF Dispatch, CheckOptIn, CheckDailyCap, SendAccepted, SendTimesOut, SendRejected,
       DispatchThrows, rowVars
  <2> QED BY <2>1, <2>2
<1>4. CASE Webhook
  <2>1. attempts' = attempts
    BY <1>4 DEF Webhook, StatusDelivered, StatusRead, StatusSent, StatusFailed, Stop, Start, Withdraw,
       rowVars
  <2>2. \A s \in Statuses : OnDelivered(s) # "absent" /\ OnSent(s) # "absent"
    BY DEF OnDelivered, OnSent, Statuses, Settled, Accepted, Open
  <2>3. status[m] = "absent"
    BY <1>1, <1>4, <2>2 DEF Webhook, StatusDelivered, StatusRead, StatusSent, StatusFailed, SetStatus,
       Stop, Start, Withdraw, rowVars
  <2> QED BY <2>1, <2>3
<1>5. CASE Clock \/ Http \/ (\E k \in Messages : Enqueue(k)) \/ UNCHANGED vars
  BY <1>1, <1>5 DEF Clock, BackoffElapses, TtlElapses, VisibilityElapses, MinuteElapses, Http,
     DeleteRecipient, Withdraw, Retry, Enqueue, SetStatus, vars, rowVars
<1> QED BY <1>2, <1>3, <1>4, <1>5 DEF Next

\* A row that waits for another attempt has one left, whatever happened to other
\* rows and whatever the budget (whatsappWorker.js:373-419).
THEOREM NeverParked == Spec => []NoStrandedRow
<1>1. Init => NoStrandedRow /\ NewRowsAreFresh
  BY OutboxAssumption DEF Init, NoStrandedRow, NewRowsAreFresh, Open
<1>2. (NoStrandedRow /\ NewRowsAreFresh) /\ (TypeOK /\ RowInv) /\ [Next]_vars
        => (NoStrandedRow /\ NewRowsAreFresh)'
  BY StrandStep, FreshStep
<1> QED BY <1>1, <1>2, TypeCorrect, RowInvariant, PTL DEF Spec

\* A settled row that nobody excused only moves on from sent to delivered to read,
\* in any order of callbacks and with any number of workers, or is reopened by the
\* operator (whatsappWebhookController.js:108-136).
THEOREM SettledIsFinal == Spec => SettledStays
<1> DEFINE Final == \A m \in Messages :
                      status[m] \in Settled /\ status'[m] # status[m] /\ ~excused'[m] =>
                        \/ status'[m] = "queued" /\ attempts'[m] = 0
                        \/ 0 < Progress(status[m]) /\ Progress(status[m]) < Progress(status'[m])
<1>1. TypeOK /\ RowInv /\ [Next]_vars => Final
  <2> SUFFICES ASSUME TypeOK, RowInv, [Next]_vars, NEW m \in Messages, status[m] \in Settled,
                      status'[m] # status[m], ~excused'[m]
               PROVE  \/ status'[m] = "queued" /\ attempts'[m] = 0
                      \/ 0 < Progress(status[m]) /\ Progress(status[m]) < Progress(status'[m])
    OBVIOUS
  <2> QED BY RowChange DEF Waits, Settled, Accepted, Open
<1>2. TypeOK /\ RowInv /\ [Next]_vars => [Final]_vars
  BY <1>1
<1> QED BY <1>2, TypeCorrect, RowInvariant, PTL DEF Spec, SettledStays

(***************************************************************************)
(* The outbox implements MessageLifecycle.  RowChange says what happens to *)
(* the row; what the abstract moves ask beyond it follows from the         *)
(* invariants before and after the step, and from SnapAgrees.              *)
(***************************************************************************)
\* What a worker read of a row it holds is still what the row says, so writing
\* the number read plus one charges exactly one try.
SnapAgrees ==
  \A w \in Workers, m \in Messages :
    m \in held[w] /\ ~excused[m] => snap[w][m].attempts = attempts[m]

LEMMA SnapStep ==
  ASSUME TypeOK, RowInv, SnapAgrees, [Next]_vars
  PROVE  SnapAgrees'
<1> SUFFICES ASSUME NEW w \in Workers, NEW m \in Messages, m \in held'[w], ~excused'[m]
             PROVE  snap'[w][m].attempts = attempts'[m]
  BY DEF SnapAgrees
<1>1. /\ ~excused[m] /\ attempts \in [Messages -> Nat] /\ held \in [Workers -> SUBSET Messages]
      /\ snap \in [Workers -> [Messages -> [attempts : Nat, linked : BOOLEAN]]]
      /\ \A v \in Workers : m \in held[v] /\ m \in held[w] => v = w
  BY ExcusedStays DEF TypeOK, RowInv, ExclusiveHold
<1>2. ASSUME m \in held[w], snap'[w][m] = snap[w][m], attempts'[m] = attempts[m]
      PROVE  snap'[w][m].attempts = attempts'[m]
  BY <1>1, <1>2 DEF SnapAgrees
<1>3. ASSUME NEW v \in Workers, Claim(v) PROVE snap'[w][m].attempts = attempts'[m]
  <2>1. CASE v = w
    BY <1>1, <1>3, <2>1 DEF Claim
  <2>2. CASE v # w
    BY <1>1, <1>2, <1>3, <2>2 DEF Claim
  <2> QED BY <2>1, <2>2
<1>4. ASSUME NEW v \in Workers, Advance(v), Dispatching(v),
             attempts'[m] = attempts[m] \/ m = Current(v)
      PROVE  snap'[w][m].attempts = attempts'[m]
  <2>1. Current(v) \in held[v] /\ Current(v) \in Messages
    BY <1>4, CurrentHeld
  <2>2. m \in held[w] /\ (v = w => m # Current(v))
    BY <1>1, <1>4 DEF Advance
  <2>3. m # Current(v)
    BY <1>1, <2>1, <2>2
  <2>4. snap'[w][m] = snap[w][m]
    BY <1>1, <1>4, <2>1, <2>3 DEF Advance
  <2> QED BY <1>2, <1>4, <2>2, <2>3, <2>4
<1>5. ASSUME NEW v \in Workers, Crash(v) PROVE snap'[w][m].attempts = attempts'[m]
  <2>1. w # v
    BY <1>1, <1>5 DEF Crash
  <2> QED BY <1>1, <1>2, <1>5, <2>1 DEF Crash, rowVars
<1>6. ASSUME NEW v \in Workers, RecordVerdict(v) PROVE snap'[w][m].attempts = attempts'[m]
  <2>1. Dispatching(v) /\ Advance(v)
    BY <1>6 DEF RecordVerdict, Dispatching
  <2>2. attempts'[m] = attempts[m] \/ m = Current(v)
    BY <1>1, <1>6 DEF RecordVerdict
  <2> QED BY <1>4, <2>1, <2>2
<1>7. ASSUME NEW v \in Workers, DispatchThrows(v) PROVE snap'[w][m].attempts = attempts'[m]
  BY <1>4, <1>7 DEF DispatchThrows, Dispatching, rowVars
<1>8. ASSUME NEW k \in Messages, Retry(k) PROVE snap'[w][m].attempts = attempts'[m]
  <2>1. m \in held[w] /\ snap'[w][m] = snap[w][m]
    BY <1>8 DEF Retry, workerVars
  <2>2. excused \in [Messages -> BOOLEAN] /\ HeldBySomeone(m)
    BY <2>1 DEF TypeOK, HeldBySomeone
  <2>3. k # m
    BY <1>8, <2>2 DEF Retry
  <2> QED BY <1>1, <1>2, <1>8, <2>1, <2>3 DEF Retry
<1>9. CASE UNCHANGED <<held, snap, attempts>>
  BY <1>2, <1>9
<1>10. \/ UNCHANGED <<held, snap, attempts>>
       \/ \E k \in Messages : Retry(k)
       \/ \E v \in Workers : Claim(v) \/ Crash(v) \/ RecordVerdict(v) \/ DispatchThrows(v)
  BY DEF Next, Poll, Tick, MarkExpired, RecoverStuck, MaintenanceFails, ClaimFails, ConnectFails, GoTo,
     Dispatch, CheckOptIn, CheckDailyCap, SendAccepted, SendTimesOut, SendRejected, Decide, Clock,
     BackoffElapses, TtlElapses, VisibilityElapses, MinuteElapses, Webhook, StatusDelivered, StatusRead,
     StatusSent, StatusFailed, Stop, Start, Withdraw, Http, DeleteRecipient, Enqueue, vars, rowVars,
     workerVars
<1> QED BY <1>3, <1>5, <1>6, <1>7, <1>8, <1>9, <1>10

\* The attempts a worker read when it claimed a row it still holds are the row's
\* attempts, for any workers: a failed send is charged once, never to a stale
\* count (whatsappWorker.js:373-419).
THEOREM SnapshotsAreCurrent == Spec => []SnapAgrees
<1>1. Init => SnapAgrees
  BY DEF Init, SnapAgrees
<1>2. SnapAgrees /\ (TypeOK /\ RowInv) /\ [Next]_vars => SnapAgrees'
  BY SnapStep
<1> QED BY <1>1, <1>2, TypeCorrect, RowInvariant, PTL DEF Spec

\* A failed attempt is charged one try or none.
LEMMA OneTryCharged ==
  ASSUME TypeOK, RowInv, SnapAgrees, [Next]_vars, NEW m \in Messages, ~excused'[m],
         status[m] = "sending", status'[m] = "failed"
  PROVE  attempts'[m] \in {attempts[m], attempts[m] + 1}
<1>1. /\ ~excused[m] /\ status \in [Messages -> Statuses] /\ attempts \in [Messages -> Nat]
      /\ excused \in [Messages -> BOOLEAN]
  BY ExcusedStays DEF TypeOK
<1>2. ASSUME NEW w \in Workers, RecordVerdict(w) PROVE attempts'[m] \in {attempts[m], attempts[m] + 1}
  <2>1. CASE m # Current(w)
    BY <1>1, <1>2, <2>1 DEF RecordVerdict
  <2>2. CASE m = Current(w)
    <3>1. m \in held[w]
      BY <1>2, <2>2, CurrentHeld DEF RecordVerdict, Dispatching
    <3>2. snap[w][m].attempts = attempts[m]
      BY <1>1, <3>1 DEF SnapAgrees
    <3> QED BY <1>1, <1>2, <2>2, <3>2 DEF RecordVerdict
  <2> QED BY <2>1, <2>2
<1>3. CASE \A w \in Workers : ~RecordVerdict(w)
  <2>1. CASE attempts'[m] = attempts[m]
    BY <2>1
  <2>2. ASSUME NEW k \in Messages, Retry(k) PROVE attempts'[m] = attempts[m]
    BY <1>1, <2>2 DEF Retry, SetStatus
  <2>3. attempts' = attempts \/ \E k \in Messages : Retry(k)
    BY <1>3 DEF Next, Poll, Tick, MarkExpired, RecoverStuck, MaintenanceFails, Claim, ClaimFails,
       ConnectFails, Dispatch, CheckOptIn, CheckDailyCap, SendAccepted, SendTimesOut, SendRejected,
       DispatchThrows, Crash, Clock, BackoffElapses, TtlElapses, VisibilityElapses, MinuteElapses,
       Webhook, StatusDelivered, StatusRead, StatusSent, StatusFailed, Stop, Start, Withdraw, Http,
       DeleteRecipient, Enqueue, vars, rowVars
  <2> QED BY <2>1, <2>2, <2>3
<1> QED BY <1>2, <1>3

\* Only the worker that is at an unexcused row hands it over, and the row stays
\* as it is.
LEMMA HandedOver ==
  ASSUME TypeOK, RowInv, [Next]_vars, NEW m \in Messages, ~excused'[m], copies'[m] # copies[m]
  PROVE  /\ status[m] = "sending" /\ status'[m] = "sending" /\ attempts'[m] = attempts[m]
         /\ copies[m] = 0 /\ copies'[m] = 1
<1>1. ~excused[m] /\ RowAgrees(m) /\ excused \in [Messages -> BOOLEAN]
  BY ExcusedStays DEF TypeOK, RowInv
<1>2. PICK w \in Workers : SendAccepted(w) \/ SendTimesOut(w)
  BY DEF Next, Poll, Dispatch, Crash, Tick, MarkExpired, RecoverStuck, MaintenanceFails, Claim,
     ClaimFails, ConnectFails, CheckOptIn, CheckDailyCap, SendRejected, RecordVerdict, DispatchThrows,
     Clock, BackoffElapses, TtlElapses, VisibilityElapses, MinuteElapses, Webhook, StatusDelivered,
     StatusRead, StatusSent, StatusFailed, Stop, Start, Withdraw, Http, DeleteRecipient, Retry,
     Enqueue, vars, metaVars
<1>3. pc[w] = "send" /\ UNCHANGED rowVars /\ Accept(Current(w))
  BY <1>2 DEF SendAccepted, SendTimesOut
<1>4. Current(w) \in held[w]
  BY <1>3, CurrentHeld DEF Dispatching
<1>5. m = Current(w) /\ copies'[m] = copies[m] + 1
  BY <1>3 DEF Accept, TypeOK
<1>6. status[m] = "sending" /\ copies[m] = 0
  BY <1>1, <1>3, <1>4, <1>5 DEF RowAgrees, Unstored
<1> QED BY <1>3, <1>5, <1>6 DEF rowVars

\* What the mapping makes of a row.
LEMMA Mapped ==
  ASSUME NEW m \in Messages
  PROVE  /\ LifePhases[m] = LifePhase(m) /\ LifePhases'[m] = LifePhase(m)'
         /\ LifeTries[m] = IF LifePhase(m) \in {"waiting", "attempting"} THEN attempts[m] ELSE 0
         /\ LifeTries'[m] = IF LifePhase(m)' \in {"waiting", "attempting"} THEN attempts'[m] ELSE 0
         /\ LifeGiven[m] = IF excused[m] THEN 0 ELSE copies[m]
         /\ LifeGiven'[m] = IF excused'[m] THEN 0 ELSE copies'[m]
BY DEF LifePhases, LifeTries, LifeGiven

\* Only a message that is being sent or was accepted is ever excused.
LEMMA Disturbed ==
  ASSUME TypeOK, RowInv, [Next]_vars, NEW m \in Messages, ~excused[m], excused'[m]
  PROVE  status[m] \in Accepted \cup {"sending"}
<1>1. /\ RowAgrees(m) /\ status \in [Messages -> Statuses] /\ copies[m] \in Nat
      /\ held \in [Workers -> SUBSET Messages]
  BY OutboxAssumption DEF TypeOK, RowInv
<1>2. HeldBySomeone(m) => status[m] = "sending"
  BY <1>1 DEF RowAgrees, HeldBySomeone
<1>3. copies[m] > 0 => status[m] \in Accepted \cup {"sending"}
  BY <1>1 DEF RowAgrees
<1>4. ASSUME NEW w \in Workers, SendTimesOut(w) PROVE HeldBySomeone(m)
  <2>1. Current(w) \in held[w]
    BY <1>4, CurrentHeld DEF SendTimesOut, Dispatching
  <2>2. m = Current(w)
    BY <1>4 DEF SendTimesOut, TypeOK
  <2> QED BY <2>1, <2>2 DEF HeldBySomeone
<1>5. ASSUME NEW w \in Workers, RecoverStuck(w) \/ DispatchThrows(w) \/ Crash(w)
      PROVE  HeldBySomeone(m)
  BY <1>5 DEF RecoverStuck, DispatchThrows, Crash, Unstored, HeldBySomeone
<1>6. ASSUME NEW k \in Messages, Retry(k) PROVE copies[m] > 0 \/ HeldBySomeone(m)
  BY <1>6 DEF Retry, TypeOK
<1>7. ASSUME NEW k \in Messages, NEW n \in 1 .. MaxCopies, StatusFailed(k, n)
      PROVE  status[m] \in Accepted
  <2>1. m = k /\ wamid[m] = n /\ n # 0
    BY <1>7 DEF StatusFailed, TypeOK
  <2> QED BY <1>1, <2>1 DEF RowAgrees
<1>8. \/ excused' = excused
      \/ \E w \in Workers : SendTimesOut(w) \/ RecoverStuck(w) \/ DispatchThrows(w) \/ Crash(w)
      \/ \E k \in Messages : Retry(k)
      \/ \E k \in Messages, n \in 1 .. MaxCopies : StatusFailed(k, n)
  BY DEF Next, Poll, Dispatch, Tick, MarkExpired, MaintenanceFails, Claim, ClaimFails, ConnectFails,
     CheckOptIn, CheckDailyCap, SendAccepted, SendRejected, RecordVerdict, Clock, BackoffElapses,
     TtlElapses, VisibilityElapses, MinuteElapses, Webhook, StatusDelivered, StatusRead, StatusSent,
     Stop, Start, Withdraw, Http, DeleteRecipient, Enqueue, vars
<1> QED BY <1>2, <1>3, <1>4, <1>5, <1>6, <1>7, <1>8

\* Every step moves a message as its lifecycle allows.
LEMMA MessageMoves ==
  ASSUME TypeOK, TypeOK', RowInv, RowInv', NoStrandedRow, NoStrandedRow', NewRowsAreFresh,
         SnapAgrees, [Next]_vars, NEW m \in Messages
  PROVE  Lifecycle!Move(m) \/ Lifecycle!Stays(m)
<1> USE DEF Lifecycle!Becomes
<1>0. /\ status[m] \in Statuses /\ attempts[m] \in Nat /\ status'[m] \in Statuses
      /\ attempts'[m] \in Nat /\ MaxAttempts \in Nat
  BY OutboxAssumption DEF TypeOK
<1>1. CASE excused[m]
  <2>1. excused'[m]
    BY <1>1, ExcusedStays
  <2> QED BY <1>1, <2>1, Mapped DEF LifePhase, Lifecycle!Stays
<1>2. CASE ~excused[m] /\ excused'[m]
  <2>1. LifePhase(m) \in {"attempting", "sent", "delivered", "read"}
    BY <1>2, Disturbed DEF LifePhase, Accepted, Open
  <2> QED BY <1>2, <2>1, Mapped DEF LifePhase, Lifecycle!Disturb, Lifecycle!Move
<1>3. CASE ~excused'[m]
  <2>1. /\ ~excused[m] /\ RowAgrees(m) /\ RowAgrees(m)'
        /\ (Waits(m) => attempts[m] < MaxAttempts)
        /\ (Waits(m)' => attempts'[m] < MaxAttempts)
    BY <1>3, ExcusedStays DEF RowInv, NoStrandedRow, Waits
  <2>2. /\ LifeGiven[m] = copies[m] /\ LifeGiven'[m] = copies'[m]
        /\ status[m] \in Accepted => copies[m] = 1
        /\ status[m] \notin Accepted \cup {"sending"} => copies[m] = 0
        /\ status'[m] \in Accepted => copies'[m] = 1
        /\ status'[m] \notin Accepted \cup {"sending"} => copies'[m] = 0
    BY <1>3, <2>1, Mapped DEF RowAgrees
  <2> DEFINE Named(s) == IF s \in Open THEN "waiting" ELSE IF s = "sending" THEN "attempting"
                         ELSE IF s = "absent" THEN "none" ELSE s
  <2>3. LifePhases[m] = Named(status[m]) /\ LifePhases'[m] = Named(status'[m])
    BY <1>3, <2>1, Mapped DEF LifePhase
  <2>4. /\ LifeTries[m] = IF Waits(m) THEN attempts[m] ELSE 0
        /\ LifeTries'[m] = IF Waits(m)' THEN attempts'[m] ELSE 0
    BY <1>0, <1>3, <2>1, Mapped DEF LifePhase, Waits, Statuses, Settled, Accepted
  <2>5. CASE copies'[m] # copies[m]
    <3>1. Lifecycle!HandOver(m)
      BY <1>3, <2>2, <2>3, <2>4, <2>5, HandedOver DEF Lifecycle!HandOver, Waits, Open
    <3> QED BY <3>1 DEF Lifecycle!Move
  <2>6. CASE copies'[m] = copies[m]
    <3> USE <1>0, <2>1, <2>2, <2>3, <2>4, <2>6 DEF Lifecycle!Move
    <3>1. CASE status'[m] = status[m] /\ attempts'[m] = attempts[m]
      BY <3>1 DEF Lifecycle!Stays, Waits
    <3>2. CASE Waits(m) /\ Waits(m)' /\ attempts'[m] = attempts[m]
      <4>1. CASE status[m] \in Open /\ status'[m] = "sending"
        BY <3>2, <4>1 DEF Lifecycle!Attempt, Open
      <4>2. CASE status[m] = "sending" /\ status'[m] \in Open
        BY <3>2, <4>2 DEF Lifecycle!GiveBack, Open, Accepted
      <4>3. CASE Named(status'[m]) = Named(status[m])
        BY <3>2, <4>3 DEF Lifecycle!Stays
      <4> QED BY <3>2, <4>1, <4>2, <4>3 DEF Waits
    <3>3. CASE status[m] = "absent" /\ status'[m] = "queued" /\ attempts'[m] = attempts[m]
      BY <3>3 DEF Lifecycle!Queue, NewRowsAreFresh, Waits, Open, Accepted
    <3>4. CASE status[m] \in Open /\ status'[m] = "expired" /\ attempts'[m] = attempts[m]
      BY <3>4 DEF Lifecycle!Expire, Waits, Open, Accepted
    <3>5. CASE status'[m] = "queued" /\ attempts'[m] = 0
      <4>1. LifePhases'[m] = "waiting" /\ LifeTries'[m] = 0 /\ LifeGiven'[m] = 0 /\ LifeGiven[m] = 0
        BY <3>5 DEF Waits, Open, Accepted
      <4>2. LifePhases[m] \in {"none", "waiting", "attempting", "dead", "expired"}
        BY <4>1 DEF Statuses, Settled, Accepted, Open
      <4> QED BY <4>1, <4>2 DEF Lifecycle!Queue, Lifecycle!Reopen
    <3>6. CASE status[m] = "sending" /\ status'[m] = "failed" /\ attempts'[m] < MaxAttempts
      <4>1. attempts'[m] \in {attempts[m], attempts[m] + 1}
        BY <1>3, <3>6, OneTryCharged
      <4> QED BY <3>6, <4>1 DEF Lifecycle!GiveBack, Waits, Open, Accepted
    <3>7. CASE status[m] = "sending" /\ status'[m] = "sent"
      BY <3>7 DEF Lifecycle!Settle, Waits, Open, Accepted
    <3>8. CASE status[m] = "sending" /\ status'[m] = "dead"
      BY <3>8 DEF Lifecycle!GiveUp, Waits, Open, Accepted
    <3>9. CASE 0 < Progress(status[m]) /\ Progress(status[m]) < Progress(status'[m])
      <4>1. \/ status[m] = "sent" /\ status'[m] = "delivered"
            \/ status[m] \in {"sent", "delivered"} /\ status'[m] = "read"
        BY <3>9 DEF Progress, Statuses, Settled, Accepted, Open
      <4> QED BY <4>1 DEF Lifecycle!Report, Waits, Open, Accepted
    <3> QED BY <1>3, <3>1, <3>2, <3>3, <3>4, <3>5, <3>6, <3>7, <3>8, <3>9, RowChange
  <2> QED BY <2>5, <2>6
<1> QED BY <1>1, <1>2, <1>3

\* The mapping has the types of the lifecycle.
LEMMA MappedTypes ==
  ASSUME TypeOK, RowInv
  PROVE  /\ LifePhases \in [Messages -> Lifecycle!Phases]
         /\ LifeTries \in [Messages -> Nat]
         /\ LifeGiven \in [Messages -> {0, 1}]
<1>1. \A m \in Messages : status[m] \in Statuses /\ attempts[m] \in Nat
  BY DEF TypeOK
<1>2. \A m \in Messages : LifePhase(m) \in Lifecycle!Phases
  BY <1>1 DEF LifePhase, Statuses, Settled, Accepted, Open, Lifecycle!Phases
<1>3. ASSUME NEW m \in Messages, ~excused[m] PROVE copies[m] \in {0, 1}
  BY <1>3 DEF RowInv, RowAgrees, HeldBySomeone
<1> QED BY <1>1, <1>2, <1>3 DEF LifePhases, LifeTries, LifeGiven

\* The outbox implements MessageLifecycle for any rows, recipients, workers, budget,
\* cap and faults: every statement of the worker, the webhook, the operator and the
\* clock moves every message as its lifecycle allows (whatsappWorker.js:49-440).
THEOREM OutboxImplementsLifecycle == Spec => Implements
<1> DEFINE Inv == TypeOK /\ RowInv /\ NoStrandedRow /\ NewRowsAreFresh /\ SnapAgrees
           Typed == /\ LifePhases \in [Messages -> Lifecycle!Phases]
                    /\ LifeTries \in [Messages -> Nat]
                    /\ LifeGiven \in [Messages -> {0, 1}]
<1>1. Init => Lifecycle!Init
  BY DEF Init, Lifecycle!Init, LifePhases, LifePhase, LifeTries, LifeGiven, Open
<1>2. Init => Inv
  <2>1. Init => NoStrandedRow /\ NewRowsAreFresh /\ SnapAgrees
    BY OutboxAssumption DEF Init, NoStrandedRow, NewRowsAreFresh, SnapAgrees, Open
  <2>2. Init => RowInv
    BY DEF Init, RowInv, ExclusiveHold, RowAgrees, Accepted, HeldBySomeone
  <2> QED BY <2>1, <2>2, TypeInit
<1>3. Inv /\ [Next]_vars => Inv'
  <2>1. TypeOK /\ RowInv /\ [Next]_vars => RowInv'
    <3> SUFFICES ASSUME TypeOK, RowInv, [Next]_vars, NEW m \in Messages, ~excused'[m]
                 PROVE  Safe(m)'
      BY DEF RowInv, ExclusiveHold, Safe
    <3>1. Safe(m)
      BY ExcusedStays DEF RowInv, ExclusiveHold, Safe
    <3> QED BY <3>1, SafeStep
  <2> QED BY <2>1, TypeStep, StrandStep, FreshStep, SnapStep
<1>4. Inv => Typed
  BY MappedTypes
<1>5. Inv /\ Inv' /\ Typed' /\ [Next]_vars => [Lifecycle!Next]_(Lifecycle!vars)
  <2> SUFFICES ASSUME Inv, Inv', Typed', [Next]_vars PROVE Lifecycle!Next
    OBVIOUS
  <2>1. \A m \in Messages : Lifecycle!Move(m) \/ Lifecycle!Stays(m)
    BY MessageMoves
  <2> QED BY <2>1 DEF Lifecycle!Next
<1> HIDE DEF Inv, Typed
<1> QED BY <1>1, <1>2, <1>3, <1>4, <1>5, PTL DEF Spec, Implements, Lifecycle!Spec

\* Past the check a worker's recipient is still in, or left since.
Welcome(w) == pc[w] \in {"cap", "send"} => OptedIn(RecipientOf[Current(w)]) \/ raced[w]

LEMMA WelcomeStep ==
  ASSUME TypeOK, \A w \in Workers : Welcome(w), [Next]_vars
  PROVE  \A w \in Workers : Welcome(w)'
<1> SUFFICES ASSUME NEW w \in Workers, pc'[w] \in {"cap", "send"}
             PROVE  OptedIn(RecipientOf[Current(w)])' \/ raced'[w]
  BY DEF Welcome
<1> DEFINE Recipient == RecipientOf[Current(w)]
<1>0. /\ pc \in [Workers -> Places] /\ raced \in [Workers -> BOOLEAN]
      /\ consent \in [Recipients -> {"in", "out", "deleted"}] /\ held \in [Workers -> SUBSET Messages]
  BY DEF TypeOK
<1>1. ASSUME pc'[w] = pc[w], held'[w] = held[w], raced'[w] = raced[w], consent' = consent
      PROVE  OptedIn(RecipientOf[Current(w)])' \/ raced'[w]
  BY <1>1, CurrentFrame DEF Welcome, OptedIn
<1>2. ASSUME NEW v \in Workers, Poll(v) \/ Dispatch(v) \/ Crash(v)
      PROVE  OptedIn(RecipientOf[Current(w)])' \/ raced'[w]
  <2>1. CASE v # w
    <3>1. pc'[w] = pc[w] /\ held'[w] = held[w] /\ raced'[w] = raced[w] /\ consent' = consent
      BY <1>0, <1>2, <2>1 DEF Poll, Dispatch, Crash, Tick, MarkExpired, RecoverStuck, MaintenanceFails,
         Claim, ClaimFails, ConnectFails, GoTo, CheckOptIn, CheckDailyCap, SendAccepted, SendTimesOut,
         SendRejected, Decide, RecordVerdict, DispatchThrows, Advance
    <3> QED BY <1>1, <3>1
  <2>2. CASE v = w
    <3>1. CASE CheckOptIn(w)
      <4>1. held'[w] = held[w] /\ consent' = consent /\ OptedIn(Recipient)
        BY <1>0, <3>1 DEF CheckOptIn, Decide
      <4> QED BY <4>1, CurrentFrame DEF OptedIn
    <3>2. CASE CheckDailyCap(w)
      <4>1. pc[w] = "cap" /\ held'[w] = held[w] /\ consent' = consent /\ raced'[w] = raced[w]
        BY <3>2 DEF CheckDailyCap, Decide, GoTo
      <4> QED BY <4>1, CurrentFrame DEF Welcome, OptedIn
    <3>3. CASE ~CheckOptIn(w) /\ ~CheckDailyCap(w)
      <4>1. pc'[w] \notin {"cap", "send"}
        BY <1>0, <1>2, <2>2, <3>3 DEF Poll, Dispatch, Crash, Tick, MarkExpired, RecoverStuck,
           MaintenanceFails, Claim, ClaimFails, ConnectFails, GoTo, SendAccepted, SendTimesOut,
           SendRejected, Decide, RecordVerdict, DispatchThrows, Advance, Continue
      <4> QED BY <4>1
    <3> QED BY <3>1, <3>2, <3>3
  <2> QED BY <2>1, <2>2
<1>3. ASSUME NEW r \in Recipients, NEW c \in {"out", "deleted"}, Withdraw(r, c)
      PROVE  OptedIn(RecipientOf[Current(w)])' \/ raced'[w]
  <2>1. pc'[w] = pc[w] /\ held'[w] = held[w] /\ Current(w)' = Current(w)
    BY <1>3, CurrentFrame DEF Withdraw, workerVars
  <2>2. CASE Recipient = r
    BY <1>3, <2>1, <2>2 DEF Withdraw
  <2>3. CASE Recipient # r
    <3>1. Recipient \in Recipients
      BY <2>1, CurrentHeld, OutboxAssumption DEF Dispatching
    <3> QED BY <1>0, <1>3, <2>1, <2>3, <3>1 DEF Withdraw, OptedIn, Welcome
  <2> QED BY <2>2, <2>3
<1>4. ASSUME NEW r \in Recipients, Start(r)
      PROVE  OptedIn(RecipientOf[Current(w)])' \/ raced'[w]
  <2>1. pc'[w] = pc[w] /\ held'[w] = held[w] /\ Current(w)' = Current(w) /\ raced'[w] = raced[w]
    BY <1>4, CurrentFrame DEF Start, workerVars
  <2>2. Recipient \in Recipients
    BY <2>1, CurrentHeld, OutboxAssumption DEF Dispatching
  <2> QED BY <1>0, <1>4, <2>1, <2>2 DEF Start, OptedIn, Welcome
<1>5. CASE Clock \/ (\E m \in Messages : Enqueue(m) \/ Retry(m)) \/ UNCHANGED vars
           \/ \E m \in Messages, n \in 1 .. MaxCopies :
                StatusDelivered(m, n) \/ StatusRead(m, n) \/ StatusSent(m, n) \/ StatusFailed(m, n)
  <2>1. pc'[w] = pc[w] /\ held'[w] = held[w] /\ raced'[w] = raced[w] /\ consent' = consent
    BY <1>5 DEF Clock, BackoffElapses, TtlElapses, VisibilityElapses, MinuteElapses, Enqueue, Retry,
       StatusDelivered, StatusRead, StatusSent, StatusFailed, vars, workerVars
  <2> QED BY <1>1, <2>1
<1>6. ASSUME NEW r \in Recipients, Stop(r) \/ DeleteRecipient(r)
      PROVE  \E c \in {"out", "deleted"} : Withdraw(r, c)
  BY <1>6 DEF Stop, DeleteRecipient
<1> HIDE DEF Recipient
<1> QED BY <1>2, <1>3, <1>4, <1>5, <1>6 DEF Next, Webhook, Http

\* Meta is handed a message only for a recipient who is opted in, or who left
\* between the worker's check and its call (whatsappWorker.js:252-335).
THEOREM LeaversAreSpared == Spec => OptOutRespected
<1> DEFINE Spared == \A w \in Workers :
                       pc[w] = "send" /\ copies' # copies /\ pc'[w] = "write" =>
                         consent[RecipientOf[Current(w)]] = "in" \/ raced[w]
           Inv == \A w \in Workers : Welcome(w)
<1>1. Init => Inv
  BY DEF Init, Welcome
<1>2. TypeOK /\ Inv /\ [Next]_vars => Inv'
  BY WelcomeStep
<1>3. Inv /\ [Next]_vars => [Spared]_vars
  BY DEF Welcome, OptedIn
<1> HIDE DEF Inv
<1> QED BY <1>1, <1>2, <1>3, TypeCorrect, PTL DEF Spec, OptOutRespected

(***************************************************************************)
(* The daily cap, for one worker process.                                  *)
(***************************************************************************)
SoleWorker   == \A v, w \in Workers : v = w
Untroubled   == \A m \in Messages : ~excused[m]
ReportsSent  == {m \in Messages : KindOf[m] = "daily_report" /\ copies[m] > 0}
RowsAccepted == {m \in Messages : status[m] \in Accepted}

\* A report about to be sent has room under the cap.
RoomInv ==
  Untroubled =>
    /\ Cardinality(ReportsSent) <= DailyCap
    /\ \A w \in Workers : pc[w] = "send" /\ KindOf[Current(w)] = "daily_report" =>
         Cardinality(RowsAccepted) < DailyCap

LEMMA Countable ==
  /\ IsFiniteSet(ReportsSent) /\ Cardinality(ReportsSent) \in Nat
  /\ IsFiniteSet(RowsAccepted) /\ Cardinality(RowsAccepted) \in Nat
<1>1. ReportsSent \subseteq Messages /\ RowsAccepted \subseteq Messages
  BY DEF ReportsSent, RowsAccepted
<1> QED BY <1>1, FS_Subset, FS_CardinalityType, OutboxAssumption

\* While the worker is about to send, no row becomes accepted.
LEMMA NoneAccepted ==
  ASSUME TypeOK, RowInv, SoleWorker, Untroubled', [Next]_vars, NEW w \in Workers,
         pc[w] = "send"
  PROVE  RowsAccepted' \subseteq RowsAccepted
<1> SUFFICES ASSUME NEW m \in Messages, status'[m] \in Accepted, status[m] \notin Accepted
             PROVE  FALSE
  BY DEF RowsAccepted
<1>1. ~excused[m] /\ ~excused'[m] /\ RowAgrees(m)
  BY ExcusedStays DEF Untroubled, RowInv
<1>2. status[m] = "sending" /\ status'[m] = "sent"
  BY <1>1, RowChange DEF Accepted, Waits, Open, Progress
<1>3. ASSUME NEW v \in Workers, Poll(v) \/ Dispatch(v) \/ Crash(v) PROVE status' = status
  <2>1. pc[v] = "send"
    BY DEF SoleWorker
  <2> QED BY <1>3, <2>1 DEF Poll, Dispatch, Crash, Tick, MarkExpired, RecoverStuck, MaintenanceFails,
             Claim, ClaimFails, ConnectFails, CheckOptIn, CheckDailyCap, SendAccepted, SendTimesOut,
             SendRejected, RecordVerdict, DispatchThrows, rowVars
<1>4. CASE Clock \/ Http \/ (\E k \in Messages : Enqueue(k)) \/ UNCHANGED vars
  <2>1. status \in [Messages -> Statuses]
    BY DEF TypeOK
  <2> QED BY <1>2, <1>4, <2>1 DEF Clock, BackoffElapses, TtlElapses, VisibilityElapses, MinuteElapses,
             Http, DeleteRecipient, Withdraw, Retry, Enqueue, SetStatus, vars, rowVars
<1>5. CASE Webhook
  <2>1. wamid[m] = 0 /\ status \in [Messages -> Statuses]
    BY <1>1, <1>2 DEF RowAgrees, Accepted, TypeOK
  <2> QED BY <1>2, <1>5, <2>1 DEF Webhook, StatusDelivered, StatusRead, StatusSent, StatusFailed,
             SetStatus, Stop, Start, Withdraw, rowVars
<1> QED BY <1>2, <1>3, <1>4, <1>5 DEF Next

\* Copies are made by SendAccepted alone, while nothing is excused.
LEMMA RoomCopies ==
  ASSUME TypeOK, RowInv, RoomInv, SoleWorker, Untroubled', Untroubled, [Next]_vars
  PROVE  Cardinality(ReportsSent') <= DailyCap
<1> USE DEF Untroubled
<1>0. Cardinality(ReportsSent) <= DailyCap /\ DailyCap \in Nat
  BY OutboxAssumption DEF RoomInv
<1>1. CASE copies' = copies
  BY <1>0, <1>1 DEF ReportsSent
<1>2. ASSUME NEW w \in Workers, SendAccepted(w) PROVE Cardinality(ReportsSent') <= DailyCap
  <2> DEFINE m == Current(w)
  <2>1. pc[w] = "send" /\ m \in Messages /\ copies' = [copies EXCEPT ![m] = @ + 1]
    BY <1>2, CurrentHeld DEF SendAccepted, Accept, Dispatching
  <2>2. CASE KindOf[m] # "daily_report"
    <3>1. ReportsSent' = ReportsSent
      BY <2>1, <2>2 DEF ReportsSent, TypeOK
    <3> QED BY <1>0, <3>1
  <2>3. CASE KindOf[m] = "daily_report"
    <3>1. ReportsSent' \subseteq ReportsSent \cup {m}
      BY <2>1 DEF ReportsSent, TypeOK
    <3>2. ReportsSent \subseteq RowsAccepted
      <4> SUFFICES ASSUME NEW k \in Messages, copies[k] > 0, status[k] \notin Accepted PROVE FALSE
        BY DEF ReportsSent, RowsAccepted
      <4>1. RowAgrees(k) /\ copies[k] # 0
        BY DEF RowInv
      <4>2. \A v \in Workers : ~Unstored(v, k)
        BY <2>1 DEF SoleWorker, Unstored
      <4> QED BY <4>1, <4>2 DEF RowAgrees, HeldBySomeone
    <3>3. Cardinality(RowsAccepted) < DailyCap
      BY <2>1, <2>3 DEF RoomInv
    <3>4. Cardinality(ReportsSent) <= Cardinality(RowsAccepted)
      BY <3>2, Countable, FS_Subset
    <3>5. /\ IsFiniteSet(ReportsSent \cup {m})
          /\ Cardinality(ReportsSent \cup {m}) <= Cardinality(ReportsSent) + 1
      <4>1. IsFiniteSet(ReportsSent) /\ Cardinality(ReportsSent) \in Nat
        BY Countable, FS_CardinalityType
      <4>2. /\ IsFiniteSet(ReportsSent \cup {m})
            /\ \/ Cardinality(ReportsSent \cup {m}) = Cardinality(ReportsSent)
               \/ Cardinality(ReportsSent \cup {m}) = Cardinality(ReportsSent) + 1
        BY <4>1, FS_AddElement
      <4> QED BY <4>1, <4>2
    <3>6. IsFiniteSet(ReportsSent') /\ Cardinality(ReportsSent') <= Cardinality(ReportsSent \cup {m})
      BY <3>1, <3>5, FS_Subset
    <3>7. /\ Cardinality(ReportsSent) \in Nat /\ Cardinality(ReportsSent') \in Nat
          /\ Cardinality(RowsAccepted) \in Nat /\ Cardinality(ReportsSent \cup {m}) \in Nat
      BY <3>5, <3>6, Countable, FS_CardinalityType
    <3> QED BY <1>0, <3>3, <3>4, <3>5, <3>6, <3>7
  <2> QED BY <2>2, <2>3
<1>3. ASSUME NEW w \in Workers, SendTimesOut(w) PROVE FALSE
  <2>1. Current(w) \in Messages /\ excused' = [excused EXCEPT ![Current(w)] = TRUE]
    BY <1>3, CurrentHeld DEF SendTimesOut, Dispatching
  <2> QED BY <2>1 DEF TypeOK
<1>4. copies' = copies \/ \E w \in Workers : SendAccepted(w) \/ SendTimesOut(w)
  BY DEF Next, Poll, Dispatch, Crash, Tick, MarkExpired, RecoverStuck, MaintenanceFails, Claim,
     ClaimFails, ConnectFails, CheckOptIn, CheckDailyCap, SendRejected, RecordVerdict, DispatchThrows,
     Clock, BackoffElapses, TtlElapses, VisibilityElapses, MinuteElapses, Webhook, StatusDelivered,
     StatusRead, StatusSent, StatusFailed, Stop, Start, Withdraw, Http, DeleteRecipient, Retry,
     Enqueue, vars, metaVars
<1> QED BY <1>1, <1>2, <1>3, <1>4

\* The worker comes to a report with room, and the room lasts.
LEMMA RoomLasts ==
  ASSUME TypeOK, RowInv, RoomInv, SoleWorker, Untroubled', Untroubled, [Next]_vars,
         NEW w \in Workers, pc'[w] = "send", KindOf[Current(w)'] = "daily_report"
  PROVE  Cardinality(RowsAccepted') < DailyCap
<1> USE DEF Untroubled
<1>0. pc \in [Workers -> Places] /\ held \in [Workers -> SUBSET Messages] /\ DailyCap \in Nat
  BY OutboxAssumption DEF TypeOK
<1>1. CASE pc[w] = "send" /\ held'[w] = held[w]
  <2>1. Cardinality(RowsAccepted) < DailyCap
    BY <1>1, CurrentFrame DEF RoomInv
  <2>2. RowsAccepted' \subseteq RowsAccepted
    BY <1>1, NoneAccepted
  <2>3. Cardinality(RowsAccepted') <= Cardinality(RowsAccepted) /\ IsFiniteSet(RowsAccepted')
    BY <2>2, Countable, FS_Subset
  <2>4. Cardinality(RowsAccepted') \in Nat
    BY <2>3, FS_CardinalityType
  <2> QED BY <1>0, <2>1, <2>3, <2>4, Countable
<1>2. CASE CheckDailyCap(w)
  <2>1. ~CapReached /\ status' = status
    BY <1>0, <1>2 DEF CheckDailyCap, Decide, rowVars
  <2> QED BY <1>0, <2>1, Countable DEF CapReached, SentToday, RowsAccepted
<1>3. ~CheckOptIn(w)
  <2> SUFFICES ASSUME CheckOptIn(w) PROVE FALSE
    OBVIOUS
  <2>1. pc'[w] # "send" \/ KindOf[Current(w)] # "daily_report"
    BY <1>0 DEF CheckOptIn, Decide
  <2>2. held'[w] = held[w]
    BY DEF CheckOptIn, Decide
  <2> QED BY <2>1, <2>2, CurrentFrame
<1>4. CheckDailyCap(w) \/ (pc[w] = "send" /\ held'[w] = held[w])
  <2>1. ASSUME NEW v \in Workers, Poll(v) \/ Dispatch(v) \/ Crash(v)
        PROVE  CheckDailyCap(w)
    <3>1. v = w
      BY DEF SoleWorker
    <3> QED BY <1>0, <1>3, <2>1, <3>1 DEF Poll, Dispatch, Crash, Tick, MarkExpired, RecoverStuck,
               MaintenanceFails, Claim, ClaimFails, ConnectFails, GoTo, SendAccepted, SendTimesOut,
               SendRejected, Decide, RecordVerdict, DispatchThrows, Advance, Continue
  <2>2. CASE Clock \/ Webhook \/ Http \/ (\E k \in Messages : Enqueue(k)) \/ UNCHANGED vars
    BY <2>2 DEF Clock, BackoffElapses, TtlElapses, VisibilityElapses, MinuteElapses, Webhook,
       StatusDelivered, StatusRead, StatusSent, StatusFailed, Stop, Start, Withdraw, Http,
       DeleteRecipient, Retry, Enqueue, vars, workerVars
  <2> QED BY <2>1, <2>2 DEF Next
<1> QED BY <1>1, <1>2, <1>4

\* With one worker process the reports Meta accepted never exceed the cap while
\* nothing excusable happened: the count read before each send is still true when
\* the send is made (whatsappWorker.js:300-330).
THEOREM CapHolds ==
  ASSUME SoleWorker
  PROVE  Spec => []CapRespected
<1>1. TypeOK /\ RowInv /\ RoomInv /\ [Next]_vars => RoomInv'
  <2> SUFFICES ASSUME TypeOK, RowInv, RoomInv, [Next]_vars, Untroubled'
               PROVE  /\ Cardinality(ReportsSent') <= DailyCap
                      /\ \A w \in Workers : pc'[w] = "send" /\ KindOf[Current(w)'] = "daily_report" =>
                           Cardinality(RowsAccepted') < DailyCap
    BY DEF RoomInv
  <2>1. Untroubled
    BY ExcusedStays DEF Untroubled
  <2> QED BY <2>1, RoomCopies, RoomLasts
<1>2. Init => RoomInv
  <2> SUFFICES ASSUME Init PROVE RoomInv
    OBVIOUS
  <2>1. ReportsSent = {}
    BY DEF Init, ReportsSent
  <2> QED BY <2>1, FS_EmptySet, OutboxAssumption DEF Init, RoomInv
<1>3. RoomInv => CapRespected
  BY DEF RoomInv, CapRespected, Untroubled, ReportsSent
<1> QED BY <1>1, <1>2, <1>3, TypeCorrect, RowInvariant, PTL DEF Spec
=============================================================================
