-------------------------- MODULE ColdArchiveProofs --------------------------
(***************************************************************************)
(* What every instance of the cold archive guarantees: points are dropped  *)
(* only when they were archived or their own night was lost, and what a    *)
(* route answered "ready" may lack of the days the database has let go of. *)
(***************************************************************************)
EXTENDS ColdArchive, TLAPS

(***************************************************************************)
(* The archiver.                                                           *)
(***************************************************************************)
\* A file whose night is over is in the bucket or excused.
Safe(f) == Stored(f) \/ f \in missed

ArchiverTypes ==
  /\ today \in Nat
  /\ store \in [Files -> Classes]
  /\ points \subseteq Files /\ dropped \subseteq Files
  /\ todo \subseteq Vehicles

\* Tonight's loop holds vehicles that moved, and only while the job runs.
LoopInv ==
  /\ todo \subseteq Moved
  /\ job \in {"idle", "upload", "verify", "drop"}
  /\ job \in {"idle", "drop"} => todo = {}
  /\ job # "idle" => ran
  /\ job = "verify" => putting \in todo /\ Stored(FileOf(putting))
  /\ job # "verify" => putting = NoVehicle

PastInv ==
  /\ \A f \in points \cup dropped : f[1] < today => Safe(f)
  /\ \A f \in points : f[1] = today /\ ran => Safe(f) \/ f[2] \in todo
  /\ \A f \in dropped : f[1] < today

ArchiverInv == ArchiverTypes /\ LoopInv /\ PastInv

LEMMA ChunkEnd ==
  ASSUME NEW d \in Int
  PROVE  LastOfChunk(d) \in Int /\ LastOfChunk(d) >= d
<1>1. ChunkDays \in Nat /\ ChunkDays > 0
  BY ArchiverAssumption
<1> DEFINE q == (d - 1) \div ChunkDays
           k == (d - 1) % ChunkDays
<1>2. q \in Int /\ k \in 0 .. (ChunkDays - 1) /\ d - 1 = ChunkDays * q + k
  BY <1>1
<1> HIDE DEF q, k
<1>3. (q + 1) * ChunkDays = ChunkDays * q + ChunkDays
  BY <1>1, <1>2
<1>4. (q + 1) * ChunkDays \in Int
  BY <1>1, <1>2
<1>5. (q + 1) * ChunkDays >= d
  <2>1. ChunkDays * q \in Int
    BY <1>1, <1>2
  <2> QED BY <1>1, <1>2, <1>3, <1>4, <2>1
<1>6. LastOfChunk(d) = (q + 1) * ChunkDays
  BY DEF LastOfChunk, q
<1> QED BY <1>4, <1>5, <1>6

\* What is dropped belongs to days before today.
LEMMA PastIsPast ==
  ASSUME today \in Nat, NEW d \in Int, NEW lag \in Nat \ {0}, Past(d, lag)
  PROVE  d < today
<1>1. LastOfChunk(d) \in Int /\ LastOfChunk(d) >= d
  BY ChunkEnd
<1> QED BY <1>1 DEF Past

LEMMA ArchiverInitially == ColdInit => ArchiverInv
<1> SUFFICES ASSUME ColdInit PROVE ArchiverInv
  OBVIOUS
<1>1. ArchiverTypes
  BY ArchiverAssumption
  DEF ColdInit, StoreInit, ArchiverInit, ArchiverTypes, Classes
<1>2. LoopInv
  BY DEF ColdInit, ArchiverInit, LoopInv
<1>3. PastInv
  <2>1. \A f \in points : f[1] \in Nat /\ f[1] >= 1
    BY ArchiverAssumption, StoreAssumption DEF ColdInit, ArchiverInit, Files, Days
  <2> QED BY <2>1 DEF ColdInit, StoreInit, ArchiverInit, PastInv, Safe
<1> QED BY <1>1, <1>2, <1>3 DEF ArchiverInv

\* The bucket never loses a file, whatever is put, restored, thawed or frozen.
KeepsFiles ==
  /\ store' \in [Files -> Classes]
  /\ \A f \in Files : Stored(f) => Stored(f)'

LEMMA PutKeeps ==
  ASSUME store \in [Files -> Classes], NEW g \in Files, PutObject(g)
  PROVE  KeepsFiles /\ Stored(g)'
BY DEF PutObject, KeepsFiles, Stored, Classes

LEMMA RestoreKeeps ==
  ASSUME store \in [Files -> Classes], NEW g \in Files, RestoreObject(g)
  PROVE  KeepsFiles
BY DEF RestoreObject, KeepsFiles, Stored, Classes

LEMMA ThawKeeps ==
  ASSUME store \in [Files -> Classes], NEW g \in Files, Thaw(g)
  PROVE  KeepsFiles
BY DEF Thaw, KeepsFiles, Stored, Classes

LEMMA AgeingKeeps ==
  ASSUME store \in [Files -> Classes], StoreAges
  PROVE  KeepsFiles
BY DEF StoreAges, Freezes, KeepsFiles, Stored, Classes

\* A step that leaves the archiver alone and the bucket's files in place.
LEMMA OthersKeep ==
  ASSUME ArchiverInv, KeepsFiles, UNCHANGED <<today, archiverVars>>
  PROVE  ArchiverInv'
<1> USE DEF ArchiverInv, KeepsFiles, archiverVars
<1>1. ArchiverTypes'
  BY DEF ArchiverTypes
<1>2. LoopInv'
  <2>1. job = "verify" => FileOf(putting) \in Files
    BY DEF LoopInv, ArchiverTypes, Moved, FileOf
  <2> QED BY <2>1 DEF LoopInv, Moved, FileOf, ArchiverTypes
<1>3. PastInv'
  BY DEF PastInv, Safe, ArchiverTypes
<1> QED BY <1>1, <1>2, <1>3

(***************************************************************************)
(* One lemma per step of the archiver.                                     *)
(***************************************************************************)
LEMMA RunKeeps ==
  ASSUME ArchiverInv, RunArchiveJob
  PROVE  ArchiverInv'
<1> USE DEF ArchiverInv, RunArchiveJob, storeVars
<1>1. Moved \subseteq Vehicles
  BY DEF Moved
<1>2. ArchiverTypes'
  BY <1>1 DEF ArchiverTypes
<1>3. LoopInv'
  BY DEF LoopInv, Moved
<1>4. PastInv'
  <2>1. \A f \in points : f[1] = today => f[2] \in Moved
    BY DEF ArchiverTypes, Moved, Files
  <2> QED BY <2>1 DEF PastInv, Safe, Stored
<1> QED BY <1>2, <1>3, <1>4

LEMMA UploadKeeps ==
  ASSUME ArchiverInv, NEW v \in Vehicles, Upload(v)
  PROVE  ArchiverInv'
<1> USE DEF ArchiverInv, Upload
<1>1. FileOf(v) \in Files
  BY DEF LoopInv, ArchiverTypes, Moved, FileOf
<1>2. KeepsFiles /\ Stored(FileOf(v))'
  <2>1. \A g \in Files : PutObject(g) => KeepsFiles /\ store'[g] # "absent"
    BY PutKeeps DEF ArchiverTypes, Stored
  <2> QED BY <1>1, <2>1 DEF Stored, FileOf
<1>3. ArchiverTypes'
  BY <1>2 DEF ArchiverTypes, KeepsFiles
<1>4. LoopInv'
  BY <1>2 DEF LoopInv, Moved, FileOf, Stored
<1>5. PastInv'
  BY <1>2 DEF PastInv, Safe, ArchiverTypes, KeepsFiles
<1> QED BY <1>3, <1>4, <1>5

LEMMA VerifyKeeps ==
  ASSUME ArchiverInv, Verify
  PROVE  ArchiverInv'
<1> USE DEF ArchiverInv, Verify, storeVars
<1>1. ArchiverTypes'
  BY DEF ArchiverTypes
<1>2. LoopInv'
  BY DEF LoopInv, Moved
<1>3. PastInv'
  <2>1. ASSUME NEW f \in points, f[1] = today, f[2] = putting
        PROVE  Stored(f)
    <3>1. f = FileOf(putting)
      BY <2>1 DEF ArchiverTypes, Files, FileOf
    <3> QED BY <3>1 DEF LoopInv
  <2> QED BY <2>1 DEF PastInv, Safe, Stored, LoopInv
<1> QED BY <1>1, <1>2, <1>3

LEMMA DropKeeps ==
  ASSUME ArchiverInv, NEW lag \in Nat \ {0}, DropChunks(lag),
         job' \in {job, "idle"}, job' # job => job = "drop",
         UNCHANGED <<today, store, ran, todo, putting, missed>>
  PROVE  ArchiverInv'
<1> USE DEF ArchiverInv
<1>1. points' \subseteq points /\ dropped' \subseteq dropped \cup points
  BY DEF DropChunks
<1>2. \A f \in points : Past(f[1], lag) => f[1] < today
  BY PastIsPast DEF ArchiverTypes, Files, Days
<1>3. ArchiverTypes'
  BY <1>1 DEF ArchiverTypes
<1>4. LoopInv'
  <2>1. Moved' = Moved
    BY <1>1, <1>2 DEF Moved, DropChunks, ArchiverTypes
  <2> QED BY <2>1 DEF LoopInv, FileOf, Stored
<1>5. PastInv'
  BY <1>1, <1>2 DEF PastInv, Safe, Stored, DropChunks
<1> QED BY <1>3, <1>4, <1>5

LEMMA FailKeeps ==
  ASSUME ArchiverInv, ArchiveJobFails
  PROVE  ArchiverInv'
<1> USE DEF ArchiverInv, ArchiveJobFails, storeVars
<1>1. ArchiverTypes'
  BY DEF ArchiverTypes
<1>2. LoopInv'
  BY DEF LoopInv
<1>3. PastInv'
  <2>1. ASSUME NEW f \in points, f[1] = today
        PROVE  f = FileOf(f[2]) /\ f[2] \in Moved
    BY <2>1 DEF ArchiverTypes, Files, FileOf, Moved
  <2>2. ASSUME NEW f \in points, f[1] = today
        PROVE  Safe(f)'
    <3>1. CASE job = "idle" /\ ~ran /\ missed' = missed \cup {FileOf(v) : v \in Moved}
      BY <2>1, <2>2, <3>1 DEF Safe
    <3>2. CASE job # "idle" /\ missed' = missed \cup {FileOf(v) : v \in todo \ {putting}}
      <4>1. Safe(f) \/ f[2] \in todo
        BY <2>2, <3>2 DEF PastInv, LoopInv
      <4>2. f[2] = putting => Stored(f)
        BY <2>1, <2>2, ArchiverAssumption DEF LoopInv, Moved
      <4> QED BY <2>1, <2>2, <3>2, <4>1, <4>2 DEF Safe, Stored
    <3> QED BY <3>1, <3>2
  <2>3. missed \subseteq missed'
    OBVIOUS
  <2> QED BY <2>2, <2>3 DEF PastInv, Safe, Stored
<1> QED BY <1>1, <1>2, <1>3

LEMMA DayKeeps ==
  ASSUME ArchiverInv, DayPasses
  PROVE  ArchiverInv'
<1> USE DEF ArchiverInv, DayPasses
<1>1. KeepsFiles
  BY AgeingKeeps DEF ArchiverTypes
<1>2. missed \subseteq missed'
  OBVIOUS
<1>3. ArchiverTypes'
  BY <1>1 DEF ArchiverTypes, KeepsFiles
<1>4. LoopInv'
  BY DEF LoopInv
<1>5. PastInv'
  <2>1. CASE today = MaxToday
    BY <1>1, <1>2, <2>1 DEF PastInv, Safe, KeepsFiles, ArchiverTypes
  <2>2. CASE today # MaxToday
    <3>1. ASSUME NEW f \in points, f[1] = today
          PROVE  Safe(f)'
      <4>1. f = FileOf(f[2]) /\ f[2] \in Moved
        BY <3>1 DEF ArchiverTypes, Files, FileOf, Moved
      <4>2. CASE ran
        BY <1>1, <1>2, <3>1, <4>2 DEF PastInv, LoopInv, Safe, KeepsFiles, ArchiverTypes
      <4>3. CASE ~ran
        BY <2>2, <4>1, <4>3 DEF Safe
      <4> QED BY <4>2, <4>3
    <3>2. \A f \in Files : f[1] \in Nat
      BY DEF Files, Days
    <3>3. today' = today + 1 /\ ran' = FALSE
      BY <2>2
    <3>4. \A f \in points \cup dropped : f[1] < today + 1 => f[1] < today \/ f[1] = today
      BY <3>2 DEF ArchiverTypes
    <3>5. \A f \in dropped : f[1] < today /\ f[1] < today + 1
      BY <3>2 DEF ArchiverTypes, PastInv
    <3>6. \A f \in Files : Safe(f) => Safe(f)'
      BY <1>1, <1>2 DEF Safe, KeepsFiles
    <3> QED BY <3>1, <3>3, <3>4, <3>5, <3>6 DEF PastInv, ArchiverTypes
  <2> QED BY <2>1, <2>2
<1> QED BY <1>3, <1>4, <1>5

LEMMA ArchiverStepKeeps ==
  ASSUME ArchiverInv, ArchiverStep
  PROVE  ArchiverInv'
<1>1. CASE DropOldChunks
  <2>1. DropLag \in Nat \ {0}
    BY ArchiverAssumption
  <2> QED BY <1>1, <2>1, DropKeeps DEF DropOldChunks, storeVars
<1>2. CASE RetentionPolicy
  <2>1. RetentionLag \in Nat \ {0}
    BY ArchiverAssumption
  <2> QED BY <1>2, <2>1, DropKeeps DEF RetentionPolicy, storeVars
<1> QED
  BY <1>1, <1>2, RunKeeps, UploadKeeps, VerifyKeeps, FailKeeps DEF ArchiverStep

(***************************************************************************)
(* The answers.                                                            *)
(***************************************************************************)
AnswerTypes ==
  /\ stage \in [Requests -> {"new", "head", "restore", "insert", "get", "ready", "done"}]
  /\ asked \in [Requests -> [user : Users \cup {NoRequest}, vehicle : Vehicles \cup {NoRequest},
                             first : Nat, last : Nat, on : Nat]]
  /\ cursor \in [Requests -> Nat]
  /\ isRestoring \in [Requests -> BOOLEAN]
  /\ allPoints \in [Requests -> SUBSET Files]
  /\ skipped \in [Requests -> SUBSET Files] /\ turned \in [Requests -> SUBSET Files]

InRange(r) == RangeOf(r) \subseteq Files /\ cursor[r] \in asked[r].first .. asked[r].last

Frozen(f)  == store[f] \in {"cold", "thawing"}
Visited(r) == {f \in RangeOf(r) : f[1] < cursor[r]}

\* A file that is still readable, or excused.
Fetchable(r, f) == ~Frozen(f) \/ f \in skipped[r] \cup turned[r]

\* A file the second loop is done with.
Fetched(r, f) ==
  \/ f \in allPoints[r] \cup skipped[r] \cup turned[r] \cup missed
  \/ f \notin points \cup dropped
  \/ ~(f[1] < asked[r].on)

RequestInv(r) ==
  Answering(r) =>
    /\ InRange(r) /\ asked[r].on <= today
    /\ stage[r] \in {"restore", "insert"} => isRestoring[r]
    /\ stage[r] \in {"get", "ready"} => ~isRestoring[r]
    /\ ~isRestoring[r] => \A f \in Headed(r) : Fetchable(r, f)
    /\ stage[r] = "get" => \A f \in Visited(r) : Fetched(r, f)
    /\ stage[r] = "ready" => \A f \in RangeOf(r) : Fetched(r, f)

ColdInv == ArchiverInv /\ AnswerTypes /\ \A r \in Requests : RequestInv(r)

LEMMA KeyAtCursor ==
  ASSUME AnswerTypes, NEW r \in Requests, InRange(r)
  PROVE  /\ KeyOf(r) \in RangeOf(r) /\ KeyOf(r) \in Files
         /\ \A f \in RangeOf(r) : /\ f[1] \in asked[r].first .. asked[r].last
                                  /\ f[1] = cursor[r] => f = KeyOf(r)
BY DEF AnswerTypes, InRange, RangeOf, KeyOf

\* What another process may do while a request is answered.
Calm ==
  /\ today' = today
  /\ \A f \in Files : ~Frozen(f) => ~Frozen(f)'
  /\ missed \subseteq missed'
  /\ points' \cup dropped' \subseteq points \cup dropped

SameRequest(r) ==
  /\ stage'[r] = stage[r] /\ asked'[r] = asked[r] /\ cursor'[r] = cursor[r]
  /\ isRestoring'[r] = isRestoring[r] /\ allPoints'[r] = allPoints[r] /\ skipped'[r] = skipped[r]
  /\ turned'[r] = turned[r]

LEMMA CalmKeeps ==
  ASSUME NEW r \in Requests, RequestInv(r), Calm, SameRequest(r)
  PROVE  RequestInv(r)'
<1> SUFFICES ASSUME Answering(r)' PROVE RequestInv(r)'
  BY DEF RequestInv
<1>1. /\ Answering(r) /\ RangeOf(r)' = RangeOf(r) /\ Visited(r)' = Visited(r) /\ InRange(r)'
      /\ Headed(r)' = Headed(r) /\ Headed(r) \subseteq RangeOf(r)
  BY DEF Answering, RequestInv, RangeOf, Visited, Headed, InRange, SameRequest
<1>2. \A f \in RangeOf(r) : Fetchable(r, f) => Fetchable(r, f)'
  BY <1>1 DEF RequestInv, InRange, Fetchable, Calm, SameRequest, Frozen
<1>3. \A f \in RangeOf(r) : Fetched(r, f) => Fetched(r, f)'
  BY DEF Fetched, Calm, SameRequest
<1>4. Visited(r) \subseteq RangeOf(r)
  BY DEF Visited
<1> QED BY <1>1, <1>2, <1>3, <1>4 DEF RequestInv, SameRequest, Calm

\* Both loops: a key further, the answer, or the other loop.
LEMMA Advance ==
  ASSUME AnswerTypes, NEW r \in Requests, Answering(r), stage[r] # "ready", InRange(r),
         NEW restoring \in BOOLEAN, isRestoring[r] => restoring, NextKey(r, restoring)
  PROVE  /\ stage' \in [Requests -> {"new", "head", "restore", "insert", "get", "ready", "done"}]
         /\ asked' \in [Requests -> [user : Users \cup {NoRequest}, vehicle : Vehicles \cup {NoRequest},
                                    first : Nat, last : Nat, on : Nat]]
         /\ cursor' \in [Requests -> Nat]
         /\ isRestoring' \in [Requests -> BOOLEAN]
         /\ \A q \in Requests \ {r} : /\ stage'[q] = stage[q] /\ asked'[q] = asked[q]
                                       /\ cursor'[q] = cursor[q] /\ isRestoring'[q] = isRestoring[q]
         /\ \/ stage'[r] = "done"
            \/ /\ asked'[r] = asked[r] /\ isRestoring'[r] = restoring
               /\ cursor[r] < asked[r].last /\ cursor'[r] = cursor[r] + 1
               /\ stage'[r] = IF stage[r] = "get" THEN "get" ELSE "head"
            \/ /\ asked'[r] = asked[r] /\ ~restoring /\ ~isRestoring'[r]
               /\ cursor[r] = asked[r].last /\ cursor'[r] = asked[r].first
               /\ stage'[r] = IF stage[r] = "get" THEN "ready" ELSE "get"
<1>1. CASE /\ cursor[r] < asked[r].last
           /\ cursor' = [cursor EXCEPT ![r] = @ + 1]
           /\ stage' = [stage EXCEPT ![r] = IF @ = "get" THEN "get" ELSE "head"]
           /\ isRestoring' = [isRestoring EXCEPT ![r] = restoring]
           /\ UNCHANGED asked
  BY <1>1 DEF AnswerTypes, InRange
<1>2. CASE cursor[r] = asked[r].last /\ restoring /\ Return({r})
  <2>1. NoRoute \in [user : Users \cup {NoRequest}, vehicle : Vehicles \cup {NoRequest},
                     first : Nat, last : Nat, on : Nat]
    BY DEF NoRoute
  <2> HIDE DEF NoRoute
  <2> QED BY <1>2, <2>1 DEF AnswerTypes, Return
<1>3. CASE /\ cursor[r] = asked[r].last /\ ~restoring
           /\ cursor' = [cursor EXCEPT ![r] = asked[r].first]
           /\ stage' = [stage EXCEPT ![r] = IF @ = "get" THEN "ready" ELSE "get"]
           /\ UNCHANGED <<asked, isRestoring>>
  BY <1>3 DEF AnswerTypes, InRange
<1> QED BY <1>1, <1>2, <1>3 DEF NextKey

\* The first loop moves on from a key it may pass.
LEMMA FirstLoop ==
  ASSUME ColdInv, NEW r \in Requests, stage[r] \in {"head", "restore", "insert"},
         NEW restoring \in BOOLEAN, isRestoring[r] => restoring, NextKey(r, restoring),
         Calm, UNCHANGED <<allPoints, turned>>, skipped' \in [Requests -> SUBSET Files],
         \A q \in Requests : skipped[q] \subseteq skipped'[q],
         \A q \in Requests \ {r} : skipped'[q] = skipped[q],
         ~restoring => (~Frozen(KeyOf(r)) \/ KeyOf(r) \in skipped'[r])
  PROVE  AnswerTypes' /\ \A q \in Requests : RequestInv(q)'
<1>1. Answering(r) /\ InRange(r) /\ AnswerTypes
  BY DEF ColdInv, RequestInv, Answering
<1> DEFINE f0 == KeyOf(r)
<1>2. f0 \in RangeOf(r) /\ f0 \in Files
      /\ \A f \in RangeOf(r) : /\ f[1] \in asked[r].first .. asked[r].last
                               /\ f[1] = cursor[r] => f = f0
  BY <1>1, KeyAtCursor
<1> HIDE DEF f0
<1>3. AnswerTypes'
  BY <1>1, Advance DEF AnswerTypes
<1>4. ASSUME NEW q \in Requests \ {r} PROVE RequestInv(q)'
  <2>1. SameRequest(q)
    BY <1>1, Advance DEF SameRequest
  <2> QED BY <2>1, CalmKeeps DEF ColdInv
<1>5. RequestInv(r)'
  <2>1. CASE stage'[r] = "done"
    BY <2>1 DEF RequestInv, Answering
  <2>2. CASE /\ asked'[r] = asked[r] /\ isRestoring'[r] = restoring
             /\ cursor[r] < asked[r].last /\ cursor'[r] = cursor[r] + 1
             /\ stage'[r] = "head"
    <3>1. RangeOf(r)' = RangeOf(r) /\ InRange(r)'
      BY <1>1, <2>2 DEF RangeOf, InRange, AnswerTypes
    <3>2. ASSUME ~restoring PROVE \A f \in Visited(r)' : Fetchable(r, f)'
      <4>1. stage[r] = "head" /\ \A f \in Visited(r) : Fetchable(r, f)
        BY <1>1, <3>2 DEF ColdInv, RequestInv, Headed, Visited
      <4>2. \A f \in RangeOf(r) : f \in Files /\ f[1] \in Nat
        BY <1>1, <1>2 DEF InRange, AnswerTypes
      <4>3. \A f \in Visited(r)' : f \in RangeOf(r) /\ (f \in Visited(r) \/ f = f0)
        <5>1. ASSUME NEW f \in RangeOf(r), f[1] < cursor[r] + 1 PROVE f[1] < cursor[r] \/ f = f0
          <6>1. f[1] \in Nat /\ cursor[r] \in Nat
            BY <1>1, <4>2 DEF AnswerTypes
          <6>2. f[1] < cursor[r] \/ f[1] = cursor[r]
            BY <5>1, <6>1
          <6> QED BY <1>2, <6>2
        <5> QED BY <2>2, <3>1, <5>1 DEF Visited
      <4>4. f0 \in skipped'[r] \/ ~Frozen(f0)
        BY <3>2 DEF f0
      <4> QED BY <4>1, <4>2, <4>3, <4>4, <1>2 DEF Fetchable, Calm, Frozen
    <3>3. Headed(r)' = Visited(r)'
      BY <2>2 DEF Headed, Visited
    <3>4. asked'[r].on <= today'
      BY <1>1, <2>2 DEF ColdInv, RequestInv, Calm
    <3> QED BY <2>2, <3>1, <3>2, <3>3, <3>4 DEF RequestInv
  <2>3. CASE /\ asked'[r] = asked[r] /\ ~restoring /\ ~isRestoring'[r]
             /\ cursor[r] = asked[r].last /\ cursor'[r] = asked[r].first
             /\ stage'[r] = "get"
    <3>1. RangeOf(r)' = RangeOf(r) /\ InRange(r)'
      BY <1>1, <2>3 DEF RangeOf, InRange, AnswerTypes
    <3>2. \A f \in RangeOf(r) : Fetchable(r, f)'
      <4>1. stage[r] = "head" /\ \A f \in Visited(r) : Fetchable(r, f)
        BY <1>1, <2>3 DEF ColdInv, RequestInv, Headed, Visited
      <4>2. \A f \in RangeOf(r) : f \in Files /\ f[1] \in Nat
        BY <1>1, <1>2 DEF InRange, AnswerTypes
      <4>3. ASSUME NEW f \in RangeOf(r) PROVE f \in Visited(r) \/ f = f0
        <5>1. f[1] \in Nat /\ f[1] <= cursor[r] /\ cursor[r] \in Nat
          BY <1>1, <1>2, <2>3, <4>2 DEF AnswerTypes
        <5>2. f[1] < cursor[r] \/ f[1] = cursor[r]
          BY <5>1
        <5> QED BY <1>2, <5>2 DEF Visited
      <4>4. f0 \in skipped'[r] \/ ~Frozen(f0)
        BY <2>3 DEF f0
      <4> QED BY <4>1, <4>2, <4>3, <4>4, <1>2 DEF Fetchable, Calm, Frozen
    <3>3. Visited(r)' = {}
      BY <1>1, <1>2, <2>3, <3>1 DEF Visited, AnswerTypes
    <3>4. Headed(r)' \subseteq RangeOf(r)
      BY <3>1 DEF Headed
    <3>5. asked'[r].on <= today'
      BY <1>1, <2>3 DEF ColdInv, RequestInv, Calm
    <3> QED BY <2>3, <3>1, <3>2, <3>3, <3>4, <3>5 DEF RequestInv
  <2> QED BY <1>1, <2>1, <2>2, <2>3, Advance
<1> QED BY <1>3, <1>4, <1>5

\* The second loop moves on from a key it has fetched, or will never miss.
LEMMA SecondLoop ==
  ASSUME ColdInv, NEW r \in Requests, stage[r] = "get", NextKey(r, isRestoring[r]), Calm,
         allPoints' \in [Requests -> SUBSET Files], skipped' \in [Requests -> SUBSET Files],
         \A q \in Requests : skipped[q] \subseteq skipped'[q] /\ allPoints[q] \subseteq allPoints'[q],
         \A q \in Requests \ {r} : skipped'[q] = skipped[q] /\ allPoints'[q] = allPoints[q],
         turned' = turned, Fetched(r, KeyOf(r)) \/ KeyOf(r) \in skipped'[r] \cup allPoints'[r]
  PROVE  AnswerTypes' /\ \A q \in Requests : RequestInv(q)'
<1>1. Answering(r) /\ InRange(r) /\ AnswerTypes /\ ~isRestoring[r]
  BY DEF ColdInv, RequestInv, Answering
<1> DEFINE f0 == KeyOf(r)
<1>2. f0 \in RangeOf(r) /\ f0 \in Files
      /\ \A f \in RangeOf(r) : /\ f[1] \in asked[r].first .. asked[r].last
                               /\ f[1] = cursor[r] => f = f0
  BY <1>1, KeyAtCursor
<1> HIDE DEF f0
<1>a. isRestoring[r] \in BOOLEAN
  BY <1>1 DEF AnswerTypes
<1>3. AnswerTypes'
  BY <1>1, <1>a, Advance DEF AnswerTypes
<1>4. ASSUME NEW q \in Requests \ {r} PROVE RequestInv(q)'
  <2>1. SameRequest(q)
    BY <1>1, <1>a, Advance DEF SameRequest
  <2> QED BY <2>1, CalmKeeps DEF ColdInv
<1>5. RequestInv(r)'
  <2>0. \A f \in RangeOf(r) : f \in Files /\ f[1] \in Nat
    BY <1>1, <1>2 DEF InRange, AnswerTypes
  <2>1. \A f \in Headed(r) : Fetchable(r, f)'
    BY <1>1, <2>0 DEF ColdInv, RequestInv, Headed, Fetchable, Calm
  <2>2. asked'[r] = asked[r] => \A f \in Visited(r) \cup {f0} : Fetched(r, f)'
    <3>1. \A f \in Visited(r) : Fetched(r, f)
      BY <1>1 DEF ColdInv, RequestInv
    <3>2. Fetched(r, f0) \/ f0 \in skipped'[r] \cup allPoints'[r]
      BY DEF f0
    <3> QED BY <3>1, <3>2 DEF Fetched, Calm
  <2>3. CASE stage'[r] = "done"
    BY <2>3 DEF RequestInv, Answering
  <2>4. CASE /\ asked'[r] = asked[r] /\ isRestoring'[r] = isRestoring[r]
             /\ cursor[r] < asked[r].last /\ cursor'[r] = cursor[r] + 1
             /\ stage'[r] = "get"
    <3>1. RangeOf(r)' = RangeOf(r) /\ InRange(r)'
      BY <1>1, <2>4 DEF RangeOf, InRange, AnswerTypes
    <3>2. Visited(r)' \subseteq Visited(r) \cup {f0}
      <4>1. ASSUME NEW f \in RangeOf(r), f[1] < cursor[r] + 1 PROVE f[1] < cursor[r] \/ f = f0
        <5>1. f[1] \in Nat /\ cursor[r] \in Nat
          BY <1>1, <2>0 DEF AnswerTypes
        <5>2. f[1] < cursor[r] \/ f[1] = cursor[r]
          BY <4>1, <5>1
        <5> QED BY <1>2, <5>2
      <4> QED BY <2>4, <3>1, <4>1 DEF Visited
    <3>3. Headed(r)' \subseteq Headed(r)
      BY <1>1, <2>0, <2>4, <3>1 DEF Headed, AnswerTypes
    <3>4. asked'[r].on <= today'
      BY <1>1, <2>4 DEF ColdInv, RequestInv, Calm
    <3> QED BY <1>1, <2>1, <2>2, <2>4, <3>1, <3>2, <3>3, <3>4 DEF RequestInv
  <2>5. CASE /\ asked'[r] = asked[r] /\ ~isRestoring'[r]
             /\ cursor[r] = asked[r].last /\ cursor'[r] = asked[r].first
             /\ stage'[r] = "ready"
    <3>1. RangeOf(r)' = RangeOf(r) /\ InRange(r)'
      BY <1>1, <2>5 DEF RangeOf, InRange, AnswerTypes
    <3>2. RangeOf(r) \subseteq Visited(r) \cup {f0}
      BY <1>1, <1>2, <2>0, <2>5 DEF Visited, AnswerTypes
    <3>3. Headed(r)' = {}
      BY <2>5 DEF Headed
    <3>4. asked'[r].on <= today'
      BY <1>1, <2>5 DEF ColdInv, RequestInv, Calm
    <3> QED BY <2>1, <2>2, <2>5, <3>1, <3>2, <3>3, <3>4 DEF RequestInv
  <2> QED BY <1>1, <1>a, <2>3, <2>4, <2>5, Advance
<1> QED BY <1>3, <1>4, <1>5

LEMMA HeadKeeps ==
  ASSUME ColdInv, NEW r \in Requests, HeadObject(r), UNCHANGED archiverVars
  PROVE  AnswerTypes' /\ \A q \in Requests : RequestInv(q)'
<1> DEFINE f == KeyOf(r)
<1>1. Calm /\ stage[r] = "head" /\ AnswerTypes /\ InRange(r)
  BY DEF HeadObject, Calm, Frozen, storeVars, archiverVars, ColdInv, RequestInv, Answering
<1>2. CASE MustWait(f) /\ ~Ongoing(f)
  <2>1. stage' = [stage EXCEPT ![r] = "restore"] /\ isRestoring' = [isRestoring EXCEPT ![r] = TRUE]
        /\ UNCHANGED <<asked, cursor, allPoints, skipped, turned>>
    BY <1>2 DEF HeadObject
  <2>2. AnswerTypes'
    BY <1>1, <2>1 DEF AnswerTypes
  <2>3. ASSUME NEW q \in Requests \ {r} PROVE RequestInv(q)'
    BY <1>1, <2>1, CalmKeeps DEF ColdInv, AnswerTypes, SameRequest
  <2>4. RequestInv(r)'
    <3>1. InRange(r)' /\ stage'[r] = "restore" /\ isRestoring'[r]
      BY <1>1, <2>1 DEF AnswerTypes, InRange, RangeOf
    <3>2. asked'[r].on <= today'
      BY <1>1, <2>1 DEF ColdInv, RequestInv, Answering, Calm
    <3> QED BY <3>1, <3>2 DEF RequestInv
  <2> QED BY <2>2, <2>3, <2>4
<1>3. CASE ~(MustWait(f) /\ ~Ongoing(f))
  <2>1. (isRestoring[r] \/ MustWait(f)) \in BOOLEAN
    BY <1>1 DEF AnswerTypes, MustWait, Ongoing
  <2>2. NextKey(r, isRestoring[r] \/ MustWait(f)) /\ UNCHANGED <<allPoints, skipped, turned>>
    BY <1>3 DEF HeadObject
  <2>3. ~MustWait(f) => ~Frozen(f)
    BY DEF MustWait, Ongoing, Frozen
  <2> QED BY <1>1, <2>1, <2>2, <2>3, FirstLoop DEF AnswerTypes
<1> QED BY <1>2, <1>3

LEMMA RestoreKeepsAnswers ==
  ASSUME ColdInv, NEW r \in Requests, Restore(r), UNCHANGED archiverVars
  PROVE  AnswerTypes' /\ (\A q \in Requests : RequestInv(q)') /\ KeepsFiles
<1>1. AnswerTypes /\ InRange(r) /\ isRestoring[r] /\ store \in [Files -> Classes]
  BY DEF Restore, ColdInv, RequestInv, Answering, ArchiverInv, ArchiverTypes
<1>2. KeyOf(r) \in Files
  BY <1>1, KeyAtCursor
<1>3. Calm /\ KeepsFiles
  <2>1. \A g \in Files : RestoreObject(g) => KeepsFiles /\ \A f \in Files : ~Frozen(f) => ~Frozen(f)'
    BY <1>1, RestoreKeeps DEF RestoreObject, Frozen, Classes
  <2> QED BY <1>2, <2>1 DEF Restore, Calm, archiverVars
<1>4. AnswerTypes'
  BY <1>1 DEF Restore, AnswerTypes
<1>5. ASSUME NEW q \in Requests \ {r} PROVE RequestInv(q)'
  BY <1>1, <1>3, CalmKeeps DEF ColdInv, AnswerTypes, SameRequest, Restore
<1>6. RequestInv(r)'
  <2>1. InRange(r)' /\ stage'[r] = "insert" /\ isRestoring'[r]
    BY <1>1 DEF Restore, AnswerTypes, InRange, RangeOf
  <2>2. asked'[r].on <= today'
    BY DEF Restore, ColdInv, RequestInv, Answering
  <2> QED BY <2>1, <2>2 DEF RequestInv
<1> QED BY <1>3, <1>4, <1>5, <1>6

LEMMA RegisterKeeps ==
  ASSUME ColdInv, NEW r \in Requests, Register(r) \/ RestoreRefused(r), UNCHANGED archiverVars
  PROVE  AnswerTypes' /\ \A q \in Requests : RequestInv(q)'
<1>1. Calm /\ stage[r] \in {"restore", "insert"} /\ AnswerTypes
  BY DEF Register, RestoreRefused, Calm, Frozen, storeVars, archiverVars, ColdInv
<1>2. NextKey(r, TRUE) /\ UNCHANGED <<allPoints, skipped, turned>>
  BY DEF Register, RestoreRefused
<1> QED BY <1>1, <1>2, FirstLoop DEF AnswerTypes

LEMMA GetKeeps ==
  ASSUME ColdInv, NEW r \in Requests, GetObject(r), UNCHANGED archiverVars
  PROVE  AnswerTypes' /\ \A q \in Requests : RequestInv(q)'
<1> DEFINE f == KeyOf(r)
<1>1. /\ Calm /\ stage[r] = "get" /\ AnswerTypes /\ InRange(r)
      /\ store \in [Files -> Classes] /\ points \subseteq Files /\ dropped \subseteq Files
  BY DEF GetObject, Calm, Frozen, storeVars, archiverVars, ColdInv, RequestInv, Answering, ArchiverInv, ArchiverTypes
<1>2. f \in RangeOf(r) /\ f \in Files
  BY <1>1, KeyAtCursor
<1>3. allPoints' = [allPoints EXCEPT ![r] = IF Readable(f) THEN @ \cup {f} ELSE @] /\ UNCHANGED <<skipped, turned>>
      /\ NextKey(r, isRestoring[r])
  BY DEF GetObject
<1>4. Fetched(r, f) \/ f \in skipped'[r] \cup allPoints'[r]
  <2>1. CASE Readable(f)
    BY <1>1, <1>3, <2>1 DEF AnswerTypes
  <2>2. CASE ~Readable(f) /\ Frozen(f)
    <3>1. f \in Headed(r)
      BY <1>1, <1>2 DEF Headed, KeyOf, AnswerTypes, InRange
    <3> QED BY <1>1, <2>2, <3>1 DEF ColdInv, RequestInv, Answering, Fetchable, Fetched
  <2>3. CASE ~Stored(f)
    <3>1. asked[r].on <= today /\ asked[r].on \in Nat /\ today \in Nat /\ f[1] \in Nat
      BY <1>1, <1>2 DEF ColdInv, RequestInv, Answering, ArchiverInv, ArchiverTypes, AnswerTypes, KeyOf
    <3>2. f \in points \cup dropped /\ f[1] < today => Safe(f)
      BY DEF ColdInv, ArchiverInv, PastInv
    <3> QED BY <2>3, <3>1, <3>2 DEF Safe, Fetched
  <2> QED BY <1>1, <1>2, <2>1, <2>2, <2>3 DEF Readable, Frozen, Stored, Classes
<1>5. allPoints' \in [Requests -> SUBSET Files]
      /\ (\A q \in Requests : allPoints[q] \subseteq allPoints'[q])
      /\ \A q \in Requests \ {r} : allPoints'[q] = allPoints[q]
  BY <1>1, <1>2, <1>3 DEF AnswerTypes
<1> HIDE DEF f
<1> QED BY <1>1, <1>3, <1>4, <1>5, SecondLoop DEF AnswerTypes, f

LEMMA CallFailsKeeps ==
  ASSUME ColdInv, NEW r \in Requests, CallFails(r), UNCHANGED archiverVars
  PROVE  AnswerTypes' /\ \A q \in Requests : RequestInv(q)'
<1> DEFINE f == KeyOf(r)
<1>1. Calm /\ Answering(r) /\ stage[r] # "ready" /\ AnswerTypes /\ InRange(r)
  BY DEF CallFails, Calm, Frozen, storeVars, archiverVars, ColdInv, RequestInv
<1>2. f \in Files
  BY <1>1, KeyAtCursor
<1>3. skipped' = [skipped EXCEPT ![r] = @ \cup {f}] /\ UNCHANGED <<allPoints, turned>>
      /\ NextKey(r, isRestoring[r])
  BY DEF CallFails
<1>4. /\ skipped' \in [Requests -> SUBSET Files] /\ f \in skipped'[r]
      /\ \A q \in Requests : skipped[q] \subseteq skipped'[q]
      /\ \A q \in Requests \ {r} : skipped'[q] = skipped[q]
      /\ isRestoring[r] \in BOOLEAN
  BY <1>1, <1>2, <1>3 DEF AnswerTypes
<1> HIDE DEF f
<1>5. CASE stage[r] = "get"
  BY <1>1, <1>3, <1>4, <1>5, SecondLoop DEF AnswerTypes, f
<1>6. CASE stage[r] # "get"
  <2>1. stage[r] \in {"head", "restore", "insert"}
    BY <1>1, <1>6 DEF Answering
  <2> QED BY <1>1, <1>3, <1>4, <2>1, FirstLoop DEF f
<1> QED BY <1>5, <1>6

LEMMA GetRouteKeeps ==
  ASSUME ColdInv, NEW r \in Requests, NEW u \in Users, NEW v \in Vehicles, NEW a \in Days,
         NEW b \in Days, GetRoute(r, u, v, a, b), UNCHANGED archiverVars
  PROVE  AnswerTypes' /\ \A q \in Requests : RequestInv(q)'
<1>1. Calm /\ AnswerTypes /\ stage[r] = "new"
  BY DEF GetRoute, Calm, Frozen, storeVars, archiverVars, ColdInv
<1>2. a \in Nat /\ b \in Nat /\ b >= a
  BY <1>1 DEF GetRoute, Days
<1>3. AnswerTypes'
  BY <1>1, <1>2 DEF GetRoute, AnswerTypes, ColdInv, ArchiverInv, ArchiverTypes
<1>4. ASSUME NEW q \in Requests \ {r} PROVE RequestInv(q)'
  BY <1>1, CalmKeeps DEF ColdInv, AnswerTypes, SameRequest, GetRoute
<1>5. RequestInv(r)'
  <2>1. asked'[r].vehicle = v /\ asked'[r].first = a /\ asked'[r].last = b /\ cursor'[r] = a
        /\ asked'[r].on = today /\ stage'[r] = "head"
    BY <1>1 DEF GetRoute, AnswerTypes
  <2>2. \A d \in a .. b : d \in Days
    BY <1>2, StoreAssumption DEF Days
  <2>3. InRange(r)'
    BY <1>2, <2>1, <2>2 DEF InRange, RangeOf, Files
  <2>4. Headed(r)' = {}
    BY <1>2, <2>1 DEF Headed, RangeOf
  <2>5. today' = today /\ today \in Nat
    BY DEF GetRoute, ColdInv, ArchiverInv, ArchiverTypes
  <2> QED BY <2>1, <2>3, <2>4, <2>5 DEF RequestInv
<1> QED BY <1>3, <1>4, <1>5

LEMMA ReturnKeeps ==
  ASSUME ColdInv, NEW rs \in SUBSET Requests, Return(rs), Calm,
         allPoints' \in [Requests -> SUBSET Files], skipped' \in [Requests -> SUBSET Files],
         turned' \in [Requests -> SUBSET Files],
         \A q \in Requests \ rs : Answering(q) =>
           allPoints'[q] = allPoints[q] /\ skipped'[q] = skipped[q] /\ turned'[q] = turned[q]
  PROVE  AnswerTypes' /\ \A q \in Requests : RequestInv(q)'
<1>1. NoRoute \in [user : Users \cup {NoRequest}, vehicle : Vehicles \cup {NoRequest},
                   first : Nat, last : Nat, on : Nat]
  BY DEF NoRoute
<1>2. AnswerTypes
  BY DEF ColdInv
<1>3. AnswerTypes'
  <2> HIDE DEF NoRoute
  <2> QED BY <1>1, <1>2 DEF AnswerTypes, Return
<1>4. ASSUME NEW q \in rs PROVE RequestInv(q)'
  BY DEF Return, RequestInv, Answering
<1>5. ASSUME NEW q \in Requests \ rs PROVE RequestInv(q)'
  <2>1. CASE Answering(q)
    BY <1>2, <2>1, CalmKeeps DEF ColdInv, AnswerTypes, SameRequest, Return
  <2>2. CASE ~Answering(q)
    BY <2>2 DEF Return, RequestInv, Answering
  <2> QED BY <2>1, <2>2
<1> QED BY <1>3, <1>4, <1>5

LEMMA AnswerKeeps ==
  ASSUME ColdInv, NEW r \in Requests, Answer(r), UNCHANGED archiverVars
  PROVE  AnswerTypes' /\ \A q \in Requests : RequestInv(q)'
<1>1. Calm /\ AnswerTypes /\ Return({r})
  BY DEF Answer, Calm, Frozen, storeVars, archiverVars, ColdInv
<1>2. /\ allPoints' \in [Requests -> SUBSET Files] /\ skipped' \in [Requests -> SUBSET Files]
      /\ turned' \in [Requests -> SUBSET Files]
      /\ \A q \in Requests \ {r} :
           allPoints'[q] = allPoints[q] /\ skipped'[q] = skipped[q] /\ turned'[q] = turned[q]
  BY <1>1 DEF Answer, AnswerTypes
<1> QED BY <1>1, <1>2, ReturnKeeps

LEMMA ApiRestartKeeps ==
  ASSUME ColdInv, ApiRestart, UNCHANGED archiverVars
  PROVE  AnswerTypes' /\ \A q \in Requests : RequestInv(q)'
<1>1. Calm /\ Return({r \in Requests : Answering(r)})
  BY DEF ApiRestart, Calm, Frozen, storeVars, archiverVars
<1>2. /\ allPoints' \in [Requests -> SUBSET Files] /\ skipped' \in [Requests -> SUBSET Files]
      /\ turned' \in [Requests -> SUBSET Files]
  BY DEF ApiRestart
<1> QED BY <1>1, <1>2, ReturnKeeps

\* Steps that leave the requests alone.
LEMMA RequestsAlone ==
  ASSUME ColdInv, UNCHANGED requestVars, Calm
  PROVE  AnswerTypes' /\ \A q \in Requests : RequestInv(q)'
<1> USE DEF requestVars
<1>1. AnswerTypes'
  BY DEF ColdInv, AnswerTypes
<1>2. \A q \in Requests : SameRequest(q) /\ RequestInv(q)
  BY DEF ColdInv, SameRequest
<1> QED BY <1>1, <1>2, CalmKeeps

\* A day passes: what freezes between its HeadObject and its GetObject is turned,
\* and what was fetched, or was not there to be fetched, stays so.
LEMMA TickKeepsAnswers ==
  ASSUME ColdInv, ColdTick
  PROVE  AnswerTypes' /\ \A q \in Requests : RequestInv(q)'
<1>1. /\ UNCHANGED <<stage, asked, cursor, isRestoring, allPoints, skipped, points, dropped>>
      /\ turned' = [r \in Requests |-> turned[r] \cup {f \in Headed(r) : Freezes(f)}]
      /\ \A r \in Requests : Answering(r) => ~isRestoring[r]
      /\ missed \subseteq missed' /\ StoreAges
  BY DEF ColdTick, DayPasses, RowsAge, Quiet
<1>2. AnswerTypes /\ today \in Nat /\ (today' = today \/ today' = today + 1)
  BY DEF ColdTick, DayPasses, ColdInv, ArchiverInv, ArchiverTypes
<1>3. \A r \in Requests : {f \in Headed(r) : Freezes(f)} \subseteq Files
  BY DEF Headed, Freezes, Answering, ColdInv, RequestInv, InRange
<1>4. AnswerTypes'
  BY <1>1, <1>2, <1>3 DEF AnswerTypes
<1>5. ASSUME NEW q \in Requests, Answering(q)' PROVE RequestInv(q)'
  <2>1. /\ Answering(q) /\ RequestInv(q) /\ ~isRestoring[q]
        /\ RangeOf(q)' = RangeOf(q) /\ Visited(q)' = Visited(q) /\ Headed(q)' = Headed(q)
    BY <1>1, <1>5 DEF Answering, RangeOf, Visited, Headed, ColdInv
  <2>2. InRange(q)' /\ asked'[q].on <= today'
    BY <1>1, <1>2, <2>1 DEF RequestInv, InRange, AnswerTypes
  <2>3. ASSUME NEW f \in Headed(q) PROVE Fetchable(q, f)'
    <3>1. f \in Files /\ Fetchable(q, f)
      BY <2>1 DEF RequestInv, InRange, Headed
    <3>2. store'[f] = IF Freezes(f) THEN "cold" ELSE store[f]
      BY <1>1, <3>1 DEF StoreAges
    <3>3. turned'[q] = turned[q] \cup {g \in Headed(q) : Freezes(g)}
      BY <1>1
    <3>4. CASE Freezes(f)
      BY <3>3, <3>4 DEF Fetchable
    <3>5. CASE ~Freezes(f)
      BY <1>1, <3>1, <3>2, <3>3, <3>5 DEF Fetchable, Frozen
    <3> QED BY <3>4, <3>5
  <2>4. \A f \in RangeOf(q) : Fetched(q, f) => Fetched(q, f)'
    BY <1>1 DEF Fetched
  <2>5. Visited(q) \subseteq RangeOf(q)
    BY DEF Visited
  <2> QED BY <1>1, <2>1, <2>2, <2>3, <2>4, <2>5 DEF RequestInv
<1>6. \A q \in Requests : RequestInv(q)'
  BY <1>5 DEF RequestInv
<1> QED BY <1>4, <1>6

LEMMA ArchiverIsCalm ==
  ASSUME ColdInv, ArchiverStep
  PROVE  Calm
<1> USE DEF Calm, Frozen, storeVars
<1>1. CASE RunArchiveJob
  BY <1>1 DEF RunArchiveJob
<1>2. CASE Verify
  BY <1>2 DEF Verify
<1>3. CASE DropOldChunks
  BY <1>3 DEF DropOldChunks, DropChunks
<1>4. CASE ArchiveJobFails
  BY <1>4 DEF ArchiveJobFails
<1>5. CASE RetentionPolicy
  BY <1>5 DEF RetentionPolicy, DropChunks
<1>6. ASSUME NEW v \in Vehicles, Upload(v) PROVE Calm
  <2>1. store \in [Files -> Classes]
    BY DEF ColdInv, ArchiverInv, ArchiverTypes
  <2> QED BY <1>6, <2>1 DEF Upload, PutObject
<1> QED BY <1>1, <1>2, <1>3, <1>4, <1>5, <1>6 DEF ArchiverStep

(***************************************************************************)
(* The theorems.                                                           *)
(***************************************************************************)
LEMMA ColdInitially == ColdInit => ColdInv
<1>1. ColdInit => AnswerTypes
  BY DEF ColdInit, RestoreInit, AnswerTypes, NoRoute
<1>2. ColdInit => \A r \in Requests : RequestInv(r)
  BY DEF ColdInit, RestoreInit, RequestInv, Answering
<1> QED BY <1>1, <1>2, ArchiverInitially DEF ColdInv

LEMMA ColdStep == ColdInv /\ [ColdNext]_coldVars => ColdInv'
<1> SUFFICES ASSUME ColdInv, [ColdNext]_coldVars PROVE ColdInv'
  OBVIOUS
<1> USE DEF ColdInv
<1>0. store \in [Files -> Classes]
  BY DEF ArchiverInv, ArchiverTypes
<1>1. CASE ArchiverStep /\ UNCHANGED restoreVars
  BY <1>1, ArchiverStepKeeps, ArchiverIsCalm, RequestsAlone DEF restoreVars
<1>2. CASE RestoreStep /\ UNCHANGED archiverVars
  <2>1. CASE \E f \in Files : GlacierDelivers(f)
    <3>1. KeepsFiles /\ UNCHANGED <<today, requestVars>>
      BY <1>0, <2>1, ThawKeeps DEF GlacierDelivers, restoreVars
    <3>2. Calm
      BY <1>0, <1>2, <2>1 DEF GlacierDelivers, Thaw, Ongoing, Calm, Frozen, archiverVars
    <3> QED BY <1>2, <3>1, <3>2, OthersKeep, RequestsAlone
  <2>2. CASE \E r \in Requests : Restore(r)
    <3>1. KeepsFiles /\ AnswerTypes' /\ \A q \in Requests : RequestInv(q)'
      BY <1>2, <2>2, RestoreKeepsAnswers
    <3> QED BY <1>2, <2>2, <3>1, OthersKeep DEF Restore
  <2>3. CASE /\ UNCHANGED <<today, storeVars>>
             /\ AnswerTypes' /\ \A q \in Requests : RequestInv(q)'
    <3>1. KeepsFiles
      BY <1>0, <2>3 DEF KeepsFiles, Stored, storeVars
    <3> QED BY <1>2, <2>3, <3>1, OthersKeep
  <2>4. ASSUME NEW r \in Requests, NEW u \in Users, NEW v \in Vehicles, NEW a \in Days,
               NEW b \in Days, GetRoute(r, u, v, a, b)
        PROVE  ColdInv'
    BY <1>2, <2>3, <2>4, GetRouteKeeps DEF GetRoute
  <2>5. ASSUME NEW r \in Requests,
               \/ HeadObject(r) \/ Register(r) \/ RestoreRefused(r)
               \/ GetObject(r) \/ Answer(r) \/ CallFails(r)
        PROVE  ColdInv'
    <3>1. UNCHANGED <<today, storeVars>>
      BY <2>5 DEF HeadObject, Register, RestoreRefused, GetObject, Answer, CallFails
    <3> QED BY <1>2, <2>3, <2>5, <3>1, HeadKeeps, RegisterKeeps, GetKeeps, AnswerKeeps, CallFailsKeeps
  <2>6. CASE ApiRestart
    BY <1>2, <2>3, <2>6, ApiRestartKeeps DEF ApiRestart
  <2>7. CASE PassStep \/ MailFails \/ PassDies
    <3>1. UNCHANGED <<today, storeVars, requestVars>>
      BY <2>7 DEF PassStep, PassStarts, SelectKeys, CheckKey, GiveUp, MarkCompleted, Notify,
                  MailFails, PassDies
    <3>2. Calm
      BY <1>2, <3>1 DEF Calm, Frozen, storeVars, archiverVars
    <3> QED BY <2>3, <3>1, <3>2, RequestsAlone
  <2> QED BY <1>2, <2>1, <2>2, <2>4, <2>5, <2>6, <2>7 DEF RestoreStep, AnswerStep
<1>3. CASE ColdTick
  BY <1>3, DayKeeps, TickKeepsAnswers DEF ColdTick
<1>4. CASE UNCHANGED coldVars
  <2>1. KeepsFiles /\ Calm
    BY <1>0, <1>4 DEF coldVars, KeepsFiles, Stored, Calm, Frozen, storeVars, archiverVars
  <2> QED BY <1>4, <2>1, OthersKeep, RequestsAlone DEF coldVars, restoreVars
<1> QED BY <1>1, <1>2, <1>3, <1>4 DEF ColdNext

\* The inductive invariant of the cold archive holds in every reachable state:
\* the types, what the archiver's loop has uploaded so far, what the past nights
\* left in the bucket, and what each request of getArchivedRoute has read, days
\* that end in the middle of it included (archiverJob.js:19-96,
\* archiveService.js:35-136).
THEOREM ColdInvariant == ColdSpec => []ColdInv
<1> QED BY ColdInitially, ColdStep, PTL DEF ColdSpec

\* Whatever nights fail or are missed, however long a chunk is and whatever the
\* lags, points are dropped only when their file is in the bucket or their own
\* night was lost (archiverJob.js:20-89).
THEOREM DropsAreArchived == ColdSpec => []DroppedIsArchived
<1>1. ColdInv => DroppedIsArchived
  BY DEF ColdInv, ArchiverInv, PastInv, Safe, DroppedIsArchived
<1> QED BY <1>1, ColdInvariant, PTL

\* Whatever the archiver, other requests, the clock and the bucket's lifecycle do
\* meanwhile, an answer "ready" lacks no day that was archived when it was asked
\* for and that the database let go of, but for those lost to a failure and those
\* that froze or lapsed between HeadObject and GetObject: the two loops leave no
\* other gap (archiveService.js:27-119).
THEOREM ReadyAnswersAreComplete == ColdSpec => []ReadyIsComplete
<1>1. ColdInv => ReadyIsComplete
  BY DEF ColdInv, RequestInv, Answering, Fetched, ArchiverInv, PastInv, ReadyIsComplete
<1> QED BY <1>1, ColdInvariant, PTL

(***************************************************************************)
(* The mails: what a pass of the monitor may rely on.                      *)
(***************************************************************************)
RowTypes ==
  /\ rows \in [Files \X Users -> [group : Requests \cup {NoRequest},
                                  status : {"none", "pending", "completed", "failed"}, age : Nat]]
  /\ since \in [Files -> Nat]
  /\ \A f \in Files : ~Readable(f) => since[f] = 0
  /\ \A k \in Files \X Users : rows[k].status = "pending" => rows[k].group \in Requests
  /\ pass \in {"idle", "groups", "keys", "mail"}
  /\ groups \subseteq Requests
  /\ told \in [Requests -> {"nothing", "completed", "failed"}]
  /\ isExpired \in BOOLEAN /\ allReady \in BOOLEAN

\* A file that is still to be put has never been.
UnputInv ==
  /\ \A v \in Vehicles : ~ran /\ today \in Days => ~Stored(FileOf(v))
  /\ \A v \in todo \ {putting} : ~Stored(FileOf(v))
  /\ \A f \in Files : f[1] > today => ~Stored(f)

\* While a row waits and is not past the cutoff, the others of its group wait or
\* are done; each was asked for on the same day, so no copy has lapsed.
Thawing(f) == store[f] \in {"thawing", "thawed"}

GroupInv ==
  \A k, j \in Files \X Users :
    rows[k].status = "pending" /\ rows[k].age <= Cutoff /\ rows[j].group = rows[k].group =>
      /\ rows[j].status \in {"pending", "completed"}
      /\ Thawing(j[1]) /\ since[j[1]] <= rows[k].age
      /\ rows[j].status = "completed" => Restored(j[1])

\* The rows of a request under way are of today and thaw at best tomorrow, and it
\* will answer "restoring".
FreshInv ==
  \A r \in Requests :
    /\ stage[r] = "insert" => Ongoing(KeyOf(r))
    /\ Answering(r) => asked[r].user \in Users
    /\ \A k \in Files \X Users : rows[k].group = r =>
         /\ stage[r] # "new"
         /\ Answering(r) => /\ isRestoring[r]
                            /\ rows[k].status = "pending" /\ rows[k].age = 0 /\ Ongoing(k[1])

\* What the pass knows of the group at hand.
MonitorInv ==
  /\ \A g \in groups : PendingOf(g) # {}
  /\ pass = "keys" =>
       /\ group \in Requests
       /\ keys \subseteq PendingOf(group) /\ completed \subseteq PendingOf(group)
       /\ \A k \in completed : Restored(k[1])
       /\ isExpired => stage[group] = "done"
       /\ ~isExpired => \A k \in completed : rows[k].age <= Cutoff
       /\ allReady => /\ keys \cup completed # {}
                      /\ \/ PendingOf(group) \subseteq keys \cup completed
                         \/ \E k \in keys : Ongoing(k[1])
  /\ pass \in {"keys", "mail"} => group \notin groups
  /\ pass = "mail" => group \in Requests
  /\ pass = "mail" /\ ~isExpired =>
       /\ stage[group] = "done"
       /\ \A k \in Group(group) : Restored(k[1])

MailInv == RowTypes /\ UnputInv /\ GroupInv /\ FreshInv /\ MonitorInv

\* The bucket leaves what is thawing or thawed alone.
Undisturbed ==
  /\ since' \in [Files -> Nat] /\ \A f \in Files : ~Readable(f)' => since'[f] = 0
  /\ \A f \in Files : Thawing(f) => store'[f] = store[f] /\ since'[f] = since[f]

\* Requests only go on.
StagesMove ==
  \A r \in Requests :
    /\ stage[r] = "done" => stage'[r] = "done"
    /\ stage'[r] = "new" => stage[r] = "new"
    /\ Answering(r)' => /\ asked'[r].user \in Users /\ (Answering(r) \/ stage[r] = "new")
                        /\ isRestoring[r] => isRestoring'[r]
    /\ stage'[r] = "insert" => Ongoing(KeyOf(r))'

LEMMA RowsStay ==
  ASSUME MailInv, Undisturbed, StagesMove, UNCHANGED <<rows, passVars, told>>
  PROVE  RowTypes' /\ GroupInv' /\ FreshInv' /\ MonitorInv'
<1> USE DEF MailInv, passVars
<1>1. RowTypes'
  BY DEF RowTypes, Undisturbed
<1>2. \A k \in Files \X Users : k[1] \in Files
  OBVIOUS
<1>3. \A f \in Files : /\ Thawing(f) => Thawing(f)' /\ since'[f] = since[f]
                       /\ Ongoing(f) => Ongoing(f)'
                       /\ Restored(f) => Restored(f)'
  BY DEF Undisturbed, Thawing, Ongoing, Restored
<1>4. GroupInv'
  BY <1>2, <1>3 DEF GroupInv
<1>5. FreshInv'
  BY <1>2, <1>3 DEF FreshInv, StagesMove
<1>6. MonitorInv'
  <2>1. \A g : PendingOf(g)' = PendingOf(g) /\ Group(g)' = Group(g)
    BY DEF PendingOf, Group
  <2>2. \A g : PendingOf(g) \subseteq Files \X Users /\ Group(g) \subseteq Files \X Users
    BY DEF PendingOf, Group, RowTypes
  <2>3. pass = "keys" => keys \subseteq Files \X Users /\ completed \subseteq Files \X Users
    BY <2>2 DEF MonitorInv
  <2> QED BY <1>2, <1>3, <2>1, <2>2, <2>3 DEF MonitorInv, StagesMove
<1> QED BY <1>1, <1>4, <1>5, <1>6

\* Requests that go on to another file while the bucket is left alone.
LEMMA NextKeyMoves ==
  ASSUME AnswerTypes, MailInv, NEW r \in Requests, Answering(r), stage[r] # "ready", InRange(r),
         NEW restoring \in BOOLEAN, isRestoring[r] => restoring, NextKey(r, restoring),
         UNCHANGED store
  PROVE  StagesMove
<1> USE DEF MailInv
<1>1. /\ \A q \in Requests \ {r} : stage'[q] = stage[q] /\ asked'[q] = asked[q] /\ cursor'[q] = cursor[q]
      /\ stage'[r] \in {"head", "get", "ready", "done"}
      /\ \A q \in Requests \ {r} : isRestoring'[q] = isRestoring[q]
      /\ stage'[r] = "done" \/ asked'[r] = asked[r]
  BY Advance
<1>a. stage'[r] = "done" \/ (isRestoring[r] => isRestoring'[r])
  <2>1. stage'[r] = "done" \/ isRestoring'[r] = restoring \/ ~restoring
    BY Advance
  <2> QED BY <2>1
<1>2. \A q \in Requests \ {r} : KeyOf(q)' = KeyOf(q)
  BY <1>1 DEF KeyOf
<1>3. \A q \in Requests \ {r} : stage[q] = "insert" => Ongoing(KeyOf(q))'
  BY <1>2 DEF FreshInv, Ongoing
<1> QED BY <1>1, <1>a, <1>3 DEF StagesMove, Answering, FreshInv

LEMMA ReturnMoves ==
  ASSUME AnswerTypes, MailInv, NEW rs \in SUBSET Requests, Return(rs), UNCHANGED store,
         \A r \in rs : Answering(r)
  PROVE  StagesMove
<1> USE DEF MailInv
<1>1. /\ \A q \in Requests \ rs : stage'[q] = stage[q] /\ asked'[q] = asked[q] /\ cursor'[q] = cursor[q]
      /\ \A q \in Requests \ rs : isRestoring[q] => isRestoring'[q]
      /\ \A q \in rs : stage'[q] = "done"
  BY DEF Return
<1>2. \A q \in Requests \ rs : KeyOf(q)' = KeyOf(q)
  BY <1>1 DEF KeyOf
<1>3. \A q \in Requests \ rs : stage[q] = "insert" => Ongoing(KeyOf(q))'
  BY <1>2 DEF FreshInv, Ongoing
<1> QED BY <1>1, <1>3 DEF StagesMove, Answering, FreshInv

\* A step that leaves the bucket alone.
LEMMA StillStore ==
  ASSUME MailInv, UNCHANGED storeVars
  PROVE  Undisturbed
BY DEF MailInv, RowTypes, Undisturbed, Thawing, Readable, storeVars

LEMMA StillUnput ==
  ASSUME ArchiverInv, UnputInv, UNCHANGED <<today, archiverVars>>,
         \A f \in Files : ~Stored(f) => ~Stored(f)'
  PROVE  UnputInv'
<1>1. /\ \A v \in Vehicles : today \in Days => FileOf(v) \in Files
      /\ \A v \in todo : FileOf(v) \in Files
  BY DEF FileOf, Files, ArchiverInv, ArchiverTypes, LoopInv, Moved
<1> QED BY <1>1 DEF UnputInv, archiverVars, FileOf, Stored

\* The loops of the route handler, but for its restores and its rows.
LEMMA LoopsKeepMail ==
  ASSUME ColdInv, MailInv, NEW r \in Requests,
         \/ HeadObject(r) \/ RestoreRefused(r) \/ GetObject(r) \/ Answer(r) \/ CallFails(r)
  PROVE  RowTypes' /\ GroupInv' /\ FreshInv' /\ MonitorInv'
<1>1. AnswerTypes /\ (Answering(r) => InRange(r)) /\ isRestoring[r] \in BOOLEAN
  BY DEF ColdInv, RequestInv, AnswerTypes
<1>2. UNCHANGED <<storeVars, rows, passVars, told>>
  BY DEF HeadObject, RestoreRefused, GetObject, Answer, CallFails
<1>3. CASE HeadObject(r) /\ MustWait(KeyOf(r)) /\ ~Ongoing(KeyOf(r))
  <2>1. /\ stage' = [stage EXCEPT ![r] = "restore"] /\ stage[r] = "head"
        /\ \A q \in Requests : isRestoring[q] => isRestoring'[q]
        /\ UNCHANGED <<asked, cursor, store>>
    BY <1>1, <1>3 DEF HeadObject, storeVars, AnswerTypes
  <2>2. StagesMove
    BY <1>1, <2>1 DEF StagesMove, AnswerTypes, Answering, MailInv, FreshInv, KeyOf, Ongoing
  <2> QED BY <1>2, <2>2, RowsStay, StillStore
<1>4. CASE Answer(r)
  <2>1. Return({r}) /\ Answering(r)
    BY <1>4 DEF Answer, Answering
  <2> QED BY <1>1, <1>2, <2>1, ReturnMoves, RowsStay, StillStore DEF storeVars
<1>5. CASE ~Answer(r) /\ ~(HeadObject(r) /\ MustWait(KeyOf(r)) /\ ~Ongoing(KeyOf(r)))
  <2>1. /\ Answering(r) /\ stage[r] # "ready"
        /\ \/ NextKey(r, isRestoring[r] \/ MustWait(KeyOf(r)))
           \/ NextKey(r, TRUE)
           \/ NextKey(r, isRestoring[r])
    BY <1>5 DEF HeadObject, RestoreRefused, GetObject, CallFails, Answering
  <2>2. (isRestoring[r] \/ MustWait(KeyOf(r))) \in BOOLEAN
    BY <1>1 DEF MustWait, Ongoing
  <2>3. StagesMove
    BY <1>1, <1>2, <2>1, <2>2, NextKeyMoves DEF storeVars
  <2> QED BY <1>2, <2>3, RowsStay, StillStore
<1> QED BY <1>3, <1>4, <1>5

LEMMA GetRouteKeepsMail ==
  ASSUME ColdInv, MailInv, NEW r \in Requests, NEW u \in Users, NEW v \in Vehicles, NEW a \in Days,
         NEW b \in Days, GetRoute(r, u, v, a, b)
  PROVE  RowTypes' /\ GroupInv' /\ FreshInv' /\ MonitorInv'
<1>1. /\ AnswerTypes /\ stage[r] = "new"
      /\ UNCHANGED <<isRestoring, storeVars, rows, passVars, told>>
  BY DEF GetRoute, ColdInv
<1>2. /\ stage' = [stage EXCEPT ![r] = "head"] /\ asked'[r].user = u
      /\ \A q \in Requests \ {r} : asked'[q] = asked[q] /\ cursor'[q] = cursor[q]
  BY <1>1 DEF GetRoute, AnswerTypes
<1>3. StagesMove
  BY <1>1, <1>2 DEF StagesMove, AnswerTypes, Answering, MailInv, FreshInv, KeyOf, Ongoing, storeVars
<1> QED BY <1>1, <1>3, RowsStay, StillStore

LEMMA RestoreKeepsMail ==
  ASSUME ColdInv, MailInv, NEW r \in Requests, Restore(r)
  PROVE  RowTypes' /\ GroupInv' /\ FreshInv' /\ MonitorInv' /\ \A f \in Files : ~Stored(f) => ~Stored(f)'
<1> DEFINE f == KeyOf(r)
<1>1. /\ AnswerTypes /\ stage[r] = "restore" /\ store \in [Files -> Classes]
      /\ UNCHANGED <<asked, cursor, isRestoring, rows, passVars, told, since>>
      /\ stage' = [stage EXCEPT ![r] = "insert"]
      /\ store[f] = "cold" /\ store' = [store EXCEPT ![f] = "thawing"]
  BY DEF Restore, RestoreObject, ColdInv, ArchiverInv, ArchiverTypes
<1>2. \A q \in Requests : Answering(q) => KeyOf(q) \in Files
  BY <1>1, KeyAtCursor DEF ColdInv, RequestInv
<1>3. f \in Files
  BY <1>1, <1>2 DEF Answering
<1>4. KeyOf(r)' = f /\ \A q \in Requests : KeyOf(q)' = KeyOf(q)
  BY <1>1 DEF KeyOf
<1> HIDE DEF f
<1>5. Undisturbed
  BY <1>1, <1>3 DEF Undisturbed, Thawing, Readable, MailInv, RowTypes
<1>6. StagesMove
  <2>1. ASSUME NEW q \in Requests, stage'[q] = "insert" PROVE Ongoing(KeyOf(q))'
    <3>1. CASE q = r
      BY <1>1, <1>3, <1>4, <3>1 DEF Ongoing, f
    <3>2. CASE q # r
      <4>1. stage[q] = "insert" /\ Ongoing(KeyOf(q)) /\ KeyOf(q) \in Files
        BY <1>1, <1>2, <2>1, <3>2 DEF AnswerTypes, MailInv, FreshInv, Answering
      <4> QED BY <1>1, <1>3, <1>4, <4>1 DEF Ongoing
    <3> QED BY <3>1, <3>2
  <2>2. ASSUME NEW q \in Requests
        PROVE  /\ stage[q] = "done" => stage'[q] = "done"
               /\ stage'[q] = "new" => stage[q] = "new"
               /\ Answering(q)' => asked'[q].user \in Users /\ Answering(q)
               /\ isRestoring[q] => isRestoring'[q]
    BY <1>1 DEF AnswerTypes, Answering, MailInv, FreshInv
  <2> QED BY <2>1, <2>2 DEF StagesMove
<1>7. \A g \in Files : ~Stored(g) => ~Stored(g)'
  BY <1>1, <1>3 DEF Stored
<1> QED BY <1>1, <1>5, <1>6, <1>7, RowsStay

\* A new row is of today, like the others of its request.
LEMMA RegisterKeepsMail ==
  ASSUME ColdInv, MailInv, NEW r \in Requests, Register(r)
  PROVE  RowTypes' /\ GroupInv' /\ FreshInv' /\ MonitorInv'
<1> DEFINE n == RowOf(r)
<1>1. /\ AnswerTypes /\ Answering(r) /\ stage[r] = "insert" /\ InRange(r)
      /\ UNCHANGED <<storeVars, passVars, told>>
      /\ NextKey(r, TRUE)
      /\ rows' = IF rows[n] # NoRow THEN rows
                 ELSE [rows EXCEPT ![n] = [group |-> r, status |-> "pending", age |-> 0]]
  BY DEF Register, ColdInv, RequestInv, Answering
<1>2. StagesMove /\ Undisturbed
  BY <1>1, NextKeyMoves, StillStore DEF storeVars
<1>3. n \in Files \X Users /\ Ongoing(n[1]) /\ since[n[1]] = 0
  <2>1. KeyOf(r) \in Files /\ asked[r].user \in Users /\ Ongoing(KeyOf(r))
    BY <1>1, KeyAtCursor DEF MailInv, FreshInv
  <2>2. ~Readable(KeyOf(r))
    BY <2>1 DEF Ongoing, Readable
  <2> QED BY <2>1, <2>2 DEF RowOf, MailInv, RowTypes
<1> HIDE DEF n
<1>4. CASE rows[n] # NoRow
  BY <1>1, <1>2, <1>4, RowsStay
<1>5. CASE rows[n] = NoRow
  <2>1. /\ rows' = [rows EXCEPT ![n] = [group |-> r, status |-> "pending", age |-> 0]]
        /\ rows[n].status = "none"
    BY <1>1, <1>5 DEF NoRow
  <2>2. /\ rows'[n] = [group |-> r, status |-> "pending", age |-> 0]
        /\ \A k \in Files \X Users : k # n => rows'[k] = rows[k]
    BY <1>3, <2>1 DEF MailInv, RowTypes
  <2>3. RowTypes'
    BY <1>1, <1>3, <2>1, <2>2 DEF MailInv, RowTypes, passVars, storeVars, Readable
  <2>4. \A k \in Files \X Users : rows[k].group = r =>
          rows[k].status = "pending" /\ rows[k].age = 0 /\ Ongoing(k[1]) /\ since[k[1]] = 0
    <3>1. \A f \in Files : Ongoing(f) => since[f] = 0
      BY DEF Ongoing, Readable, MailInv, RowTypes
    <3>2. \A k \in Files \X Users : k[1] \in Files
      OBVIOUS
    <3> QED BY <1>1, <3>1, <3>2 DEF MailInv, FreshInv
  <2>5. \A k \in Files \X Users : rows'[k].group = r =>
          rows'[k].status = "pending" /\ rows'[k].age = 0 /\ Ongoing(k[1]) /\ since[k[1]] = 0
    BY <1>3, <2>2, <2>4
  <2>6. GroupInv'
    <3>1. ASSUME NEW k \in Files \X Users, NEW j \in Files \X Users,
                 rows'[k].status = "pending", rows'[k].age <= Cutoff, rows'[j].group = rows'[k].group
          PROVE  /\ rows'[j].status \in {"pending", "completed"}
                 /\ Thawing(j[1])
                 /\ since[j[1]] <= rows'[k].age
                 /\ rows'[j].status = "completed" => Restored(j[1])
      <4>1. CASE rows'[k].group = r
        BY <2>5, <3>1, <4>1 DEF Ongoing, Thawing
      <4>2. CASE rows'[k].group # r
        BY <2>2, <3>1, <4>2 DEF MailInv, GroupInv
      <4> QED BY <4>1, <4>2
    <3> QED BY <1>1, <3>1 DEF GroupInv, Thawing, Restored, storeVars
  <2>7. FreshInv'
    <3>1. ASSUME NEW q \in Requests, NEW k \in Files \X Users, rows'[k].group = q
          PROVE  /\ stage'[q] # "new"
                 /\ Answering(q)' => /\ isRestoring'[q]
                                     /\ rows'[k].status = "pending" /\ rows'[k].age = 0 /\ Ongoing(k[1])
      <4>1. CASE q = r
        <5>1. isRestoring[r]
          BY <1>1 DEF ColdInv, RequestInv
        <5> QED BY <1>1, <1>2, <2>5, <3>1, <4>1, <5>1 DEF StagesMove
      <4>2. CASE q # r
        BY <1>2, <2>2, <3>1, <4>2 DEF StagesMove, MailInv, FreshInv
      <4> QED BY <4>1, <4>2
    <3> QED BY <1>1, <1>2, <3>1 DEF FreshInv, StagesMove, Ongoing, storeVars
  <2>8. MonitorInv'
    <3>1. \A g \in Requests : /\ PendingOf(g) \subseteq PendingOf(g)'
                              /\ g # r => PendingOf(g)' = PendingOf(g) /\ Group(g)' = Group(g)
      <4>1. DOMAIN rows = Files \X Users /\ DOMAIN rows' = Files \X Users
        BY <2>1 DEF MailInv, RowTypes
      <4>2. rows[n].group = NoRequest /\ NoRequest \notin Requests
        BY <1>5, RestoreAssumption DEF NoRow
      <4> QED BY <1>3, <2>1, <2>2, <4>1, <4>2 DEF PendingOf, Group
    <3>2. n \notin PendingOf(group)
      BY <2>1 DEF PendingOf
    <3>3. ASSUME pass = "keys", allReady
          PROVE  PendingOf(group)' \subseteq keys \cup completed \/ \E k \in keys : Ongoing(k[1])
      <4>1. CASE group = r
        <5>1. \A k \in PendingOf(group) : Ongoing(k[1])
          BY <2>4, <4>1 DEF PendingOf, MailInv, RowTypes
        <5>2. completed = {}
          BY <3>3, <5>1 DEF MailInv, MonitorInv, Ongoing, Restored
        <5> QED BY <3>3, <5>1, <5>2 DEF MailInv, MonitorInv
      <4>2. CASE group # r
        <5>1. group' = group /\ group \in Requests
          BY <1>1, <3>3 DEF MailInv, MonitorInv, passVars
        <5>2. PendingOf(group)' = PendingOf(group)
          BY <3>1, <4>2, <5>1 DEF PendingOf
        <5> QED BY <3>3, <5>2 DEF MailInv, MonitorInv
      <4> QED BY <4>1, <4>2
    <3>4. pass = "keys" /\ ~isExpired => \A k \in completed : rows'[k].age <= Cutoff
      <4>1. pass = "keys" => \A k \in completed : k # n /\ k \in Files \X Users
        BY <3>2 DEF MailInv, MonitorInv, PendingOf, RowTypes
      <4> QED BY <2>2, <4>1 DEF MailInv, MonitorInv
    <3>5. /\ groups \subseteq Requests
          /\ pass = "keys" => group \in Requests
      BY DEF MailInv, MonitorInv, RowTypes
    <3>6. stage[r] # "done" /\ \A q \in Requests : stage[q] = "done" => stage'[q] = "done"
      BY <1>1, <1>2 DEF StagesMove
    <3>7. /\ \A g \in groups : PendingOf(g)' # {}
          /\ pass = "keys" => keys \subseteq PendingOf(group)' /\ completed \subseteq PendingOf(group)'
          /\ pass = "mail" /\ ~isExpired => Group(group)' = Group(group)
      <4>1. group' = group /\ (pass \in {"keys", "mail"} => group \in Requests)
        BY <1>1 DEF MailInv, MonitorInv, passVars
      <4>2. pass \in {"keys", "mail"} => PendingOf(group) \subseteq PendingOf(group)'
        BY <3>1, <4>1 DEF PendingOf
      <4>3. pass = "mail" /\ ~isExpired => Group(group)' = Group(group)
        BY <3>1, <3>6, <4>1 DEF Group, MailInv, MonitorInv
      <4> QED BY <3>1, <3>5, <4>2, <4>3 DEF MailInv, MonitorInv
    <3> QED BY <1>1, <3>3, <3>4, <3>5, <3>6, <3>7
        DEF MailInv, MonitorInv, passVars, Ongoing, Restored, storeVars
  <2> QED BY <2>3, <2>6, <2>7, <2>8
<1> QED BY <1>4, <1>5

\* The archiver puts only files that never were, so nothing thawing is replaced.
LEMMA ArchiverKeepsMail ==
  ASSUME ColdInv, MailInv, ArchiverStep, UNCHANGED restoreVars
  PROVE  MailInv'
<1> USE DEF MailInv
<1>1. ArchiverInv /\ store \in [Files -> Classes] /\ points \subseteq Files
  BY DEF ColdInv, ArchiverInv, ArchiverTypes
<1>2. UnputInv' /\ Undisturbed
  <2>1. ASSUME NEW v \in Vehicles, Upload(v) PROVE UnputInv' /\ Undisturbed
    <3>1. /\ v \in todo /\ putting = NoVehicle /\ putting' = v
          /\ UNCHANGED <<today, todo, ran>> /\ ran
      BY <1>1, <2>1 DEF Upload, ArchiverInv, LoopInv
    <3>2. \A w \in todo : FileOf(w) \in Files /\ w \in Vehicles
      BY <1>1 DEF ArchiverInv, ArchiverTypes, LoopInv, Moved, FileOf
    <3>3. PICK f \in Files : f = FileOf(v)
      BY <3>1, <3>2
    <3>4. /\ store' = [store EXCEPT ![f] = "standard"] /\ since' = [since EXCEPT ![f] = 0]
      BY <2>1, <3>3 DEF Upload, PutObject
    <3>5. ~Stored(f)
      BY <3>1, <3>3, ArchiverAssumption DEF UnputInv
    <3>6. Undisturbed
      BY <1>1, <3>4, <3>5 DEF Undisturbed, Thawing, Readable, Stored, RowTypes
    <3>7. \A w \in todo : w # v => FileOf(w) # f
      BY <3>3 DEF FileOf
    <3>8. f[1] = today
      BY <3>3 DEF FileOf
    <3>9. UnputInv'
      <4>1. \A g \in Files : g # f => Stored(g)' = Stored(g)
        BY <1>1, <3>4 DEF Stored
      <4>2. \A w \in (todo \ {putting})' : w \in todo \ {putting} /\ FileOf(w) # f /\ FileOf(w) \in Files
        BY <3>1, <3>2, <3>7, ArchiverAssumption
      <4>3. \A w \in (todo \ {putting})' : ~Stored(FileOf(w))'
        BY <3>1, <4>1, <4>2 DEF UnputInv, FileOf, Stored
      <4>4. \A g \in Files : g[1] > today => g # f /\ ~Stored(g)'
        <5>1. today \in Nat
          BY <1>1 DEF ArchiverInv, ArchiverTypes
        <5> QED BY <3>8, <4>1, <5>1 DEF UnputInv
      <4> QED BY <3>1, <4>3, <4>4 DEF UnputInv, FileOf, Stored
    <3> QED BY <3>6, <3>9
  <2>2. CASE RunArchiveJob
    <3>1. today \in Days \/ Moved = {}
      BY <1>1 DEF Moved, Files
    <3>2. Moved \subseteq Vehicles
      BY DEF Moved
    <3> QED BY <2>2, <3>1, <3>2, StillStore DEF RunArchiveJob, UnputInv, FileOf, Stored, storeVars
  <2>3. CASE Verify
    BY <2>3, StillStore DEF Verify, UnputInv, FileOf, Stored, storeVars, ArchiverInv, LoopInv
  <2>4. CASE DropOldChunks \/ RetentionPolicy
    BY <2>4, StillStore DEF DropOldChunks, RetentionPolicy, UnputInv, FileOf, Stored, storeVars
  <2>5. CASE ArchiveJobFails
    BY <2>5, StillStore DEF ArchiveJobFails, UnputInv, FileOf, Stored, storeVars
  <2> QED BY <2>1, <2>2, <2>3, <2>4, <2>5 DEF ArchiverStep
<1>3. StagesMove
  <2>1. \A q \in Requests : stage[q] = "insert" => KeyOf(q) \in Files /\ KeyOf(q)' = KeyOf(q)
    BY KeyAtCursor DEF ColdInv, RequestInv, Answering, KeyOf, restoreVars, requestVars
  <2>2. \A q \in Requests : stage[q] = "insert" => Ongoing(KeyOf(q))'
    BY <1>2, <2>1 DEF FreshInv, Ongoing, Undisturbed, Thawing
  <2> QED BY <2>2 DEF StagesMove, Answering, FreshInv, restoreVars, requestVars
<1> QED BY <1>2, <1>3, RowsStay DEF restoreVars

\* Nothing happens to a request or in the bucket during a step of the pass.
LEMMA PassLeaves ==
  ASSUME PassStep \/ MailFails \/ PassDies
  PROVE  UNCHANGED <<today, storeVars, requestVars>>
BY DEF PassStep, PassStarts, SelectKeys, CheckKey, GiveUp, MarkCompleted, Notify, MailFails, PassDies

\* A pass that reads only.
LEMMA RowsRead ==
  ASSUME MailInv, UNCHANGED <<storeVars, requestVars, rows>>,
         pass' \in {"idle", "groups", "keys", "mail"}, groups' \subseteq Requests,
         told' \in [Requests -> {"nothing", "completed", "failed"}],
         isExpired' \in BOOLEAN, allReady' \in BOOLEAN
  PROVE  RowTypes' /\ GroupInv' /\ FreshInv'
<1> USE DEF MailInv, storeVars, requestVars
<1>1. RowTypes'
  BY DEF RowTypes, Readable
<1>2. GroupInv'
  BY DEF GroupInv, Thawing, Restored
<1>3. FreshInv'
  BY DEF FreshInv, Ongoing, KeyOf, Answering
<1> QED BY <1>1, <1>2, <1>3

LEMMA NextGroupKeeps ==
  ASSUME MailInv, NEW left \in SUBSET groups, NextGroup(left), UNCHANGED rows
  PROVE  MonitorInv'
<1>1. \A g : PendingOf(g)' = PendingOf(g)
  BY DEF PendingOf
<1> QED BY <1>1 DEF NextGroup, MonitorInv, MailInv

LEMMA ReadsKeepMail ==
  ASSUME ColdInv, MailInv, NEW k0,
         PassStarts \/ SelectKeys \/ (k0 \in keys /\ CheckKey(k0)) \/ Notify \/ MailFails \/ PassDies
  PROVE  RowTypes' /\ GroupInv' /\ FreshInv' /\ MonitorInv'
<1> USE DEF MailInv
<1>1. UNCHANGED <<storeVars, requestVars, rows>> /\ AnswerTypes
  BY DEF PassStarts, SelectKeys, CheckKey, Notify, MailFails, PassDies, ColdInv
<1>2. \A g : PendingOf(g)' = PendingOf(g) /\ Group(g)' = Group(g)
  BY <1>1 DEF PendingOf, Group
<1>3. CASE PassStarts
  <2>1. RowTypes' /\ GroupInv' /\ FreshInv'
    BY <1>1, <1>3, RowsRead DEF PassStarts, RowTypes
  <2>2. MonitorInv'
    BY <1>2, <1>3 DEF PassStarts, MonitorInv
  <2> QED BY <2>1, <2>2
<1>4. CASE SelectKeys
  <2>1. PICK g \in groups : group' = g /\ groups' = groups \ {g} /\ keys' = PendingOf(g)
    BY <1>4 DEF SelectKeys
  <2>2. RowTypes' /\ GroupInv' /\ FreshInv'
    BY <1>1, <1>4, <2>1, RowsRead DEF SelectKeys, RowTypes
  <2>3. g \in Requests /\ PendingOf(g) # {} /\ PendingOf(group)' = PendingOf(g)
    BY <1>1, <2>1 DEF RowTypes, MonitorInv, PendingOf
  <2>4. MonitorInv'
    BY <1>2, <1>4, <2>1, <2>3 DEF SelectKeys, MonitorInv
  <2> QED BY <2>2, <2>4
<1>5. CASE k0 \in keys /\ CheckKey(k0)
  <2>1. /\ pass = "keys" /\ UNCHANGED <<pass, group, groups, told>>
        /\ keys' = keys \ {k0} /\ isExpired' = (isExpired \/ TooOld(k0))
        /\ \/ Restored(k0[1]) /\ completed' = completed \cup {k0} /\ allReady' = allReady
           \/ allReady' = FALSE /\ completed' = completed
    BY <1>5 DEF CheckKey
  <2>2. isExpired' \in BOOLEAN /\ allReady' \in BOOLEAN
    BY <2>1 DEF RowTypes, TooOld
  <2>3. RowTypes' /\ GroupInv' /\ FreshInv'
    BY <1>1, <2>1, <2>2, RowsRead DEF RowTypes
  <2>4. /\ group \in Requests /\ k0 \in PendingOf(group) /\ k0 \in Files \X Users
        /\ rows[k0].group = group /\ rows[k0].age \in Nat
    BY <1>5, <2>1 DEF MonitorInv, PendingOf, RowTypes
  <2>5. TooOld(k0) => stage[group] = "done"
    <3>1. TooOld(k0) => rows[k0].age # 0
      BY RestoreAssumption DEF TooOld
    <3>2. TooOld(k0) => ~Answering(group) /\ stage[group] # "new"
      BY <2>4, <3>1 DEF FreshInv
    <3> QED BY <1>1, <2>4, <3>2 DEF AnswerTypes, Answering
  <2>6. ~TooOld(k0) => rows[k0].age <= Cutoff
    BY <2>4, RestoreAssumption DEF TooOld
  <2>7. \A k : Restored(k[1])' = Restored(k[1]) /\ Ongoing(k[1])' = Ongoing(k[1])
    BY <1>1 DEF Restored, Ongoing, storeVars
  <2>8. /\ stage' = stage /\ PendingOf(group)' = PendingOf(group) /\ Group(group)' = Group(group)
    BY <1>1, <2>1 DEF requestVars, PendingOf, Group
  <2>9. isExpired' => stage[group] = "done"
    BY <2>1, <2>5 DEF MonitorInv
  <2>10. ~isExpired' => \A k \in completed' : rows[k].age <= Cutoff
    BY <2>1, <2>6 DEF MonitorInv
  <2>11. allReady' => /\ keys' \cup completed' # {}
                      /\ \/ PendingOf(group) \subseteq keys' \cup completed'
                         \/ \E k \in keys' : Ongoing(k[1])
    <3>1. SUFFICES ASSUME allReady'
                   PROVE  /\ keys' \cup completed' # {}
                          /\ \/ PendingOf(group) \subseteq keys' \cup completed'
                             \/ \E k \in keys' : Ongoing(k[1])
      OBVIOUS
    <3>2. Restored(k0[1]) /\ allReady /\ keys' \cup completed' = keys \cup completed
      BY <1>5, <2>1, <3>1
    <3>3. \A k \in keys : Ongoing(k[1]) => k \in keys'
      BY <2>1, <3>2 DEF Ongoing, Restored
    <3> QED BY <2>1, <3>2, <3>3 DEF MonitorInv
  <2>12. keys' \subseteq PendingOf(group) /\ completed' \subseteq PendingOf(group)
         /\ \A k \in completed' : Restored(k[1])
    BY <2>1, <2>4 DEF MonitorInv
  <2>13. MonitorInv'
    BY <1>1, <1>2, <2>1, <2>4, <2>7, <2>8, <2>9, <2>10, <2>11, <2>12 DEF MonitorInv
  <2> QED BY <2>3, <2>13
<1>6. CASE Notify \/ MailFails \/ PassDies
  <2>1. /\ NextGroup(groups) \/ NextGroup({})
        /\ told' \in [Requests -> {"nothing", "completed", "failed"}]
    BY <1>6 DEF Notify, MailFails, PassDies, RowTypes
  <2>2. RowTypes' /\ GroupInv' /\ FreshInv'
    BY <1>1, <2>1, RowsRead DEF NextGroup, RowTypes
  <2> QED BY <1>1, <2>1, <2>2, NextGroupKeeps
<1> QED BY <1>3, <1>4, <1>5, <1>6

LEMMA GiveUpKeepsMail ==
  ASSUME ColdInv, MailInv, GiveUp
  PROVE  RowTypes' /\ GroupInv' /\ FreshInv' /\ MonitorInv'
<1> USE DEF MailInv
<1>1. /\ UNCHANGED <<storeVars, requestVars, told, groups, group, isExpired, allReady>>
      /\ pass = "keys" /\ isExpired /\ pass' = "mail"
      /\ group \in Requests /\ stage[group] = "done"
  BY DEF GiveUp, MonitorInv
<1>2. \A k \in Files \X Users :
        rows'[k] = IF rows[k].group = group
                     THEN [group |-> group, status |-> "failed", age |-> 0] ELSE rows[k]
  BY DEF GiveUp, SetRows, Group, RowTypes
<1>3. DOMAIN rows = Files \X Users /\ DOMAIN rows' = Files \X Users
  BY DEF GiveUp, SetRows, RowTypes
<1>4. RowTypes'
  <2>1. rows' = [k \in Files \X Users |-> rows'[k]]
    BY <1>3 DEF GiveUp, SetRows
  <2>2. \A k \in Files \X Users : rows'[k] \in [group : Requests \cup {NoRequest},
               status : {"none", "pending", "completed", "failed"}, age : Nat]
    BY <1>1, <1>2 DEF RowTypes
  <2> HIDE DEF MailInv
  <2> QED BY <1>1, <1>2, <2>1, <2>2 DEF RowTypes, storeVars, Readable, MailInv
<1>5. GroupInv'
  BY <1>1, <1>2 DEF GroupInv, Thawing, Restored, storeVars
<1>6. FreshInv'
  <2>1. ~Answering(group)
    BY <1>1 DEF Answering
  <2> QED BY <1>1, <1>2, <2>1 DEF FreshInv, Ongoing, KeyOf, Answering, storeVars, requestVars
<1>7. MonitorInv'
  <2>1. \A g \in groups : g # group /\ PendingOf(g)' = PendingOf(g)
    BY <1>1, <1>2, <1>3 DEF PendingOf, MonitorInv
  <2> QED BY <1>1, <2>1 DEF MonitorInv
<1> QED BY <1>4, <1>5, <1>6, <1>7

\* When every file that waits was found thawed, those done before are thawed too.
LEMMA AllThawed ==
  ASSUME ColdInv, MailInv, pass = "keys", keys = {}, ~isExpired, allReady
  PROVE  stage[group] = "done" /\ \A k \in Group(group) : Restored(k[1])
<1> USE DEF MailInv
<1>1. PendingOf(group) \subseteq completed /\ completed # {} /\ completed \subseteq PendingOf(group)
  BY DEF MonitorInv
<1>2. PICK k \in completed : k \in Files \X Users /\ rows[k].group = group /\ rows[k].status = "pending"
                             /\ rows[k].age <= Cutoff /\ Restored(k[1]) /\ group \in Requests
  BY <1>1 DEF MonitorInv, PendingOf, RowTypes
<1>3. ~Answering(group) /\ stage[group] # "new"
  BY <1>2 DEF FreshInv, Restored, Ongoing
<1>4. stage[group] = "done"
  BY <1>2, <1>3 DEF ColdInv, AnswerTypes, Answering
<1>5. ASSUME NEW j \in Group(group) PROVE Restored(j[1])
  <2>1. j \in Files \X Users /\ rows[j].group = group
    BY DEF Group, RowTypes
  <2>2. rows[j].status \in {"pending", "completed"} /\ (rows[j].status = "completed" => Restored(j[1]))
    BY <1>2, <2>1 DEF GroupInv
  <2>3. rows[j].status = "pending" => j \in completed
    BY <1>1, <2>1 DEF PendingOf, RowTypes
  <2> QED BY <2>2, <2>3 DEF MonitorInv
<1> QED BY <1>4, <1>5

LEMMA MarkKeepsMail ==
  ASSUME ColdInv, MailInv, MarkCompleted
  PROVE  RowTypes' /\ GroupInv' /\ FreshInv' /\ MonitorInv'
<1> USE DEF MailInv
<1>1. /\ UNCHANGED <<storeVars, requestVars, told>>
      /\ pass = "keys" /\ keys = {} /\ ~isExpired
      /\ \/ allReady /\ pass' = "mail" /\ UNCHANGED <<groups, group, keys, completed, allReady, isExpired>>
         \/ NextGroup(groups)
  BY DEF MarkCompleted
<1>2. /\ \A k \in completed : /\ k \in Files \X Users /\ Restored(k[1])
                              /\ rows[k].group = group /\ rows[k].status = "pending"
      /\ group \in Requests
  BY <1>1 DEF MonitorInv, PendingOf, RowTypes
<1>3. /\ \A k \in Files \X Users :
           rows'[k] = IF k \in completed
                        THEN [group |-> rows[k].group, status |-> "completed", age |-> 0] ELSE rows[k]
      /\ DOMAIN rows = Files \X Users /\ DOMAIN rows' = Files \X Users
  BY DEF MarkCompleted, SetRows, RowTypes
<1>4. RowTypes'
  <2>1. rows' = [k \in Files \X Users |-> rows'[k]]
    BY <1>3 DEF MarkCompleted, SetRows
  <2>2. \A k \in Files \X Users : rows'[k] \in [group : Requests \cup {NoRequest},
               status : {"none", "pending", "completed", "failed"}, age : Nat]
    BY <1>3 DEF RowTypes
  <2>3. \A k \in Files \X Users : rows'[k].status = "pending" => rows'[k].group \in Requests
    BY <1>3 DEF RowTypes
  <2>4. /\ pass' \in {"idle", "groups", "keys", "mail"} /\ groups' = groups
        /\ isExpired' \in BOOLEAN /\ allReady' \in BOOLEAN
    BY <1>1 DEF NextGroup, RowTypes
  <2>5. /\ rows' \in [Files \X Users -> [group : Requests \cup {NoRequest},
               status : {"none", "pending", "completed", "failed"}, age : Nat]]
    BY <2>1, <2>2
  <2> QED BY <1>1, <2>3, <2>4, <2>5 DEF RowTypes, storeVars, Readable
<1>5. GroupInv'
  <2>1. ASSUME NEW k \in Files \X Users, NEW j \in Files \X Users,
               rows'[k].status = "pending", rows'[k].age <= Cutoff, rows'[j].group = rows'[k].group
        PROVE  /\ rows'[j].status \in {"pending", "completed"}
               /\ Thawing(j[1]) /\ since[j[1]] <= rows'[k].age
               /\ rows'[j].status = "completed" => Restored(j[1])
    <3>1. rows'[k] = rows[k] /\ rows'[j].group = rows[j].group
      BY <1>3, <2>1
    <3>2. /\ rows[j].status \in {"pending", "completed"}
          /\ Thawing(j[1]) /\ since[j[1]] <= rows[k].age
          /\ rows[j].status = "completed" => Restored(j[1])
      BY <2>1, <3>1 DEF GroupInv
    <3> QED BY <1>2, <1>3, <3>1, <3>2
  <2> QED BY <1>1, <2>1 DEF GroupInv, Thawing, Restored, storeVars
<1>6. FreshInv'
  <2>1. ASSUME NEW r \in Requests, NEW k \in Files \X Users, rows'[k].group = r
        PROVE  /\ stage[r] # "new"
               /\ Answering(r) => /\ isRestoring[r]
                                  /\ rows'[k].status = "pending" /\ rows'[k].age = 0 /\ Ongoing(k[1])
    <3>1. rows[k].group = r
      BY <1>3, <2>1
    <3>2. Answering(r) => k \notin completed
      BY <1>2, <3>1 DEF FreshInv, Ongoing, Restored
    <3> QED BY <1>3, <3>1, <3>2 DEF FreshInv
  <2> QED BY <1>1, <2>1 DEF FreshInv, Ongoing, KeyOf, Answering, storeVars, requestVars
<1>7. MonitorInv'
  <2>1. \A g \in groups : g # group /\ PendingOf(g)' = PendingOf(g)
    <3>1. \A g \in groups : g # group
      BY <1>1 DEF MonitorInv
    <3> QED BY <1>2, <1>3, <3>1 DEF PendingOf
  <2>2. CASE allReady /\ pass' = "mail" /\ UNCHANGED <<groups, group, keys, completed, allReady, isExpired>>
    <3>1. stage[group] = "done" /\ \A k \in Group(group) : Restored(k[1])
      BY <1>1, <2>2, AllThawed
    <3>2. Group(group)' = Group(group)
      BY <1>3, <2>2 DEF Group
    <3> QED BY <1>1, <1>2, <2>1, <2>2, <3>1, <3>2 DEF MonitorInv, Restored, storeVars, requestVars
  <2>3. CASE NextGroup(groups)
    BY <2>1, <2>3 DEF NextGroup, MonitorInv
  <2> QED BY <1>1, <2>2, <2>3
<1> QED BY <1>4, <1>5, <1>6, <1>7

\* A file thaws.
LEMMA ThawKeepsMail ==
  ASSUME ColdInv, MailInv, NEW f \in Files, GlacierDelivers(f)
  PROVE  /\ RowTypes' /\ GroupInv' /\ FreshInv' /\ MonitorInv'
         /\ \A g \in Files : ~Stored(g) => ~Stored(g)'
<1> USE DEF MailInv
<1>1. /\ Ongoing(f) /\ store \in [Files -> Classes] /\ UNCHANGED restoreVars
      /\ store' = [store EXCEPT ![f] = "thawed"] /\ since' = [since EXCEPT ![f] = 0]
      /\ pass = "idle" /\ \A r \in Requests : Answering(r) => ~isRestoring[r]
  BY DEF GlacierDelivers, Thaw, Quiet, ColdInv, ArchiverInv, ArchiverTypes
<1> USE DEF restoreVars, requestVars, passVars
<1>2. RowTypes'
  BY <1>1 DEF RowTypes, Readable
<1>3. \A g \in Files : /\ Thawing(g) => Thawing(g)' /\ (since'[g] = since[g] \/ since'[g] = 0)
                       /\ Restored(g) => Restored(g)'
  BY <1>1 DEF RowTypes, Thawing, Restored
<1>4. \A k \in Files \X Users : k[1] \in Files
  OBVIOUS
<1>5. GroupInv'
  BY <1>1, <1>3, <1>4 DEF GroupInv, RowTypes
<1>6. FreshInv'
  BY <1>1 DEF FreshInv, Answering, ColdInv, RequestInv
<1>7. MonitorInv'
  <2>1. \A g : PendingOf(g)' = PendingOf(g)
    BY <1>1 DEF PendingOf
  <2> QED BY <1>1, <2>1 DEF MonitorInv
<1>8. \A g \in Files : ~Stored(g) => ~Stored(g)'
  BY <1>1 DEF Stored, Ongoing
<1> QED BY <1>2, <1>5, <1>6, <1>7, <1>8

\* A day passes: what a waiting row's group was given ages with the row, and the
\* row is past the cutoff before the copy lapses.
LEMMA TickKeepsMail ==
  ASSUME ColdInv, MailInv, ColdTick
  PROVE  MailInv'
<1> USE DEF MailInv
<1>1. /\ store \in [Files -> Classes] /\ StoreAges /\ todo \subseteq Vehicles /\ today \in Nat
      /\ pass = "idle" /\ \A r \in Requests : Answering(r) => ~isRestoring[r]
      /\ UNCHANGED <<stage, asked, cursor, isRestoring, passVars, told, todo, putting>>
  BY DEF ColdTick, DayPasses, RowsAge, Quiet, ColdInv, ArchiverInv, ArchiverTypes
<1>2. \A k \in Files \X Users :
        rows'[k] = IF rows[k].status = "pending" /\ rows[k].age <= Cutoff
                     THEN [rows[k] EXCEPT !.age = @ + 1] ELSE rows[k]
  BY DEF ColdTick, RowsAge, RowTypes
<1>3. \A k \in Files \X Users :
        /\ rows'[k].status = rows[k].status /\ rows'[k].group = rows[k].group
        /\ rows'[k].age \in Nat
        /\ rows[k].status = "pending" /\ rows'[k].age <= Cutoff => rows'[k].age = rows[k].age + 1
        /\ rows'[k] \in [group : Requests \cup {NoRequest},
                         status : {"none", "pending", "completed", "failed"}, age : Nat]
  <2>1. ASSUME NEW k \in Files \X Users
        PROVE  /\ rows'[k].status = rows[k].status /\ rows'[k].group = rows[k].group
               /\ rows'[k].age \in Nat
               /\ rows[k].status = "pending" /\ rows'[k].age <= Cutoff => rows'[k].age = rows[k].age + 1
               /\ rows'[k] \in [group : Requests \cup {NoRequest},
                                status : {"none", "pending", "completed", "failed"}, age : Nat]
    <3>1. rows[k] \in [group : Requests \cup {NoRequest},
                       status : {"none", "pending", "completed", "failed"}, age : Nat]
      BY DEF RowTypes
    <3>2. CASE rows[k].status = "pending" /\ rows[k].age <= Cutoff
      <4>1. rows'[k] = [rows[k] EXCEPT !.age = rows[k].age + 1]
        BY <1>2, <3>2
      <4>2. rows[k].age + 1 \in Nat
        BY <3>1
      <4> QED BY <3>1, <4>1, <4>2
    <3>3. CASE ~(rows[k].status = "pending" /\ rows[k].age <= Cutoff)
      BY <1>2, <3>1, <3>3
    <3> QED BY <3>2, <3>3
  <2> QED BY <2>1
<1>4. \A f \in Files :
        /\ store'[f] = IF Freezes(f) THEN "cold" ELSE store[f]
        /\ since'[f] = IF Readable(f) /\ ~Freezes(f) THEN since[f] + 1 ELSE 0
  BY <1>1 DEF StoreAges
<1> USE DEF requestVars, passVars
<1>5. RowTypes'
  <2>1. /\ rows' = [k \in Files \X Users |-> rows'[k]] /\ since' = [f \in Files |-> since'[f]]
    BY <1>1 DEF ColdTick, RowsAge, StoreAges, RowTypes
  <2>2. \A k \in Files \X Users : rows'[k] \in [group : Requests \cup {NoRequest},
               status : {"none", "pending", "completed", "failed"}, age : Nat]
    BY <1>3
  <2>3. \A f \in Files : since'[f] \in Nat /\ (~Readable(f)' => since'[f] = 0)
    BY <1>4 DEF RowTypes, Readable, Freezes
  <2>4. rows' \in [Files \X Users -> [group : Requests \cup {NoRequest},
               status : {"none", "pending", "completed", "failed"}, age : Nat]]
        /\ since' \in [Files -> Nat]
    BY <2>1, <2>2, <2>3
  <2> QED BY <1>1, <1>3, <2>3, <2>4 DEF RowTypes
<1>6. UnputInv'
  <2>1. \A f \in Files : ~Stored(f) => ~Stored(f)'
    BY <1>4 DEF Stored, Freezes
  <2>2. todo = {}
    BY DEF ColdTick, DayPasses, ColdInv, ArchiverInv, LoopInv
  <2>3. CASE today = MaxToday
    <3>1. today' = today /\ ran' = ran
      BY <2>3 DEF ColdTick, DayPasses
    <3>2. \A v \in Vehicles : today \in Days => FileOf(v) \in Files
      BY DEF FileOf, Files
    <3> QED BY <1>1, <2>1, <2>2, <3>1, <3>2 DEF UnputInv, FileOf, Stored
  <2>4. CASE today # MaxToday
    <3>1. today' = today + 1
      BY <2>4 DEF ColdTick, DayPasses
    <3>2. \A f \in Files : f[1] \in Int
      BY DEF Files, Days
    <3>3. \A f \in Files : f[1] >= today + 1 => ~Stored(f)'
      BY <1>1, <2>1, <3>2 DEF UnputInv
    <3>4. \A v \in Vehicles : today' \in Days => FileOf(v)' \in Files /\ FileOf(v)'[1] = today + 1
      BY <3>1 DEF FileOf, Files
    <3>5. \A v \in Vehicles : today' \in Days => ~Stored(FileOf(v))'
      BY <1>1, <3>1, <3>3, <3>4 DEF FileOf, Stored
    <3> QED BY <1>1, <2>2, <3>1, <3>2, <3>3, <3>5 DEF UnputInv
  <2> QED BY <2>3, <2>4
<1>7. GroupInv'
  <2>1. ASSUME NEW k \in Files \X Users, NEW j \in Files \X Users,
               rows'[k].status = "pending", rows'[k].age <= Cutoff, rows'[j].group = rows'[k].group
        PROVE  /\ rows'[j].status \in {"pending", "completed"}
               /\ Thawing(j[1])' /\ since'[j[1]] <= rows'[k].age
               /\ rows'[j].status = "completed" => Restored(j[1])'
    <3> DEFINE f == j[1]
    <3>1. f \in Files
      OBVIOUS
    <3>2. rows'[k].age = rows[k].age + 1 /\ rows[k].age \in Nat /\ rows[k].age < Cutoff
      BY <1>3, <2>1, RestoreAssumption DEF RowTypes
    <3>3. /\ rows[j].status \in {"pending", "completed"}
          /\ Thawing(f) /\ since[f] <= rows[k].age
          /\ rows[j].status = "completed" => Restored(f)
      BY <1>3, <2>1, <3>2, RestoreAssumption DEF GroupInv
    <3> HIDE DEF f
    <3>4. ~Freezes(f)
      <4>1. since[f] \in Nat
        BY <3>1 DEF RowTypes
      <4>2. since[f] + 1 < ThawedDays
        BY <3>2, <3>3, <4>1, RestoreAssumption, CutoffAssumption, StoreAssumption
      <4> QED BY <3>3, <4>1, <4>2, StoreAssumption DEF Freezes, Thawing
    <3>5. store'[f] = store[f] /\ since'[f] <= since[f] + 1 /\ since[f] \in Nat
      BY <1>4, <3>1, <3>4 DEF RowTypes
    <3>6. since'[f] \in Nat /\ since'[f] <= rows'[k].age
      BY <1>4, <3>1, <3>2, <3>3, <3>4, <3>5 DEF RowTypes
    <3> QED BY <1>3, <3>3, <3>5, <3>6 DEF Thawing, Restored, f
  <2> QED BY <2>1 DEF GroupInv
<1>8. FreshInv'
  BY <1>1, <1>3 DEF FreshInv, Answering, ColdInv, RequestInv
<1>9. MonitorInv'
  <2>1. DOMAIN rows = Files \X Users /\ DOMAIN rows' = Files \X Users
    BY DEF ColdTick, RowsAge, RowTypes
  <2>2. \A g : PendingOf(g)' = PendingOf(g)
    BY <1>3, <2>1 DEF PendingOf
  <2> QED BY <1>1, <2>2 DEF MonitorInv
<1> QED BY <1>5, <1>6, <1>7, <1>8, <1>9

LEMMA MailInitially == ColdInit => MailInv
<1> SUFFICES ASSUME ColdInit PROVE MailInv
  OBVIOUS
<1> USE DEF ColdInit, StoreInit, ArchiverInit, RestoreInit
<1>1. /\ \A k \in Files \X Users : rows[k] = [group |-> NoRequest, status |-> "none", age |-> 0]
      /\ NoRequest \notin Requests
  BY RestoreAssumption DEF NoRow
<1>2. RowTypes
  BY <1>1 DEF RowTypes, NoRow
<1>3. UnputInv
  <2>1. \A v \in Vehicles : today \in Days => FileOf(v) \in Files
    BY DEF FileOf, Files
  <2> QED BY <2>1 DEF UnputInv, Stored
<1>4. GroupInv /\ FreshInv
  BY <1>1 DEF GroupInv, FreshInv, Answering
<1>5. MonitorInv
  BY DEF MonitorInv
<1> QED BY <1>2, <1>3, <1>4, <1>5 DEF MailInv

LEMMA MailStep ==
  ASSUME ColdInv, MailInv, [ColdNext]_coldVars
  PROVE  MailInv'
<1>1. ArchiverInv /\ UnputInv
  BY DEF ColdInv, MailInv
<1>2. CASE ArchiverStep /\ UNCHANGED restoreVars
  BY <1>2, ArchiverKeepsMail
<1>3. CASE RestoreStep /\ UNCHANGED archiverVars
  <2>1. ASSUME RowTypes' /\ GroupInv' /\ FreshInv' /\ MonitorInv', UNCHANGED today,
               \A f \in Files : ~Stored(f) => ~Stored(f)'
        PROVE  MailInv'
    BY <1>1, <1>3, <2>1, StillUnput DEF MailInv
  <2>2. UNCHANGED storeVars => \A f \in Files : ~Stored(f) => ~Stored(f)'
    BY DEF storeVars, Stored
  <2>3. ASSUME NEW r \in Requests, NEW u \in Users, NEW v \in Vehicles, NEW a \in Days,
               NEW b \in Days, GetRoute(r, u, v, a, b)
        PROVE  MailInv'
    BY <2>1, <2>2, <2>3, GetRouteKeepsMail DEF GetRoute
  <2>4. ASSUME NEW r \in Requests,
               \/ HeadObject(r) \/ RestoreRefused(r) \/ GetObject(r) \/ Answer(r) \/ CallFails(r)
        PROVE  MailInv'
    <3>1. UNCHANGED <<today, storeVars>>
      BY <2>4 DEF HeadObject, RestoreRefused, GetObject, Answer, CallFails
    <3> QED BY <2>1, <2>2, <2>4, <3>1, LoopsKeepMail
  <2>5. ASSUME NEW r \in Requests, Restore(r) PROVE MailInv'
    <3>1. UNCHANGED today
      BY <2>5 DEF Restore
    <3> QED BY <2>1, <2>5, <3>1, RestoreKeepsMail
  <2>6. ASSUME NEW r \in Requests, Register(r) PROVE MailInv'
    <3>1. UNCHANGED <<today, storeVars>>
      BY <2>6 DEF Register
    <3> QED BY <2>1, <2>2, <2>6, <3>1, RegisterKeepsMail
  <2>7. CASE ApiRestart
    <3>1. /\ UNCHANGED <<today, storeVars, rows, passVars, told>>
          /\ Return({r \in Requests : Answering(r)})
      BY <2>7 DEF ApiRestart
    <3>2. StagesMove
      BY <3>1, ReturnMoves DEF ColdInv, storeVars
    <3> QED BY <2>1, <2>2, <3>1, <3>2, RowsStay, StillStore
  <2>8. CASE PassStep \/ MailFails \/ PassDies
    <3>1. UNCHANGED <<today, storeVars>>
      BY <2>8, PassLeaves
    <3>2. RowTypes' /\ GroupInv' /\ FreshInv' /\ MonitorInv'
      BY <2>8, ReadsKeepMail, GiveUpKeepsMail, MarkKeepsMail DEF PassStep
    <3> QED BY <2>1, <2>2, <3>1, <3>2
  <2>9. ASSUME NEW f \in Files, GlacierDelivers(f) PROVE MailInv'
    <3>1. UNCHANGED today
      BY <2>9 DEF GlacierDelivers
    <3> QED BY <2>1, <2>9, <3>1, ThawKeepsMail
  <2> QED BY <1>3, <2>3, <2>4, <2>5, <2>6, <2>7, <2>8, <2>9 DEF RestoreStep, AnswerStep
<1>4. CASE ColdTick
  BY <1>4, TickKeepsMail
<1>5. CASE UNCHANGED coldVars
  <2>1. /\ UNCHANGED <<today, storeVars, archiverVars, rows, passVars, told, requestVars>>
        /\ \A f \in Files : ~Stored(f) => ~Stored(f)'
    BY <1>5 DEF coldVars, restoreVars, storeVars, Stored
  <2>2. StagesMove
    BY <2>1 DEF StagesMove, MailInv, FreshInv, Ongoing, KeyOf, Answering, storeVars, requestVars
  <2> QED BY <1>1, <2>1, <2>2, RowsStay, StillStore, StillUnput DEF MailInv
<1> QED BY <1>2, <1>3, <1>4, <1>5 DEF ColdNext

\* "ALL files restored" is mailed only when every file the request registered is
\* readable, those completed by earlier passes included, for any requests, users,
\* ages and faults, as long as a restore is given up before a copy lapses
\* (restoreMonitorJob.js:33-39, 76-81; archiveService.js:62).
THEOREM MailsTellTheTruth == ColdSpec => NotifiedWhenThawed
<1>1. ColdInv /\ MailInv /\ [ColdNext]_coldVars =>
        [\A g \in Requests :
           told'[g] = "completed" /\ told[g] # "completed" => \A k \in Group(g) : Restored(k[1])
        ]_<<storeVars, restoreVars>>
  <2> SUFFICES ASSUME ColdInv, MailInv, [ColdNext]_coldVars, NEW g \in Requests,
                      told'[g] = "completed", told[g] # "completed"
               PROVE  \A k \in Group(g) : Restored(k[1])
    OBVIOUS
  <2>1. told' # told
    OBVIOUS
  <2>2. Notify
    <3>1. ~UNCHANGED coldVars /\ ~ColdTick /\ ~UNCHANGED restoreVars
      BY <2>1 DEF coldVars, restoreVars, ColdTick, RowsAge
    <3>2. RestoreStep
      BY <3>1 DEF ColdNext
    <3> QED BY <2>1, <3>2
        DEF RestoreStep, AnswerStep, PassStep, GetRoute, HeadObject, Restore, Register, RestoreRefused,
            GetObject, Answer, CallFails, ApiRestart, PassStarts, SelectKeys, CheckKey, GiveUp,
            MarkCompleted, MailFails, PassDies, GlacierDelivers, restoreVars
  <2>3. g = group /\ ~isExpired
    BY <2>2 DEF Notify, MailInv, RowTypes
  <2> QED BY <2>2, <2>3 DEF Notify, MailInv, MonitorInv
<1>2. ColdInit => ColdInv /\ MailInv
  BY ColdInitially, MailInitially
<1>3. ColdInv /\ MailInv /\ [ColdNext]_coldVars => (ColdInv /\ MailInv)'
  BY ColdStep, MailStep
<1> QED BY <1>1, <1>2, <1>3, PTL DEF ColdSpec, NotifiedWhenThawed

(***************************************************************************)
(* The ledger of the archive.                                              *)
(***************************************************************************)
\* A file whose night was lost is not in the bucket and will never be, and the
\* bucket has nothing that did not come from the database.
LostInv ==
  /\ \A f \in missed : /\ f \in points \cup dropped /\ ~Stored(f) /\ f[1] <= today
                       /\ f[1] = today => ran /\ job = "idle"
  /\ \A f \in Files : Stored(f) => f \in points \cup dropped

\* What was told stays true: the rows of the request are settled and it has
\* nothing left to register.
SettledInv ==
  /\ pass = "keys" => PendingOf(group) # {} /\ told[group] = "nothing"
  /\ pass = "mail" => /\ stage[group] = "done" /\ told[group] = "nothing" /\ Group(group) # {}
                      /\ \A k \in Group(group) :
                           rows[k].status = IF isExpired THEN "failed" ELSE "completed"
  /\ \A g \in Requests : told[g] # "nothing" =>
       stage[g] = "done" /\ \A k \in Group(g) : rows[k].status = told[g]

\* What the bucket's own steps and those of its users leave: who was stored is,
\* and nothing new is.
KeepsStored == \A f \in Files : Stored(f)' = Stored(f)

LEMMA LostElse ==
  ASSUME ArchiverInv, LostInv, KeepsStored, UNCHANGED <<today, archiverVars>>
  PROVE  LostInv'
<1>1. points \cup dropped \subseteq Files
  BY DEF ArchiverInv, ArchiverTypes
<1> QED BY <1>1 DEF LostInv, KeepsStored, archiverVars

LEMMA RestoreStores ==
  ASSUME store \in [Files -> Classes], RestoreStep
  PROVE  KeepsStored /\ UNCHANGED today
<1>1. ASSUME NEW r \in Requests, Restore(r) PROVE KeepsStored /\ UNCHANGED today
  BY <1>1 DEF Restore, RestoreObject, KeepsStored, Stored
<1>2. ASSUME NEW f \in Files, GlacierDelivers(f) PROVE KeepsStored /\ UNCHANGED today
  BY <1>2 DEF GlacierDelivers, Thaw, Ongoing, KeepsStored, Stored
<1>3. CASE UNCHANGED <<today, storeVars>>
  BY <1>3 DEF storeVars, KeepsStored, Stored
<1>4. ASSUME NEW r \in Requests, NEW u \in Users, NEW v \in Vehicles, NEW a \in Days,
             NEW b \in Days, GetRoute(r, u, v, a, b)
      PROVE  UNCHANGED <<today, storeVars>>
  BY <1>4 DEF GetRoute
<1>5. ASSUME NEW r \in Requests,
             \/ HeadObject(r) \/ Register(r) \/ RestoreRefused(r)
             \/ GetObject(r) \/ Answer(r) \/ CallFails(r)
      PROVE  UNCHANGED <<today, storeVars>>
  BY <1>5 DEF HeadObject, Register, RestoreRefused, GetObject, Answer, CallFails
<1>6. CASE ApiRestart
  BY <1>3, <1>6 DEF ApiRestart
<1> QED BY <1>1, <1>2, <1>3, <1>4, <1>5, <1>6, PassLeaves DEF RestoreStep, AnswerStep

\* The archiver's steps: what each does to the places of the files.
Shifts == \A f \in Files : Place(f)' = Place(f) \/ <<Place(f), Place(f)'>> \in Ledger!Shifts

LEMMA PlacesSame ==
  ASSUME ArchiverInv, KeepsStored, UNCHANGED <<points, missed, dropped>>
  PROVE  Shifts
BY DEF KeepsStored, Shifts, Place

LEMMA UploadShifts ==
  ASSUME ArchiverInv, LostInv, UnputInv, NEW v \in Vehicles, Upload(v)
  PROVE  LostInv' /\ Shifts
<1>0. PICK g \in Files : g = FileOf(v) /\ g \in points /\ g[1] = today
  BY DEF Upload, ArchiverInv, LoopInv, Moved, ArchiverTypes, FileOf
<1>1. /\ job = "upload" /\ UNCHANGED <<today, points, missed, dropped, ran>>
      /\ g \in points /\ g \notin dropped /\ g[1] = today /\ store \in [Files -> Classes]
  BY <1>0 DEF Upload, ArchiverInv, ArchiverTypes, PastInv
<1>2. g \notin missed
  BY <1>1 DEF LostInv
<1>3. /\ Stored(g)'
      /\ \A f \in Files \ {g} : Stored(f)' = Stored(f)
  <2>1. store' = [store EXCEPT ![g] = "standard"]
    BY <1>0 DEF Upload, PutObject
  <2> QED BY <1>1, <2>1 DEF Stored
<1>4. \A f \in missed : f[1] # today
  BY <1>1 DEF LostInv
<1>5. points \cup dropped \subseteq Files
  BY DEF ArchiverInv, ArchiverTypes
<1>6. LostInv'
  <2>1. \A f \in missed' : /\ f \in points' \cup dropped' /\ ~Stored(f)' /\ f[1] <= today'
                           /\ f[1] # today'
    BY <1>1, <1>2, <1>3, <1>4, <1>5 DEF LostInv
  <2>2. \A f \in Files : Stored(f)' => f \in points' \cup dropped'
    BY <1>1, <1>3 DEF LostInv
  <2> QED BY <2>1, <2>2 DEF LostInv
<1>7. ASSUME NEW f \in Files
      PROVE  Place(f)' = Place(f) \/ <<Place(f), Place(f)'>> \in Ledger!Shifts
  <2>1. CASE f = g
    BY <1>1, <1>2, <1>3, <2>1 DEF Place, Ledger!Shifts
  <2>2. CASE f # g
    BY <1>1, <1>3, <2>2 DEF Place
  <2> QED BY <2>1, <2>2
<1> QED BY <1>6, <1>7 DEF Shifts

LEMMA DropShifts ==
  ASSUME ArchiverInv, LostInv, NEW lag \in Nat \ {0}, DropChunks(lag),
         UNCHANGED <<today, store, ran, missed>>, job' \in {job, "idle"}
  PROVE  LostInv' /\ Shifts
<1>1. /\ points \subseteq Files /\ dropped \subseteq Files /\ today \in Nat
      /\ \A f \in Files : Stored(f)' = Stored(f)
  BY DEF ArchiverInv, ArchiverTypes, Stored
<1>2. /\ points' \cup dropped' = points \cup dropped
      /\ dropped \subseteq dropped' /\ points' \subseteq points
      /\ \A f \in points : f \in points' \/ f \in dropped'
      /\ \A f \in dropped' : f \in dropped \/ (f \in points /\ Past(f[1], lag))
  BY DEF DropChunks
<1>3. \A f \in dropped' \ dropped : Safe(f)
  <2>1. ASSUME NEW f \in dropped' \ dropped PROVE Safe(f)
    <3>1. f \in points /\ Past(f[1], lag) /\ f[1] \in Int
      BY <1>1, <1>2 DEF Files, Days
    <3>2. f[1] < today
      BY <1>1, <3>1, PastIsPast
    <3> QED BY <3>1, <3>2 DEF ArchiverInv, PastInv
  <2> QED BY <2>1
<1>4. LostInv'
  <2>1. \A f \in missed' : /\ f \in points' \cup dropped' /\ ~Stored(f)' /\ f[1] <= today'
                           /\ f[1] = today' => ran' /\ job' = "idle"
    BY <1>1, <1>2 DEF LostInv
  <2> QED BY <1>1, <1>2, <2>1 DEF LostInv
<1>5. ASSUME NEW f \in Files
      PROVE  Place(f)' = Place(f) \/ <<Place(f), Place(f)'>> \in Ledger!Shifts
  <2>1. CASE f \in dropped \/ f \notin dropped'
    BY <1>1, <1>2, <2>1 DEF Place
  <2>2. CASE f \in dropped' \ dropped
    <3>1. f \in points /\ (Stored(f) \/ f \in missed)
      BY <1>2, <1>3, <2>2 DEF Safe
    <3> QED BY <1>1, <2>2, <3>1 DEF Place, Ledger!Shifts
  <2> QED BY <2>1, <2>2
<1> QED BY <1>4, <1>5 DEF Shifts

\* The rest of the archiver's job, and the night.
LEMMA JobShifts ==
  ASSUME ArchiverInv, LostInv, UnputInv,
         RunArchiveJob \/ Verify \/ ArchiveJobFails \/ DayPasses
  PROVE  LostInv' /\ Shifts
<1>1. /\ points \subseteq Files /\ dropped \subseteq Files /\ store \in [Files -> Classes]
      /\ today \in Nat
      /\ UNCHANGED <<points, dropped>>
  BY DEF ArchiverInv, ArchiverTypes, RunArchiveJob, Verify, ArchiveJobFails, DayPasses
<1>2. \A f \in Files : Stored(f)' = Stored(f)
  <2>1. CASE UNCHANGED storeVars
    BY <2>1 DEF storeVars, Stored
  <2>2. CASE StoreAges
    BY <1>1, <2>2 DEF StoreAges, Freezes, Stored
  <2> QED BY <2>1, <2>2 DEF RunArchiveJob, Verify, ArchiveJobFails, DayPasses
\* Who is missed now was still to be put.
<1>3. /\ missed \subseteq missed'
      /\ \A f \in missed' \ missed : f \in points /\ ~Stored(f) /\ f[1] = today /\ f \notin dropped
  <2>1. ASSUME NEW v \in Moved, ~ran
        PROVE  FileOf(v) \in points /\ ~Stored(FileOf(v)) /\ FileOf(v)[1] = today
               /\ FileOf(v) \notin dropped
    BY <1>1, <2>1 DEF UnputInv, Moved, FileOf, ArchiverInv, PastInv, Files
  <2>2. ASSUME NEW v \in todo \ {putting}
        PROVE  FileOf(v) \in points /\ ~Stored(FileOf(v)) /\ FileOf(v)[1] = today
               /\ FileOf(v) \notin dropped
    BY <1>1, <2>2 DEF UnputInv, Moved, FileOf, ArchiverInv, LoopInv, PastInv
  <2>3. CASE RunArchiveJob \/ Verify
    BY <2>3 DEF RunArchiveJob, Verify
  <2>4. CASE ArchiveJobFails
    BY <2>1, <2>2, <2>4 DEF ArchiveJobFails
  <2>5. CASE DayPasses
    BY <2>1, <2>5 DEF DayPasses
  <2> QED BY <2>3, <2>4, <2>5
<1>4. /\ \A f \in missed' : f[1] <= today'
      /\ \A f \in missed' : f[1] = today' => ran' /\ job' = "idle"
  <2>1. CASE RunArchiveJob
    BY <2>1 DEF RunArchiveJob, LostInv
  <2>2. CASE Verify
    BY <2>2 DEF Verify, LostInv
  <2>3. CASE ArchiveJobFails
    BY <1>1, <1>3, <2>3 DEF ArchiveJobFails, LostInv
  <2>4. CASE DayPasses
    <3>1. CASE today = MaxToday
      BY <2>4, <3>1 DEF DayPasses, LostInv
    <3>2. CASE today' = today + 1
      <4>1. \A f \in missed' : f \in Files /\ f[1] \in Int /\ f[1] <= today
        BY <1>1, <1>3 DEF LostInv, Files, Days
      <4> QED BY <1>1, <3>2, <4>1
    <3> QED BY <2>4, <3>1, <3>2 DEF DayPasses
  <2> QED BY <2>1, <2>2, <2>3, <2>4
<1>5. LostInv'
  <2>1. \A f \in missed' : f \in points' \cup dropped' /\ ~Stored(f)'
    BY <1>1, <1>2, <1>3 DEF LostInv
  <2> QED BY <1>1, <1>2, <1>4, <2>1 DEF LostInv
<1>6. ASSUME NEW f \in Files
      PROVE  Place(f)' = Place(f) \/ <<Place(f), Place(f)'>> \in Ledger!Shifts
  <2>1. CASE f \in missed' \ missed
    BY <1>1, <1>2, <1>3, <2>1 DEF Place, Ledger!Shifts
  <2>2. CASE f \in missed \/ f \notin missed'
    BY <1>1, <1>2, <1>3, <2>2 DEF Place
  <2> QED BY <2>1, <2>2
<1> QED BY <1>5, <1>6 DEF Shifts

LEMMA ArchiverShifts ==
  ASSUME ArchiverInv, LostInv, UnputInv, ArchiverStep \/ DayPasses
  PROVE  LostInv' /\ Shifts
<1>1. CASE DropOldChunks
  <2>1. DropLag \in Nat \ {0}
    BY ArchiverAssumption
  <2> QED BY <1>1, <2>1, DropShifts DEF DropOldChunks, storeVars
<1>2. CASE RetentionPolicy
  <2>1. RetentionLag \in Nat \ {0}
    BY ArchiverAssumption
  <2> QED BY <1>2, <2>1, DropShifts DEF RetentionPolicy, storeVars
<1> QED BY <1>1, <1>2, UploadShifts, JobShifts DEF ArchiverStep

(***************************************************************************)
(* The rows and the mails.                                                 *)
(***************************************************************************)
\* How a step moves the rows and the mails of the ledger, or not at all.
NoMove == UNCHANGED <<Restores, told>>
Move(g) == \/ \E k \in Files \X Users : Ledger!Ask(k, g)
           \/ Ledger!Complete(g) \/ Ledger!GiveUp(g) \/ Ledger!Tell(g)

\* A request that has returned stays so.
DoneStays == \A r \in Requests : stage[r] = "done" => stage'[r] = "done"

LEMMA RowsAlone ==
  ASSUME MailInv, SettledInv, DoneStays, UNCHANGED <<passVars, told>>,
         DOMAIN rows' = DOMAIN rows,
         \A k \in Files \X Users : /\ rows'[k].group = rows[k].group
                                   /\ rows'[k].status = rows[k].status
  PROVE  SettledInv' /\ NoMove
<1>1. DOMAIN rows = Files \X Users
  BY DEF MailInv, RowTypes
<1>2. PendingOf(group)' = PendingOf(group) /\ \A g : Group(g)' = Group(g)
  BY <1>1 DEF PendingOf, Group, passVars
<1>3. pass = "mail" => group \in Requests
  BY DEF MailInv, MonitorInv
<1>4. NoMove
  BY <1>1 DEF NoMove, Restores
<1>5. SettledInv'
  <2>1. /\ pass' = pass /\ group' = group /\ told' = told /\ isExpired' = isExpired
    BY DEF passVars
  <2>2. \A g \in Requests : told[g] # "nothing" =>
          stage'[g] = "done" /\ \A k \in Group(g)' : rows'[k].status = told[g]
    BY <1>1, <1>2 DEF SettledInv, DoneStays, Group
  <2>3. pass = "mail" => /\ Group(group) # {}
                         /\ \A k \in Group(group) :
                              rows'[k].status = IF isExpired THEN "failed" ELSE "completed"
    BY <1>1 DEF SettledInv, Group
  <2>4. pass = "mail" => stage'[group] = "done"
    BY <1>3 DEF SettledInv, DoneStays
  <2> QED BY <1>2, <2>1, <2>2, <2>3, <2>4 DEF SettledInv
<1> QED BY <1>4, <1>5

\* The route handler: it may register a row, of a request nothing was settled of.
LEMMA RequestsSettle ==
  ASSUME AnswerTypes, MailInv, SettledInv, NEW r \in Requests,
         \/ HeadObject(r) \/ Restore(r) \/ RestoreRefused(r)
         \/ GetObject(r) \/ Answer(r) \/ CallFails(r)
  PROVE  SettledInv' /\ NoMove
<1>1. UNCHANGED <<rows, passVars, told>>
  BY DEF HeadObject, Restore, RestoreRefused, GetObject, Answer, CallFails
<1>2. DoneStays
  BY DEF HeadObject, Restore, RestoreRefused, GetObject, Answer, CallFails, DoneStays,
     AnswerTypes, NextKey, Return, Answering
<1> QED BY <1>1, <1>2, RowsAlone

LEMMA RegisterAsks ==
  ASSUME ColdInv, LostInv, MailInv, SettledInv, NEW r \in Requests, Register(r),
         UNCHANGED archiverVars
  PROVE  SettledInv' /\ (NoMove \/ \E k \in Files \X Users : Ledger!Ask(k, r))
<1>1. /\ UNCHANGED <<storeVars, passVars, told>> /\ stage[r] = "insert"
      /\ RowOf(r) \in Files \X Users /\ Ongoing(KeyOf(r))
  BY KeyAtCursor DEF Register, MailInv, FreshInv, RowOf, Answering, ColdInv, RequestInv
<1>2. DoneStays
  BY DEF ColdInv, Register, DoneStays, AnswerTypes, NextKey, Return
<1>3. CASE rows[RowOf(r)] # NoRow
  <2>1. rows' = rows
    BY <1>3 DEF Register
  <2> QED BY <1>1, <1>2, <2>1, RowsAlone
<1>4. CASE rows[RowOf(r)] = NoRow
  <2>1. PICK k \in Files \X Users : k = RowOf(r) /\ Ongoing(k[1])
    BY <1>1 DEF RowOf
  <2>2. /\ rows' = [rows EXCEPT ![k] = [group |-> r, status |-> "pending", age |-> 0]]
        /\ rows[k] = NoRow /\ rows[k].group = NoRequest /\ rows[k].status = "none"
        /\ DOMAIN rows = Files \X Users
    BY <1>4, <2>1 DEF Register, NoRow, MailInv, RowTypes
  <2>3. told[r] = "nothing" /\ \A j \in Files \X Users : rows[j].group = r => rows[j].status = "pending"
    BY <1>1 DEF MailInv, FreshInv, Answering, SettledInv
  <2>4. Ledger!Ask(k, r)
    <3>1. Place(k[1]) \in {"both", "archive"} /\ k[1] \in Files
      BY <2>1 DEF Place, LostInv, Stored, Ongoing
    <3>2. Restores[k] = Ledger!NoRestore
      BY <2>2 DEF Restores, Ledger!NoRestore
    <3>3. Ledger!All(r, "pending")
      BY <2>3 DEF Ledger!All, Ledger!Group, Ledger!Slots, Restores
    <3>4. Restores' = [s \in Ledger!Slots |->
                         IF s \in {k} THEN [group |-> r, status |-> "pending"] ELSE Restores[s]]
      BY <2>2 DEF Restores, Ledger!Slots
    <3>5. Places' = Places
      BY <1>1 DEF Places, Place, Stored, storeVars, archiverVars
    <3> QED BY <1>1, <2>3, <3>1, <3>2, <3>3, <3>4, <3>5 DEF Ledger!Ask, Ledger!Becomes, Places
  <2>5. SettledInv'
    <3>1. /\ \A g \in Requests \ {r} : Group(g)' = Group(g)
          /\ \A g \in Requests : PendingOf(g) \subseteq PendingOf(g)'
          /\ \A j \in Files \X Users : j # k => rows'[j] = rows[j]
      BY <2>2, RestoreAssumption DEF Group, PendingOf
    <3>2. \A g \in Requests \ {r} : k \notin Group(g)
      BY <2>2, RestoreAssumption DEF Group
    <3>3. pass \in {"keys", "mail"} => group \in Requests
      BY DEF MailInv, MonitorInv
    <3>4. pass = "mail" => group # r
      BY <1>1 DEF SettledInv
    <3>5. \A g \in Requests : Group(g) \subseteq Files \X Users
      BY <2>2 DEF Group
    <3> QED BY <1>1, <1>2, <2>3, <3>1, <3>2, <3>3, <3>4, <3>5 DEF SettledInv, DoneStays, passVars
  <2> QED BY <2>4, <2>5
<1> QED BY <1>3, <1>4

\* The monitor.
LEMMA ReadsSettle ==
  ASSUME MailInv, SettledInv, NEW k0,
         PassStarts \/ SelectKeys \/ (k0 \in keys /\ CheckKey(k0)) \/ MailFails \/ PassDies
  PROVE  SettledInv' /\ NoMove
<1>1. UNCHANGED <<requestVars, rows, told>> /\ stage' = stage
  BY DEF PassStarts, SelectKeys, CheckKey, MailFails, PassDies, requestVars
<1>2. \A g : PendingOf(g)' = PendingOf(g) /\ Group(g)' = Group(g)
  BY <1>1 DEF PendingOf, Group
<1>3. /\ NoMove
      /\ \A g \in Requests : told'[g] # "nothing" =>
           stage'[g] = "done" /\ \A k \in Group(g)' : rows'[k].status = told'[g]
  <2>1. \A g \in Requests : told[g] # "nothing" =>
          stage[g] = "done" /\ \A k \in Group(g) : rows[k].status = told[g]
    BY DEF SettledInv
  <2> QED BY <1>1, <1>2, <2>1 DEF NoMove, Restores
<1>4. CASE PassStarts \/ MailFails \/ PassDies
  <2>1. pass' \in {"idle", "groups"}
    BY <1>4 DEF PassStarts, MailFails, PassDies, NextGroup
  <2> QED BY <1>3, <2>1 DEF SettledInv
<1>5. CASE SelectKeys
  <2>1. PICK g \in groups : group' = g
    BY <1>5 DEF SelectKeys
  <2>2. g \in Requests /\ PendingOf(g) # {}
    BY <2>1 DEF MailInv, MonitorInv, RowTypes
  <2>3. told[g] = "nothing"
    BY <2>2 DEF PendingOf, SettledInv, Group, MailInv, RowTypes
  <2>4. pass' = "keys" /\ PendingOf(group)' = PendingOf(g)
    BY <1>1, <1>5, <2>1 DEF SelectKeys, PendingOf
  <2> QED BY <1>1, <1>3, <2>1, <2>2, <2>3, <2>4 DEF SettledInv
<1>6. CASE k0 \in keys /\ CheckKey(k0)
  <2>1. pass = "keys" /\ pass' = pass /\ group' = group
    BY <1>6 DEF CheckKey
  <2>2. PendingOf(group)' = PendingOf(group)
    BY <1>1, <2>1 DEF PendingOf
  <2> QED BY <1>1, <1>3, <2>1, <2>2 DEF SettledInv
<1> QED BY <1>3, <1>4, <1>5, <1>6

LEMMA NotifyTells ==
  ASSUME MailInv, SettledInv, Notify, UNCHANGED archiverVars
  PROVE  SettledInv' /\ group \in Requests /\ Ledger!Tell(group) /\ UNCHANGED Restores
<1>1. /\ pass = "mail" /\ pass' \in {"idle", "groups"} /\ UNCHANGED <<stage, rows>>
      /\ group \in Requests /\ isExpired \in BOOLEAN
      /\ told \in [Requests -> {"nothing", "completed", "failed"}]
  BY DEF Notify, NextGroup, requestVars, MailInv, MonitorInv, RowTypes
<1>2. PICK s \in {"completed", "failed"} :
        /\ s = IF isExpired THEN "failed" ELSE "completed"
        /\ told' = [told EXCEPT ![group] = s]
  BY DEF Notify
<1>3. /\ stage[group] = "done" /\ told[group] = "nothing" /\ Group(group) # {}
      /\ \A k \in Group(group) : rows[k].status = s
  BY <1>1, <1>2 DEF SettledInv
<1>4. \A g \in Requests : Group(g)' = Group(g)
  BY <1>1 DEF Group
<1>5. SettledInv'
  BY <1>1, <1>2, <1>3, <1>4 DEF SettledInv
<1>6. /\ UNCHANGED <<Restores, Places>>
      /\ Ledger!Group(group) = Group(group)
      /\ \A k \in Group(group) : Restores[k].status = rows[k].status
  <2>1. UNCHANGED Restores
    BY <1>1 DEF Restores
  <2>2. UNCHANGED Places
    BY DEF Places, Place, Stored, Notify, storeVars, archiverVars
  <2>3. Ledger!Group(group) = Group(group) /\ Group(group) \subseteq Files \X Users
    BY DEF Restores, Ledger!Group, Ledger!Slots, Group, MailInv, RowTypes
  <2> QED BY <2>1, <2>2, <2>3 DEF Restores
<1> QED BY <1>1, <1>2, <1>3, <1>5, <1>6 DEF Ledger!Tell, Ledger!All

\* A row of the group still waits when its pass decides.
LEMMA SomeWait ==
  ASSUME MailInv, SettledInv, pass = "keys"
  PROVE  /\ group \in Requests /\ told[group] = "nothing"
         /\ \E k \in Files \X Users : rows[k].group = group /\ rows[k].status = "pending"
         /\ \A g : Ledger!Group(g) = Group(g) /\ Group(g) \subseteq Files \X Users
         /\ \A k \in Files \X Users : /\ Restores[k].group = rows[k].group
                                      /\ Restores[k].status = rows[k].status
BY DEF MailInv, MonitorInv, SettledInv, PendingOf, RowTypes, Ledger!Group, Ledger!Slots, Group, Restores

LEMMA GiveUpSettles ==
  ASSUME MailInv, SettledInv, GiveUp, UNCHANGED archiverVars
  PROVE  SettledInv' /\ group \in Requests /\ Ledger!GiveUp(group)
<1>1. /\ UNCHANGED <<told, stage, group, isExpired>> /\ isExpired /\ pass = "keys" /\ pass' = "mail"
      /\ stage[group] = "done"
  BY DEF GiveUp, MailInv, MonitorInv, requestVars
<1>2. /\ DOMAIN rows = Files \X Users /\ DOMAIN rows' = Files \X Users
      /\ \A k \in Files \X Users :
           rows'[k] = IF rows[k].group = group THEN [group |-> group, status |-> "failed", age |-> 0]
                      ELSE rows[k]
  BY DEF GiveUp, SetRows, Group, MailInv, RowTypes
<1>3. /\ group \in Requests /\ told[group] = "nothing"
      /\ \E k \in Files \X Users : rows[k].group = group /\ rows[k].status = "pending"
      /\ \A g : Ledger!Group(g) = Group(g) /\ Group(g) \subseteq Files \X Users
      /\ \A k \in Files \X Users : /\ Restores[k].group = rows[k].group
                                   /\ Restores[k].status = rows[k].status
  BY <1>1, SomeWait
<1>4. \A g : Group(g)' = Group(g)
  BY <1>2 DEF Group
<1>5. SettledInv'
  <2>1. \A k \in Group(group) : rows'[k].status = "failed"
    BY <1>2 DEF Group
  <2>2. ASSUME NEW g \in Requests, told[g] # "nothing"
        PROVE  stage'[g] = "done" /\ \A k \in Group(g) : rows'[k].status = told[g]
    <3>1. g # group
      BY <1>3, <2>2
    <3> QED BY <1>1, <1>2, <2>2, <3>1 DEF SettledInv, Group
  <2>3. Group(group) # {}
    BY <1>2, <1>3 DEF Group
  <2>4. Group(group)' = Group(group)
    BY <1>1, <1>2 DEF Group
  <2> QED BY <1>1, <1>3, <1>4, <2>1, <2>2, <2>3, <2>4 DEF SettledInv
<1>6. Ledger!GiveUp(group)
  <2>1. ~Ledger!All(group, "completed") /\ ~Ledger!All(group, "failed")
    BY <1>2, <1>3 DEF Ledger!All, Group
  <2>2. Restores' = [k \in Ledger!Slots |-> IF k \in Ledger!Group(group)
                       THEN [group |-> group, status |-> "failed"] ELSE Restores[k]]
    <3>1. \A k \in Files \X Users : k \in Ledger!Group(group) <=> rows[k].group = group
      BY <1>2, <1>3 DEF Group
    <3> QED BY <1>2, <3>1 DEF Restores, Ledger!Slots
  <2>3. UNCHANGED Places
    BY DEF Places, Place, Stored, GiveUp, storeVars, archiverVars
  <2> QED BY <1>1, <2>1, <2>2, <2>3 DEF Ledger!GiveUp, Ledger!Becomes
<1> QED BY <1>3, <1>5, <1>6

LEMMA MarkSettles ==
  ASSUME ColdInv, MailInv, SettledInv, MarkCompleted, UNCHANGED archiverVars
  PROVE  SettledInv' /\ group \in Requests /\ Ledger!Complete(group)
<1>1. /\ UNCHANGED <<told, stage>> /\ pass = "keys" /\ keys = {} /\ ~isExpired
      /\ \/ allReady /\ pass' = "mail" /\ UNCHANGED <<group, isExpired>>
         \/ pass' \in {"idle", "groups"}
  BY DEF MarkCompleted, NextGroup, requestVars
<1>2. /\ group \in Requests /\ told[group] = "nothing"
      /\ \E k \in Files \X Users : rows[k].group = group /\ rows[k].status = "pending"
      /\ \A g : Ledger!Group(g) = Group(g) /\ Group(g) \subseteq Files \X Users
      /\ \A k \in Files \X Users : /\ Restores[k].group = rows[k].group
                                   /\ Restores[k].status = rows[k].status
  BY <1>1, SomeWait
<1>3. /\ DOMAIN rows = Files \X Users /\ DOMAIN rows' = Files \X Users
      /\ \A k \in completed : /\ k \in Files \X Users
                              /\ rows[k].group = group /\ rows[k].status = "pending"
      /\ \A k \in Files \X Users :
           rows'[k] = IF k \in completed
                        THEN [group |-> rows[k].group, status |-> "completed", age |-> 0] ELSE rows[k]
  BY <1>1 DEF MarkCompleted, SetRows, MailInv, RowTypes, MonitorInv, PendingOf
<1>4. \A g : Group(g)' = Group(g)
  BY <1>3 DEF Group
<1>5. SettledInv'
  <2>1. ASSUME NEW g \in Requests, told[g] # "nothing"
        PROVE  stage'[g] = "done" /\ \A k \in Group(g) : rows'[k].status = told[g]
    <3>1. g # group
      BY <1>2, <2>1
    <3> QED BY <1>1, <1>3, <2>1, <3>1 DEF SettledInv, Group
  <2>2. CASE allReady /\ pass' = "mail" /\ UNCHANGED <<group, isExpired>>
    <3>1. stage[group] = "done"
      BY <1>1, <2>2, AllThawed
    <3>2. /\ PendingOf(group) \subseteq completed
          /\ \E k \in completed : rows[k].age <= Cutoff
      BY <1>1, <2>2 DEF MailInv, MonitorInv
    <3>3. \A j \in Files \X Users : rows[j].group = group => rows[j].status \in {"pending", "completed"}
      BY <1>3, <3>2 DEF MailInv, GroupInv
    <3>4. \A k \in Group(group) : rows'[k].status = "completed"
      BY <1>3, <3>2, <3>3 DEF Group, PendingOf
    <3>5. Group(group) # {} /\ Group(group)' = Group(group)
      BY <1>2, <1>3, <2>2 DEF Group
    <3> QED BY <1>1, <1>2, <1>4, <2>1, <2>2, <3>1, <3>4, <3>5 DEF SettledInv
  <2>3. CASE pass' \in {"idle", "groups"}
    BY <1>1, <1>4, <2>1, <2>3 DEF SettledInv
  <2> QED BY <1>1, <2>2, <2>3
<1>6. Ledger!Complete(group)
  <2>1. completed \in SUBSET {k \in Ledger!Group(group) : Restores[k].status = "pending"}
    BY <1>2, <1>3 DEF Group
  <2>2. Restores' = [k \in Ledger!Slots |-> IF k \in completed
                       THEN [group |-> group, status |-> "completed"] ELSE Restores[k]]
    BY <1>3 DEF Restores, Ledger!Slots
  <2>3. UNCHANGED Places
    BY DEF Places, Place, Stored, MarkCompleted, storeVars, archiverVars
  <2> QED BY <1>1, <2>1, <2>2, <2>3 DEF Ledger!Complete, Ledger!Becomes
<1> QED BY <1>2, <1>5, <1>6

\* What a step of the two together does to the ledger.
LEMMA LedgerMoves ==
  ASSUME ColdInv, MailInv, LostInv, SettledInv, [ColdNext]_coldVars
  PROVE  /\ LostInv' /\ SettledInv'
         /\ \/ Shifts /\ NoMove
            \/ \E g \in Requests : Move(g)
<1>0. ArchiverInv /\ UnputInv /\ AnswerTypes /\ store \in [Files -> Classes]
  BY DEF ColdInv, MailInv, ArchiverInv, ArchiverTypes
<1>1. CASE ArchiverStep /\ UNCHANGED restoreVars
  <2>1. UNCHANGED <<rows, passVars, told>> /\ DoneStays
    BY <1>1 DEF restoreVars, requestVars, DoneStays
  <2> QED BY <1>0, <1>1, <2>1, ArchiverShifts, RowsAlone
<1>2. CASE RestoreStep /\ UNCHANGED archiverVars
  <2>1. LostInv' /\ Shifts
    <3>1. KeepsStored /\ UNCHANGED today
      BY <1>0, <1>2, RestoreStores
    <3>2. UNCHANGED <<points, missed, dropped>>
      BY <1>2 DEF archiverVars
    <3> QED BY <1>0, <1>2, <3>1, <3>2, LostElse, PlacesSame
  <2>2. ASSUME NEW r \in Requests, NEW u \in Users, NEW v \in Vehicles, NEW a \in Days,
               NEW b \in Days, GetRoute(r, u, v, a, b)
        PROVE  SettledInv' /\ NoMove
    <3>1. UNCHANGED <<rows, passVars, told>> /\ DoneStays
      BY <1>0, <2>2 DEF GetRoute, DoneStays, AnswerTypes
    <3> QED BY <3>1, RowsAlone
  <2>3. ASSUME ApiRestart PROVE SettledInv' /\ NoMove
    <3>1. UNCHANGED <<rows, passVars, told>> /\ DoneStays
      BY <1>0, <2>3 DEF ApiRestart, Return, DoneStays, AnswerTypes
    <3> QED BY <3>1, RowsAlone
  <2>4. ASSUME NEW f \in Files, GlacierDelivers(f) PROVE SettledInv' /\ NoMove
    <3>1. UNCHANGED <<rows, passVars, told>> /\ DoneStays
      BY <2>4 DEF GlacierDelivers, restoreVars, requestVars, DoneStays
    <3> QED BY <3>1, RowsAlone
  <2>5. ASSUME NEW r \in Requests, Register(r)
        PROVE  SettledInv' /\ (NoMove \/ Move(r))
    BY <1>2, <2>5, RegisterAsks DEF Move
  <2>6. ASSUME NEW r \in Requests,
               \/ HeadObject(r) \/ Restore(r) \/ RestoreRefused(r)
               \/ GetObject(r) \/ Answer(r) \/ CallFails(r)
        PROVE  SettledInv' /\ NoMove
    BY <1>0, <2>6, RequestsSettle
  <2>7. ASSUME Notify \/ GiveUp \/ MarkCompleted
        PROVE  SettledInv' /\ \E g \in Requests : Move(g)
    BY <1>2, <2>7, NotifyTells, GiveUpSettles, MarkSettles DEF Move
  <2>8. ASSUME NEW k0,
               PassStarts \/ SelectKeys \/ (k0 \in keys /\ CheckKey(k0)) \/ MailFails \/ PassDies
        PROVE  SettledInv' /\ NoMove
    BY <2>8, ReadsSettle
  <2> QED BY <1>2, <2>1, <2>2, <2>3, <2>4, <2>5, <2>6, <2>7, <2>8
           DEF RestoreStep, AnswerStep, PassStep
<1>3. CASE ColdTick
  <2>1. UNCHANGED <<stage, passVars, told>> /\ DoneStays
    BY <1>3 DEF ColdTick, RowsAge, DoneStays
  <2>2. /\ DOMAIN rows' = DOMAIN rows
        /\ \A k \in Files \X Users : rows'[k].group = rows[k].group /\ rows'[k].status = rows[k].status
    BY <1>3 DEF ColdTick, RowsAge, MailInv, RowTypes
  <2> QED BY <1>0, <1>3, <2>1, <2>2, ArchiverShifts, RowsAlone DEF ColdTick
<1>4. CASE UNCHANGED coldVars
  <2>1. /\ UNCHANGED <<today, archiverVars, points, missed, dropped, rows, passVars, told>>
        /\ DoneStays /\ KeepsStored
    BY <1>4 DEF coldVars, restoreVars, requestVars, archiverVars, storeVars, DoneStays, KeepsStored, Stored
  <2> QED BY <1>0, <2>1, LostElse, PlacesSame, RowsAlone
<1> QED BY <1>1, <1>2, <1>3, <1>4 DEF ColdNext

LEMMA LedgerInitially == ColdInit => LostInv /\ SettledInv /\ Ledger!Init
<1> SUFFICES ASSUME ColdInit PROVE LostInv /\ SettledInv /\ Ledger!Init
  OBVIOUS
<1> USE DEF ColdInit, StoreInit, ArchiverInit, RestoreInit
<1>1. LostInv
  BY DEF LostInv, Stored
<1>2. SettledInv
  BY DEF SettledInv
<1>3. Places \in [Files -> {"nowhere", "database"}]
  BY DEF Places, Place, Stored
<1>4. Restores = [s \in Ledger!Slots |-> Ledger!NoRestore]
  BY DEF Restores, Ledger!Slots, Ledger!NoRestore, NoRow
<1> QED BY <1>1, <1>2, <1>3, <1>4 DEF Ledger!Init

\* The cold archive keeps its ledger, for any vehicles, users, requests, chunk
\* lengths, lags and faults: no file's points leave the database uncopied unless
\* their own night was lost, and what a mail says of the rows of its request is
\* true of all of them, then and ever after (archiverJob.js:36-79,
\* archiveService.js:60-82, restoreMonitorJob.js:25-88).
THEOREM ArchiveImplementsLedger == ColdSpec => Implements
<1>1. ColdInit => LostInv /\ SettledInv /\ Ledger!Init
  BY LedgerInitially
<1>2. ColdInit => ColdInv /\ MailInv
  BY ColdInitially, MailInitially
<1>3. ColdInv /\ MailInv /\ [ColdNext]_coldVars => (ColdInv /\ MailInv)'
  BY ColdStep, MailStep
<1>4. ColdInv /\ MailInv /\ LostInv /\ SettledInv /\ [ColdNext]_coldVars => (LostInv /\ SettledInv)'
  BY LedgerMoves
<1>5. ColdInv /\ MailInv /\ LostInv /\ SettledInv /\ [ColdNext]_coldVars
        => [Ledger!Next]_(Ledger!vars)
  <2> SUFFICES ASSUME ColdInv, MailInv, LostInv, SettledInv, [ColdNext]_coldVars
               PROVE  [Ledger!Next]_(Ledger!vars)
    OBVIOUS
  <2>1. CASE Shifts /\ NoMove
    BY <2>1 DEF Shifts, NoMove, Places, Ledger!Shift, Ledger!Next
  <2>2. ASSUME NEW g \in Requests, Move(g) PROVE Ledger!Next
    BY <2>2 DEF Move, Ledger!Next, Ledger!Slots
  <2> QED BY <2>1, <2>2, LedgerMoves
<1> QED BY <1>1, <1>2, <1>3, <1>4, <1>5, PTL DEF ColdSpec, Implements, Ledger!Spec

\* A request is told once, and what it was told stays true of every row it has:
\* "completed" is not followed by the failure of a sibling, nor "failed" by a late
\* thaw (restoreMonitorJob.js:22-27, 56-82).
THEOREM MailsStayTrue ==
  ColdSpec => /\ [](\A g \in Requests : told[g] # "nothing" => \A k \in Group(g) : rows[k].status = told[g])
              /\ [][\A g \in Requests : told[g] # "nothing" => told'[g] = told[g]]_coldVars
<1>1. ColdInit => ColdInv /\ MailInv /\ LostInv /\ SettledInv
  BY ColdInitially, MailInitially, LedgerInitially
<1>2. ColdInv /\ MailInv /\ LostInv /\ SettledInv /\ [ColdNext]_coldVars
        => (ColdInv /\ MailInv /\ LostInv /\ SettledInv)'
  BY ColdStep, MailStep, LedgerMoves
<1>3. SettledInv =>
        \A g \in Requests : told[g] # "nothing" => \A k \in Group(g) : rows[k].status = told[g]
  BY DEF SettledInv
<1>4. ColdInv /\ MailInv /\ LostInv /\ SettledInv /\ [ColdNext]_coldVars
        => [\A g \in Requests : told[g] # "nothing" => told'[g] = told[g]]_coldVars
  <2> SUFFICES ASSUME ColdInv, MailInv, LostInv, SettledInv, [ColdNext]_coldVars,
                      NEW g \in Requests, told[g] # "nothing"
               PROVE  told'[g] = told[g]
    OBVIOUS
  <2>1. CASE NoMove
    BY <2>1 DEF NoMove
  <2>2. ASSUME NEW r \in Requests, Move(r) PROVE told'[g] = told[g]
    <3>1. CASE \E k \in Files \X Users : Ledger!Ask(k, r)
      BY <3>1 DEF Ledger!Ask
    <3>2. CASE Ledger!Complete(r)
      BY <3>2 DEF Ledger!Complete
    <3>3. CASE Ledger!GiveUp(r)
      BY <3>3 DEF Ledger!GiveUp
    <3>4. CASE Ledger!Tell(r)
      <4>1. PICK status \in {"completed", "failed"} : told' = [told EXCEPT ![r] = status]
        BY <3>4 DEF Ledger!Tell
      <4>2. r # g
        BY <3>4 DEF Ledger!Tell
      <4>3. told \in [Requests -> {"nothing", "completed", "failed"}]
        BY DEF MailInv, RowTypes
      <4> QED BY <4>1, <4>2, <4>3
    <3> QED BY <2>2, <3>1, <3>2, <3>3, <3>4 DEF Move
  <2> QED BY <2>1, <2>2, LedgerMoves
<1> QED BY <1>1, <1>2, <1>3, <1>4, PTL DEF ColdSpec
=============================================================================
