------------------------ MODULE IgnitionTrackingProofs ------------------------
(***************************************************************************)
(* The ignition of one vehicle for any number of packets and handlers, any *)
(* device times and any widths of the windows.                             *)
(***************************************************************************)
EXTENDS IgnitionTracking, TLAPS

Flags    == {"unset", "on", "off"}
Steps    == {"idle", "stable", "pending", "since", "candidate", "write", "cache", "fired", "publish"}
Debounce == {"stable", "pending", "since", "candidate", "write"}
Packets  == [reading : Readings, time : Nat, live : BOOLEAN]
States   == [ign : BOOLEAN, parked : Int, time : Int]
Commands == [key : {"stable", "pending", "since", "onFired", "offFired"},
             to  : Flags \cup Int \cup BOOLEAN]

TypeInv ==
  /\ pc \in [Handlers -> Steps]
  /\ packet \in [Handlers -> Packets]
  /\ final \in [Handlers -> BOOLEAN]
  /\ prev \in [Handlers -> States]
  /\ writes \in [Handlers -> Seq(Commands)]
  /\ raise \in [Handlers -> {"none", "on", "off"}]
  /\ keys \in [stable : Flags, pending : Flags, since : Int, onFired : BOOLEAN, offFired : BOOLEAN]
  /\ state \in States
  /\ told \in {"none", "on", "off"}
  /\ said \in [{"on", "off"} -> Int]
  /\ alone \subseteq Handlers
  /\ clean \in BOOLEAN /\ smooth \in BOOLEAN

(***************************************************************************)
(* The inductive invariant.                                                *)
(***************************************************************************)
\* Nobody else is at work beside a handler that is alone, and one at a time
\* works while the history is clean or smooth.
OneAtWork == \A g, h \in Handlers : pc[g] # "idle" /\ pc[h] # "idle" => g = h

AloneInv ==
  /\ \A h \in alone, g \in Handlers : g # h => pc[g] = "idle"
  /\ clean \/ smooth => OneAtWork

\* What a handler still writes: the end of a decision of the debounce, or of an
\* alert, whose own key comes before the other's.
Mine(h)  == IF raise[h] = "on" THEN "onFired" ELSE "offFired"
Other(h) == IF raise[h] = "on" THEN "offFired" ELSE "onFired"

EndOfDecision(q) ==
  /\ Len(q) \in 0 .. 3
  /\ Len(q) > 0 => q[Len(q)].key = "since" /\ q[Len(q)].to \in Int
  /\ Len(q) > 1 => q[Len(q) - 1].key = "pending" /\ q[Len(q) - 1].to \in Flags
  /\ Len(q) > 2 => /\ q[1].key = "stable" /\ q[1].to \in {"on", "off"}
                   /\ q[2].to = "unset"

EndOfAlert(q, h) ==
  /\ Len(q) \in 0 .. 2
  /\ Len(q) > 0 => q[Len(q)].key = Other(h) /\ q[Len(q)].to = FALSE
  /\ Len(q) > 1 => q[1].key = Mine(h) /\ q[1].to = TRUE

WriteInv ==
  \A h \in Handlers :
    /\ pc[h] = "write" => EndOfDecision(writes[h])
    /\ pc[h] = "publish" => /\ EndOfAlert(writes[h], h)
                            /\ raise[h] \in {"on", "off"}
                            /\ raise[h] = "on" => final[h] = TRUE

\* The keys once a handler has written what it has to.
StableAfter(h)  == IF Len(writes[h]) > 2 THEN writes[h][1].to ELSE keys.stable
PendingAfter(h) == IF Len(writes[h]) > 1 THEN writes[h][Len(writes[h]) - 1].to ELSE keys.pending
SinceAfter(h)   == IF Len(writes[h]) > 0 THEN writes[h][Len(writes[h])].to ELSE keys.since

\* A pending change is as old as it says: nothing has been heard against it since.
Founded(pending, since) == pending # "unset" /\ since # NoTime => said[Opposite(pending)] <= since

CleanInv ==
  clean =>
    /\ (\A h \in Handlers : pc[h] \notin Debounce) => Founded(keys.pending, keys.since)
    /\ \A h \in Handlers :
         /\ pc[h] \in {"stable", "pending"} /\ keys.pending = Says(packet[h])
              => Founded(keys.pending, keys.since)
         /\ pc[h] = "since" => /\ keys.pending \in {"unset", Says(packet[h])}
                               /\ Founded(Says(packet[h]), keys.since)
         /\ pc[h] = "write" => Founded(PendingAfter(h), SinceAfter(h))

\* A handler that is alone decides by the stable ignition and caches it.
CacheInv ==
  \A h \in alone :
    /\ pc[h] \in {"pending", "since", "candidate"} => keys.stable = Opposite(Says(packet[h]))
    /\ pc[h] = "write" => (final[h] = TRUE <=> StableAfter(h) = "on")
    /\ pc[h] \in {"cache", "fired", "publish"} => (final[h] = TRUE <=> keys.stable = "on")
    /\ pc[h] \in {"fired", "publish"} => (state.ign = final[h])

\* The keys of the alerts tell the last one.
AlertInv ==
  /\ smooth => /\ (\A h \in Handlers : pc[h] # "publish") =>
                     /\ keys.onFired = TRUE <=> told = "on"
                     /\ keys.offFired = TRUE <=> told = "off"
               /\ \A h \in Handlers : pc[h] = "publish" => told # raise[h]
  /\ \A h \in alone :
       pc[h] = "publish" => /\ Len(writes[h]) < 2 => keys[Mine(h)] = TRUE
                            /\ Len(writes[h]) < 1 => keys[Other(h)] = FALSE

\* A vehicle told on is on, unless the alert that it is off is under way.
RestInv ==
  smooth /\ told = "on" =>
    /\ (\A h \in Handlers : pc[h] \notin {"fired", "publish"}) => state.ign = TRUE
    /\ \A h \in Handlers :
         /\ pc[h] \in {"cache", "fired"} => prev[h].ign = TRUE
         /\ pc[h] = "fired" => state.ign = final[h]

IgnInv ==
  /\ TypeInv /\ AloneInv /\ WriteInv
  /\ CleanInv /\ ~hasty
  /\ CacheInv
  /\ AlertInv /\ ~repeated
  /\ RestInv

(***************************************************************************)
(* Types, and the next command of a handler.                               *)
(***************************************************************************)
LEMMA Meanings ==
  ASSUME NEW p \in Packets
  PROVE  /\ Says(p) \in {"on", "off"} /\ Opposite(Says(p)) \in {"on", "off"}
         /\ Opposite(Says(p)) # Says(p)
         /\ p.reading = "moving" => Says(p) = "on"
BY DEF Packets, Readings, Says, Opposite

\* The lists of commands the debounce and the alerts draw up.
LEMMA Lists ==
  /\ ClearPending \in Seq(Commands) /\ EndOfDecision(ClearPending)
  /\ Len(ClearPending) = 2 /\ ClearPending[1].to = "unset" /\ ClearPending[2].to = NoTime
  /\ \A w \in {"on", "off"} :
       /\ Confirm(w) \in Seq(Commands) /\ EndOfDecision(Confirm(w))
       /\ Len(Confirm(w)) = 3 /\ Confirm(w)[1].to = w /\ Confirm(w)[2].to = "unset"
       /\ Confirm(w)[3].to = NoTime
  /\ \A w \in {"on", "off"}, t \in Int :
       LET q == <<Set("pending", w), Set("since", t)>>
       IN q \in Seq(Commands) /\ EndOfDecision(q) /\ Len(q) = 2 /\ q[1].to = w /\ q[2].to = t
  /\ <<>> \in Seq(Commands) /\ EndOfDecision(<<>>) /\ Len(<<>>) = 0
BY DEF ClearPending, Confirm, Set, Commands, Flags, NoTime, EndOfDecision

LEMMA AlertLists ==
  ASSUME NEW mine \in {"onFired", "offFired"}, NEW other \in {"onFired", "offFired"}
  PROVE  LET q == Arms(mine, other)
         IN /\ q \in Seq(Commands) /\ Len(q) = 2
            /\ q[1].key = mine /\ q[1].to = TRUE /\ q[2].key = other /\ q[2].to = FALSE
BY DEF Arms, Set, Commands

LEMMA NextCommand ==
  ASSUME TypeInv, NEW h \in Handlers, NextWrite(h)
  PROVE  LET q == writes[h]
         IN /\ q \in Seq(Commands) /\ Len(q) \in Nat /\ Len(q) > 0 /\ q[1] \in Commands
            /\ keys' = [keys EXCEPT ![q[1].key] = q[1].to]
            /\ writes' = [writes EXCEPT ![h] = Tail(q)]
            /\ Tail(q) \in Seq(Commands) /\ Len(Tail(q)) = Len(q) - 1
            /\ \A i \in 1 .. Len(q) - 1 : Tail(q)[i] = q[i + 1]
<1>1. writes[h] \in Seq(Commands) /\ writes[h] # <<>>
  BY DEF TypeInv, NextWrite
<1>2. Head(writes[h]) = writes[h][1]
  BY <1>1
<1> QED BY <1>1, <1>2 DEF NextWrite, Issues

LEMMA DebounceWrite ==
  ASSUME TypeInv, NEW h \in Handlers, NextWrite(h), EndOfDecision(writes[h])
  PROVE  /\ keys' \in [stable : Flags, pending : Flags, since : Int, onFired : BOOLEAN,
                       offFired : BOOLEAN]
         /\ keys'.onFired = keys.onFired /\ keys'.offFired = keys.offFired
         /\ EndOfDecision(writes'[h])
         /\ StableAfter(h)' = StableAfter(h)
         /\ PendingAfter(h)' = PendingAfter(h)
         /\ SinceAfter(h)' = SinceAfter(h)
<1> DEFINE q == writes[h]
           r == writes'[h]
<1>0. /\ Len(q) \in 1 .. 3 /\ Len(r) = Len(q) - 1
      /\ \A i \in 1 .. Len(q) - 1 : r[i] = q[i + 1]
      /\ keys' = [keys EXCEPT ![q[1].key] = q[1].to]
      /\ keys \in [stable : Flags, pending : Flags, since : Int, onFired : BOOLEAN, offFired : BOOLEAN]
  <2>1. r = Tail(q)
    BY NextCommand DEF TypeInv
  <2> QED BY <2>1, NextCommand DEF TypeInv, EndOfDecision
<1>1. CASE Len(q) = 1
  <2>1. q[1].key = "since" /\ q[1].to \in Int /\ Len(r) = 0
    BY <1>0, <1>1 DEF EndOfDecision
  <2>2. keys' = [keys EXCEPT !.since = q[1].to]
    BY <1>0, <2>1
  <2> HIDE DEF r
  <2> QED BY <1>0, <1>1, <2>1, <2>2 DEF r, EndOfDecision, StableAfter, PendingAfter, SinceAfter
<1>2. CASE Len(q) = 2
  <2>1. /\ q[1].key = "pending" /\ q[1].to \in Flags /\ q[2].key = "since" /\ q[2].to \in Int
        /\ Len(r) = 1 /\ r[1] = q[2]
    BY <1>0, <1>2 DEF EndOfDecision
  <2>2. keys' = [keys EXCEPT !.pending = q[1].to]
    BY <1>0, <2>1
  <2> QED BY <1>0, <1>2, <2>1, <2>2 DEF EndOfDecision, StableAfter, PendingAfter, SinceAfter
<1>3. CASE Len(q) = 3
  <2>1. /\ q[1].key = "stable" /\ q[1].to \in Flags /\ q[2].key = "pending" /\ q[2].to = "unset"
        /\ q[3].key = "since" /\ q[3].to \in Int
        /\ Len(r) = 2 /\ r[1] = q[2] /\ r[2] = q[3]
    BY <1>0, <1>3 DEF EndOfDecision, Flags
  <2>2. keys' = [keys EXCEPT !.stable = q[1].to]
    BY <1>0, <2>1
  <2>3. EndOfDecision(r)
    BY <2>1 DEF EndOfDecision, Flags
  <2>4. StableAfter(h)' = StableAfter(h)
    BY <1>0, <1>3, <2>1, <2>2 DEF StableAfter
  <2>5. PendingAfter(h)' = PendingAfter(h) /\ SinceAfter(h)' = SinceAfter(h)
    BY <1>3, <2>1 DEF PendingAfter, SinceAfter
  <2> QED BY <1>0, <2>1, <2>2, <2>3, <2>4, <2>5
<1> QED BY <1>0, <1>1, <1>2, <1>3

LEMMA AlertWrite ==
  ASSUME TypeInv, NEW h \in Handlers, NextWrite(h), EndOfAlert(writes[h], h), UNCHANGED raise
  PROVE  LET q == writes[h]
         IN /\ EndOfAlert(writes[h], h)'
            /\ keys' = [keys EXCEPT ![q[1].key] = q[1].to]
            /\ \/ /\ Len(q) = 2 /\ Len(writes'[h]) = 1
                  /\ q[1].key = Mine(h) /\ q[1].to = TRUE
               \/ /\ Len(q) = 1 /\ Len(writes'[h]) = 0
                  /\ q[1].key = Other(h) /\ q[1].to = FALSE
<1> DEFINE q == writes[h]
           r == writes'[h]
<1>0. /\ Len(q) \in 1 .. 2 /\ Len(r) = Len(q) - 1
      /\ \A i \in 1 .. Len(q) - 1 : r[i] = q[i + 1]
      /\ keys' = [keys EXCEPT ![q[1].key] = q[1].to]
  <2>1. r = Tail(q)
    BY NextCommand DEF TypeInv
  <2> QED BY <2>1, NextCommand DEF TypeInv, EndOfAlert
<1>1. Mine(h)' = Mine(h) /\ Other(h)' = Other(h)
  BY DEF Mine, Other
<1>2. CASE Len(q) = 1
  <2>1. q[1].key = Other(h) /\ q[1].to = FALSE /\ Len(r) = 0
    BY <1>0, <1>2 DEF EndOfAlert
  <2>2. EndOfAlert(writes[h], h)'
    BY <2>1 DEF EndOfAlert
  <2> QED BY <1>0, <1>2, <2>1, <2>2
<1>3. CASE Len(q) = 2
  <2>1. /\ q[1].key = Mine(h) /\ q[1].to = TRUE /\ q[2].key = Other(h) /\ q[2].to = FALSE
        /\ Len(r) = 1 /\ r[1] = q[2]
    BY <1>0, <1>3 DEF EndOfAlert
  <2>2. EndOfAlert(writes[h], h)'
    BY <1>1, <2>1 DEF EndOfAlert
  <2> QED BY <1>0, <1>3, <2>1, <2>2
<1>4. Len(q) = 1 \/ Len(q) = 2
  BY <1>0
<1> QED BY <1>2, <1>3, <1>4

\* A key of the debounce that runs out is as if it had never been set.
LEMMA DebounceLapse ==
  ASSUME TypeInv, NEW k \in {"stable", "pending", "since"}, DebounceExpires(k)
  PROVE  /\ keys' \in [stable : Flags, pending : Flags, since : Int, onFired : BOOLEAN,
                       offFired : BOOLEAN]
         /\ keys' = [keys EXCEPT !.since = NoTime] \/ keys' = [keys EXCEPT !.pending = "unset"]
            \/ keys' = [keys EXCEPT !.stable = "unset"]
<1>1. keys' = [keys EXCEPT ![k] = NoKeys[k]]
  BY DEF DebounceExpires
<1>2. /\ NoKeys["stable"] = "unset" /\ NoKeys["pending"] = "unset" /\ NoKeys["since"] = NoTime
  BY DEF NoKeys
<1>3. \/ keys' = [keys EXCEPT !.since = NoTime] \/ keys' = [keys EXCEPT !.pending = "unset"]
      \/ keys' = [keys EXCEPT !.stable = "unset"]
  BY <1>1, <1>2
<1>4. "unset" \in Flags /\ NoTime \in Int
  BY DEF Flags, NoTime
<1>5. keys \in [stable : Flags, pending : Flags, since : Int, onFired : BOOLEAN, offFired : BOOLEAN]
  BY DEF TypeInv
<1> QED BY <1>3, <1>4, <1>5

\* A handler that is over keeps values of the right types.
LEMMA EndsType ==
  ASSUME TypeInv, NEW h \in Handlers, Ends(h)
  PROVE  /\ pc' \in [Handlers -> Steps] /\ packet' \in [Handlers -> Packets]
         /\ final' \in [Handlers -> BOOLEAN] /\ prev' \in [Handlers -> States]
         /\ writes' \in [Handlers -> Seq(Commands)]
         /\ raise' \in [Handlers -> {"none", "on", "off"}]
<1>0. NoPacket \in Packets /\ NoState \in States /\ <<>> \in Seq(Commands)
  BY Lists DEF NoPacket, NoState, NoTime, Packets, Readings, States
<1> QED BY <1>0 DEF Ends, Goes, TypeInv, Steps

LEMMA TypeStep ==
  ASSUME TypeInv, AloneInv, WriteInv, [IgnNext]_ignVars
  PROVE  TypeInv'
<1>1. ASSUME NEW h \in Handlers, NEW reading \in Readings, NEW t \in 0 .. MaxTime,
             NEW now \in 0 .. MaxTime, NEW live \in BOOLEAN, Arrive(h, reading, t, now, live)
      PROVE  TypeInv'
  <2>1. [reading |-> reading, time |-> t, live |-> live] \in Packets
    BY IgnAssumption DEF Packets
  <2>2. Says([reading |-> reading, time |-> t, live |-> live]) \in {"on", "off"}
    BY <2>1, Meanings
  <2>3. said' \in [{"on", "off"} -> Int]
    BY <1>1, <2>2, IgnAssumption DEF Arrive, TypeInv
  <2> QED BY <1>1, <2>1, <2>3 DEF Arrive, Goes, TypeInv, Steps
<1>2. ASSUME NEW h \in Handlers, ReadStable(h) \/ ReadPending(h) \/ ReadSince(h)
      PROVE  TypeInv'
  <2>1. packet[h] \in Packets /\ packet[h].time \in Int /\ Says(packet[h]) \in {"on", "off"}
    BY Meanings DEF TypeInv, Packets
  <2>2. CASE ReadStable(h)
    <3>1. PICK cmds \in Seq(Commands) : writes' = [writes EXCEPT ![h] = cmds] \/ writes' = writes
      BY <2>1, <2>2, Lists DEF ReadStable, Issues, Cancels
    <3>2. PICK says \in BOOLEAN : final' = [final EXCEPT ![h] = says] \/ final' = final
      BY <2>2 DEF ReadStable
    <3>3. PICK where \in Steps : pc' = [pc EXCEPT ![h] = where]
      BY <2>2 DEF ReadStable, Goes, Steps
    <3>4. UNCHANGED <<packet, prev, raise, keys, state, told, said, alone, clean, smooth>>
      BY <2>2 DEF ReadStable, ghosts
    <3> QED BY <3>1, <3>2, <3>3, <3>4 DEF TypeInv
  <2>3. CASE ReadPending(h)
    BY <2>3 DEF ReadPending, Goes, TypeInv, Steps, local, bounds, ghosts
  <2>4. CASE ReadSince(h)
    <3>1. PICK cmds \in Seq(Commands) : writes' = [writes EXCEPT ![h] = cmds]
      BY <2>1, <2>4, Lists DEF ReadSince, Issues
    <3>2. PICK says \in BOOLEAN : final' = [final EXCEPT ![h] = says]
      BY <2>4 DEF ReadSince
    <3>3. pc' = [pc EXCEPT ![h] = "write"]
      BY <2>4 DEF ReadSince, Goes
    <3>4. clean' \in BOOLEAN
      BY <2>4 DEF ReadSince, TypeInv
    <3>5. UNCHANGED <<packet, prev, raise, keys, state, told, said, alone, smooth>>
      BY <2>4 DEF ReadSince
    <3> QED BY <3>1, <3>2, <3>3, <3>4, <3>5 DEF TypeInv, Steps
  <2> QED BY <1>2, <2>2, <2>3, <2>4
<1>3. ASSUME NEW h \in Handlers, WriteDebounce(h) \/ WriteFired(h)
      PROVE  TypeInv'
  <2>0. NextWrite(h)
    BY <1>3 DEF WriteDebounce, WriteFired
  <2>1. NextWrite(h) /\ writes' \in [Handlers -> Seq(Commands)]
    <3>1. Tail(writes[h]) \in Seq(Commands) /\ writes' = [writes EXCEPT ![h] = Tail(writes[h])]
      BY <2>0, NextCommand
    <3> QED BY <2>0, <3>1 DEF TypeInv
  <2>2. keys' \in [stable : Flags, pending : Flags, since : Int, onFired : BOOLEAN, offFired : BOOLEAN]
    <3>1. CASE WriteDebounce(h)
      BY <2>1, <3>1, DebounceWrite DEF WriteDebounce, WriteInv
    <3>2. CASE WriteFired(h)
      <4>1. EndOfAlert(writes[h], h) /\ UNCHANGED raise
        BY <2>1, <3>2 DEF WriteFired, NextWrite, WriteInv
      <4>2. /\ writes[h][1].to \in BOOLEAN /\ writes[h][1].key \in {"onFired", "offFired"}
            /\ keys' = [keys EXCEPT ![writes[h][1].key] = writes[h][1].to]
        BY <2>1, <4>1, AlertWrite DEF Mine, Other
      <4> QED BY <4>2 DEF TypeInv
    <3> QED BY <1>3, <3>1, <3>2
  <2> QED BY <2>1, <2>2 DEF NextWrite, TypeInv, bounds, ghosts
<1>4. ASSUME NEW h \in Handlers, ReadState(h) \/ CacheState(h) \/ CheckAlert(h) \/ PublishIgnition(h)
             \/ HandlerFails(h)
      PROVE  TypeInv'
  <2>1. CASE ReadState(h)
    <3>1. CASE Ends(h)
      BY <2>1, <3>1, EndsType DEF ReadState, TypeInv, bounds, ghosts
    <3>2. CASE ~ Ends(h)
      <4>1. prev' = [prev EXCEPT ![h] = state] /\ pc' = [pc EXCEPT ![h] = "cache"]
        BY <2>1, <3>2 DEF ReadState, Goes
      <4>2. UNCHANGED <<packet, final, writes, raise, keys, state, told, said, alone, clean, smooth>>
        BY <2>1, <3>2 DEF ReadState, ghosts
      <4> QED BY <4>1, <4>2 DEF TypeInv, Steps
    <3> QED BY <3>1, <3>2
  <2>2. CASE CacheState(h)
    <3>1. ParkedSince(h) \subseteq Int
      BY DEF ParkedSince, TypeInv, States, Packets, NoTime
    <3>2. ASSUME NEW parked \in ParkedSince(h)
          PROVE  [ign |-> final[h], parked |-> parked, time |-> packet[h].time] \in States
      BY <3>1 DEF TypeInv, States, Packets
    <3>3. CASE packet[h].live
      <4>1. PICK parked \in ParkedSince(h) :
              state' = [ign |-> final[h], parked |-> parked, time |-> packet[h].time]
        BY <2>2, <3>3 DEF CacheState
      <4>2. state' \in States /\ pc' \in [Handlers -> Steps]
        BY <2>2, <3>2, <3>3, <4>1 DEF CacheState, Goes, TypeInv, Steps
      <4>3. UNCHANGED <<packet, final, prev, writes, raise, keys, told, said, alone, clean, smooth>>
        BY <2>2, <3>3 DEF CacheState, local, ghosts
      <4> QED BY <4>2, <4>3 DEF TypeInv
    <3>4. CASE ~ packet[h].live
      <4>1. Ends(h) /\ UNCHANGED <<state, keys, told, said, alone, clean, smooth>>
        BY <2>2, <3>4 DEF CacheState, ghosts
      <4> QED BY <4>1, EndsType DEF TypeInv
    <3> QED BY <3>3, <3>4
  <2>3. CASE CheckAlert(h)
    <3>1. smooth' \in BOOLEAN /\ UNCHANGED <<keys, state, told, said, alone, clean>>
      BY <2>3 DEF CheckAlert, TypeInv
    <3>2. CASE Ends(h)
      BY <3>1, <3>2, EndsType DEF TypeInv
    <3>3. CASE ~ Ends(h)
      <4>1. PICK cmds \in Seq(Commands) : writes' = [writes EXCEPT ![h] = cmds]
        BY <2>3, <3>3, AlertLists DEF CheckAlert, Issues
      <4>2. PICK which \in {"on", "off"} : raise' = [raise EXCEPT ![h] = which]
        BY <2>3, <3>3 DEF CheckAlert
      <4>3. pc' = [pc EXCEPT ![h] = "publish"] /\ UNCHANGED <<packet, final, prev>>
        BY <2>3, <3>3 DEF CheckAlert, Goes
      <4> QED BY <3>1, <4>1, <4>2, <4>3 DEF TypeInv, Steps
    <3> QED BY <3>2, <3>3
  <2>4. CASE PublishIgnition(h)
    <3>1. told' \in {"none", "on", "off"} /\ smooth' \in BOOLEAN /\ Ends(h)
      BY <2>4 DEF PublishIgnition, TypeInv
    <3> QED BY <2>4, <3>1, EndsType DEF PublishIgnition, TypeInv
  <2>5. CASE HandlerFails(h)
    BY <2>5, EndsType DEF HandlerFails, TypeInv
  <2> QED BY <1>4, <2>1, <2>2, <2>3, <2>4, <2>5
<1>5. ASSUME NEW k \in {"stable", "pending", "since"}, DebounceExpires(k)
      PROVE  TypeInv'
  <2>1. keys' \in [stable : Flags, pending : Flags, since : Int, onFired : BOOLEAN, offFired : BOOLEAN]
    BY <1>5, DebounceLapse
  <2>2. UNCHANGED <<pc, packet, final, prev, writes, raise, state, told, said, clean, smooth>>
        /\ alone' = {}
    BY <1>5 DEF DebounceExpires, local
  <2> QED BY <2>1, <2>2 DEF TypeInv
<1>6. ASSUME NEW k \in {"onFired", "offFired"}, FiredExpires(k)
      PROVE  TypeInv'
  BY <1>6 DEF FiredExpires, TypeInv, local
<1>7. CASE StateExpires
  <2>1. NoState \in States
    BY DEF NoState, NoTime, States
  <2>2. UNCHANGED <<pc, packet, final, prev, writes, raise, keys, told, said, clean>>
        /\ state' = NoState /\ smooth' = FALSE /\ alone' = {}
    BY <1>7 DEF StateExpires, local
  <2> QED BY <2>1, <2>2 DEF TypeInv
<1>8. CASE UNCHANGED ignVars
  BY <1>8 DEF ignVars, TypeInv
<1> QED BY <1>1, <1>2, <1>3, <1>4, <1>5, <1>6, <1>7, <1>8 DEF IgnNext, IgnStep
(***************************************************************************)
(* What a step leaves alone.                                               *)
(***************************************************************************)
\* The steps of a handler at work.
Works(h) ==
  \/ ReadStable(h) \/ ReadPending(h) \/ ReadSince(h) \/ WriteDebounce(h) \/ ReadState(h)
  \/ CacheState(h) \/ CheckAlert(h) \/ WriteFired(h) \/ PublishIgnition(h) \/ HandlerFails(h)

\* The handlers other than h keep what they hold.
Spares(h) ==
  \A g \in Handlers \ {h} :
    /\ pc'[g] = pc[g] /\ packet'[g] = packet[g] /\ final'[g] = final[g]
    /\ prev'[g] = prev[g] /\ writes'[g] = writes[g] /\ raise'[g] = raise[g]

LEMMA Frame ==
  ASSUME TypeInv, NEW h \in Handlers, Works(h)
  PROVE  /\ pc[h] # "idle" /\ Spares(h) /\ said' = said /\ alone' \in {alone, {}}
         /\ clean' => clean \/ h \in alone
         /\ smooth' => smooth \/ h \in alone
<1>1. CASE Ends(h) /\ (ReadState(h) \/ CacheState(h))
  BY <1>1 DEF ReadState, CacheState, Ends, Goes, Spares, TypeInv, ghosts
<1>2. CASE Ends(h) /\ (CheckAlert(h) \/ PublishIgnition(h) \/ HandlerFails(h))
  BY <1>2 DEF CheckAlert, PublishIgnition, HandlerFails, Ends, Goes, Spares, TypeInv
<1>3. CASE ~ Ends(h) /\ (ReadState(h) \/ CacheState(h))
  BY <1>3 DEF ReadState, CacheState, Goes, Spares, TypeInv, ghosts, local
<1>4. CASE ~ Ends(h) /\ CheckAlert(h)
  BY <1>4 DEF CheckAlert, Goes, Issues, Spares, TypeInv
<1>5. CASE ReadStable(h)
  BY <1>5 DEF ReadStable, Goes, Issues, Spares, TypeInv, ghosts
<1>6. CASE ReadPending(h)
  BY <1>6 DEF ReadPending, Goes, Spares, TypeInv, ghosts, local
<1>7. CASE ReadSince(h)
  BY <1>7 DEF ReadSince, Goes, Issues, Spares, TypeInv
<1>8. CASE WriteDebounce(h) \/ WriteFired(h)
  BY <1>8 DEF WriteDebounce, WriteFired, NextWrite, Goes, Issues, Spares, TypeInv, ghosts
<1>9. CASE PublishIgnition(h) \/ HandlerFails(h)
  BY <1>2, <1>9 DEF PublishIgnition, HandlerFails
<1> QED BY <1>1, <1>2, <1>3, <1>4, <1>5, <1>6, <1>7, <1>8, <1>9 DEF Works

\* What expiries do.
LEMMA Lapses ==
  ASSUME TypeInv,
         \/ \E k \in {"stable", "pending", "since"} : DebounceExpires(k)
         \/ \E k \in {"onFired", "offFired"} : FiredExpires(k)
         \/ StateExpires
  PROVE  /\ UNCHANGED <<pc, packet, final, prev, writes, raise, told, said, clean, hasty, repeated>>
         /\ alone' = {}
         /\ smooth' => smooth
         /\ keys'.pending \in {keys.pending, "unset"} /\ keys'.since \in {keys.since, NoTime}
         /\ smooth' => /\ state' = state
                       /\ keys'.onFired = keys.onFired /\ keys'.offFired = keys.offFired
<1>1. ASSUME NEW k \in {"stable", "pending", "since"}, DebounceExpires(k)
      PROVE  /\ UNCHANGED <<pc, packet, final, prev, writes, raise, told, said, clean, hasty, repeated>>
             /\ alone' = {} /\ smooth' = smooth /\ state' = state
             /\ keys'.pending \in {keys.pending, "unset"} /\ keys'.since \in {keys.since, NoTime}
             /\ keys'.onFired = keys.onFired /\ keys'.offFired = keys.offFired
  <2>1. \/ keys' = [keys EXCEPT !.since = NoTime] \/ keys' = [keys EXCEPT !.pending = "unset"]
        \/ keys' = [keys EXCEPT !.stable = "unset"]
    BY <1>1, DebounceLapse
  <2> QED BY <1>1, <2>1 DEF DebounceExpires, local, TypeInv
<1>2. ASSUME NEW k \in {"onFired", "offFired"}, FiredExpires(k)
      PROVE  /\ UNCHANGED <<pc, packet, final, prev, writes, raise, told, said, clean, hasty, repeated>>
             /\ alone' = {} /\ smooth' = FALSE
             /\ keys'.pending = keys.pending /\ keys'.since = keys.since
  BY <1>2 DEF FiredExpires, local, TypeInv
<1>3. CASE StateExpires
  BY <1>3 DEF StateExpires, local
<1> QED BY <1>1, <1>2, <1>3

(***************************************************************************)
(* The parts of the invariant, one by one.                                 *)
(***************************************************************************)
LEMMA AloneStep ==
  ASSUME TypeInv, AloneInv, [IgnNext]_ignVars
  PROVE  AloneInv'
<1>1. ASSUME NEW h \in Handlers, NEW reading \in Readings, NEW t \in 0 .. MaxTime,
             NEW now \in 0 .. MaxTime, NEW live \in BOOLEAN, Arrive(h, reading, t, now, live)
      PROVE  AloneInv'
  <2>1. CASE \A g \in Handlers : pc[g] = "idle"
    BY <1>1, <2>1 DEF Arrive, Goes, AloneInv, OneAtWork, TypeInv
  <2>2. CASE ~ \A g \in Handlers : pc[g] = "idle"
    <3>1. alone' = {} /\ ~ clean' /\ ~ smooth'
      BY <1>1, <2>2 DEF Arrive
    <3> QED BY <3>1 DEF AloneInv
  <2> QED BY <2>1, <2>2
<1>2. ASSUME NEW h \in Handlers, Works(h)
      PROVE  AloneInv'
  <2>1. /\ pc[h] # "idle" /\ \A g \in Handlers \ {h} : pc'[g] = pc[g]
        /\ alone' \in {alone, {}}
        /\ clean' \/ smooth' => clean \/ smooth \/ h \in alone
    BY <1>2, Frame DEF Spares
  <2>2. ASSUME NEW g \in alone', NEW f \in Handlers, f # g
        PROVE  pc'[f] = "idle"
    <3>1. g = h
      BY <2>1, <2>2 DEF AloneInv
    <3>2. pc[f] = "idle"
      BY <2>1, <2>2 DEF AloneInv
    <3> QED BY <2>1, <2>2, <3>1, <3>2
  <2>3. ASSUME clean' \/ smooth'
        PROVE  OneAtWork'
    <3>1. \A g \in Handlers : g # h => pc[g] = "idle"
      BY <2>1, <2>3 DEF AloneInv, OneAtWork
    <3> QED BY <2>1, <3>1 DEF OneAtWork
  <2> QED BY <2>2, <2>3 DEF AloneInv
<1>3. ASSUME \/ \E k \in {"stable", "pending", "since"} : DebounceExpires(k)
             \/ \E k \in {"onFired", "offFired"} : FiredExpires(k)
             \/ StateExpires
      PROVE  AloneInv'
  BY <1>3, Lapses DEF AloneInv, OneAtWork
<1>4. CASE UNCHANGED ignVars
  BY <1>4 DEF ignVars, AloneInv, OneAtWork
<1> QED BY <1>1, <1>2, <1>3, <1>4 DEF IgnNext, IgnStep, Works

\* While a handler that may act is alone, or the history is clean or smooth,
\* the others are idle.
LEMMA OnlyOne ==
  ASSUME TypeInv, AloneInv, NEW h \in Handlers, pc[h] # "idle",
         clean \/ smooth \/ h \in alone
  PROVE  \A g \in Handlers : g # h => pc[g] = "idle"
BY DEF AloneInv, OneAtWork

\* No handler is alone beside one at work.
LEMMA AloneWorks ==
  ASSUME TypeInv, AloneInv, NEW h \in Handlers, Works(h)
  PROVE  alone' \subseteq {h} /\ alone' \subseteq alone
BY Frame DEF AloneInv, TypeInv

LEMMA WriteStep ==
  ASSUME TypeInv, WriteInv, [IgnNext]_ignVars
  PROVE  WriteInv'
<1> DEFINE Fits(h) ==
      /\ pc[h] = "write" => EndOfDecision(writes[h])
      /\ pc[h] = "publish" => /\ EndOfAlert(writes[h], h)
                              /\ raise[h] \in {"on", "off"}
                              /\ raise[h] = "on" => final[h] = TRUE
<1>0. WriteInv = \A h \in Handlers : Fits(h)
  BY DEF WriteInv
<1>1. ASSUME NEW h \in Handlers, NEW reading \in Readings, NEW t \in 0 .. MaxTime,
             NEW now \in 0 .. MaxTime, NEW live \in BOOLEAN, Arrive(h, reading, t, now, live)
      PROVE  WriteInv'
  BY <1>1 DEF Arrive, Goes, WriteInv, EndOfAlert, Mine, Other, TypeInv
<1>2. ASSUME NEW h \in Handlers, Works(h)
      PROVE  WriteInv'
  <2>0. packet[h] \in Packets /\ packet[h].time \in Int /\ Says(packet[h]) \in {"on", "off"}
    BY Meanings DEF TypeInv, Packets
  <2>1. ASSUME NEW g \in Handlers \ {h}
        PROVE  Fits(g)'
    <3>1. /\ pc'[g] = pc[g] /\ writes'[g] = writes[g] /\ raise'[g] = raise[g]
          /\ final'[g] = final[g] /\ Fits(g)
      BY <1>0, <1>2, <2>1, Frame DEF Spares
    <3> QED BY <3>1 DEF EndOfAlert, Mine, Other
  <2>2. Fits(h)'
    <3>1. CASE ReadStable(h)
      <4>1. CASE pc'[h] = "write"
        <5>1. PICK cmds \in Seq(Commands) : EndOfDecision(cmds) /\ writes' = [writes EXCEPT ![h] = cmds]
          BY <2>0, <3>1, <4>1, Lists DEF ReadStable, Goes, Issues, Cancels, TypeInv
        <5> QED BY <4>1, <5>1 DEF TypeInv
      <4>2. CASE pc'[h] # "write"
        BY <3>1, <4>2 DEF ReadStable, Goes, TypeInv
      <4> QED BY <4>1, <4>2
    <3>2. CASE ReadPending(h)
      BY <3>2 DEF ReadPending, Goes, TypeInv
    <3>3. CASE ReadSince(h)
      <4>1. PICK cmds \in Seq(Commands) : EndOfDecision(cmds) /\ writes' = [writes EXCEPT ![h] = cmds]
        BY <2>0, <3>3, Lists DEF ReadSince, Issues
      <4>2. pc'[h] = "write"
        BY <3>3 DEF ReadSince, Goes, TypeInv
      <4> QED BY <4>1, <4>2 DEF TypeInv
    <3>4. CASE WriteDebounce(h)
      <4>1. pc[h] = "write" /\ pc' = pc /\ NextWrite(h) /\ EndOfDecision(writes[h])
        BY <3>4 DEF WriteDebounce, NextWrite, WriteInv
      <4> QED BY <4>1, DebounceWrite
    <3>5. CASE WriteFired(h)
      <4>1. pc[h] = "publish" /\ pc' = pc /\ NextWrite(h) /\ UNCHANGED <<raise, final>> /\ Fits(h)
        BY <1>0, <3>5 DEF WriteFired, NextWrite
      <4> QED BY <4>1, AlertWrite
    <3>6. CASE Ends(h)
      BY <3>6 DEF Ends, Goes, TypeInv
    <3>7. CASE ~ Ends(h) /\ (ReadState(h) \/ CacheState(h))
      BY <3>7 DEF ReadState, CacheState, Goes, TypeInv
    <3>8. CASE ~ Ends(h) /\ CheckAlert(h)
      <4>1. /\ pc'[h] = "publish" /\ final'[h] = final[h]
            /\ raise'[h] \in {"on", "off"}
            /\ raise'[h] = "on" => final[h] = TRUE
            /\ writes'[h] = IF raise'[h] = "on" THEN Arms("onFired", "offFired")
                            ELSE Arms("offFired", "onFired")
        BY <3>8 DEF CheckAlert, TurnsOn, Goes, Issues, TypeInv
      <4>2. EndOfAlert(writes[h], h)'
        <5>1. CASE raise'[h] = "on"
          <6>1. LET q == writes'[h]
                IN /\ Len(q) = 2 /\ q[1].key = "onFired" /\ q[1].to = TRUE
                   /\ q[2].key = "offFired" /\ q[2].to = FALSE
            BY <4>1, <5>1, AlertLists
          <6> QED BY <5>1, <6>1 DEF EndOfAlert, Mine, Other
        <5>2. CASE raise'[h] # "on"
          <6>1. LET q == writes'[h]
                IN /\ Len(q) = 2 /\ q[1].key = "offFired" /\ q[1].to = TRUE
                   /\ q[2].key = "onFired" /\ q[2].to = FALSE
            BY <4>1, <5>2, AlertLists
          <6> QED BY <5>2, <6>1 DEF EndOfAlert, Mine, Other
        <5> QED BY <5>1, <5>2
      <4> QED BY <4>1, <4>2
    <3>9. CASE PublishIgnition(h) \/ HandlerFails(h)
      BY <3>6, <3>9 DEF PublishIgnition, HandlerFails
    <3> QED BY <1>2, <3>1, <3>2, <3>3, <3>4, <3>5, <3>6, <3>7, <3>8, <3>9 DEF Works
  <2>3. \A g \in Handlers : Fits(g)'
    BY <2>1, <2>2
  <2> QED BY <2>3 DEF WriteInv
<1>3. ASSUME \/ \E k \in {"stable", "pending", "since"} : DebounceExpires(k)
             \/ \E k \in {"onFired", "offFired"} : FiredExpires(k)
             \/ StateExpires
      PROVE  WriteInv'
  BY <1>3, Lapses DEF WriteInv, EndOfAlert, Mine, Other
<1>4. CASE UNCHANGED ignVars
  BY <1>4 DEF ignVars, WriteInv, EndOfAlert, Mine, Other
<1> QED BY <1>1, <1>2, <1>3, <1>4 DEF IgnNext, IgnStep, Works
\* A change that lapses, in part or whole, is as founded as it was.
LEMMA FoundedLapse ==
  ASSUME NEW p, NEW q, NEW s, NEW t, p \in {q, "unset"}, s \in {t, NoTime},
         Founded(q, t), said' = said
  PROVE  Founded(p, s)'
BY DEF Founded

\* A clean change stays founded, and is confirmed when nothing has been heard
\* against it in its window.
LEMMA CleanStep ==
  ASSUME TypeInv, AloneInv, WriteInv, CleanInv, ~ hasty, [IgnNext]_ignVars
  PROVE  CleanInv' /\ ~ hasty'
<1> DEFINE Sound(h) ==
      /\ pc[h] \in {"stable", "pending"} /\ keys.pending = Says(packet[h])
           => Founded(keys.pending, keys.since)
      /\ pc[h] = "since" => /\ keys.pending \in {"unset", Says(packet[h])}
                            /\ Founded(Says(packet[h]), keys.since)
      /\ pc[h] = "write" => Founded(PendingAfter(h), SinceAfter(h))
<1>1. ASSUME NEW h \in Handlers, NEW reading \in Readings, NEW t \in 0 .. MaxTime,
             NEW now \in 0 .. MaxTime, NEW live \in BOOLEAN, Arrive(h, reading, t, now, live)
      PROVE  CleanInv' /\ ~ hasty'
  <2>1. SUFFICES ASSUME clean'
                 PROVE  CleanInv'
    BY <1>1 DEF Arrive, CleanInv
  <2>2. clean /\ \A g \in Handlers : pc[g] = "idle"
    BY <1>1, <2>1 DEF Arrive
  <2>3. Founded(keys.pending, keys.since)
    BY <2>2 DEF CleanInv, Debounce
  <2>4. pc'[h] = "stable" /\ (\A g \in Handlers : g # h => pc'[g] = "idle") /\ keys' = keys
    BY <1>1, <2>2 DEF Arrive, Goes, TypeInv
  <2>5. keys.pending = Says(packet'[h]) => Founded(keys.pending, keys.since)'
    <3>1. packet'[h] \in Packets
      BY <1>1, IgnAssumption DEF Arrive, TypeInv, Packets
    <3>2. /\ Says(packet'[h]) \in {"on", "off"} /\ Opposite(Says(packet'[h])) \in {"on", "off"}
          /\ Opposite(Says(packet'[h])) # Says(packet'[h])
      BY <3>1, Meanings
    <3>3. said'[Opposite(Says(packet'[h]))] = said[Opposite(Says(packet'[h]))]
      <4>1. packet'[h] = [reading |-> reading, time |-> t, live |-> live]
        BY <1>1 DEF Arrive, TypeInv
      <4>2. said' = [said EXCEPT ![Says(packet'[h])] = IF t > @ THEN t ELSE @]
        BY <1>1, <4>1 DEF Arrive
      <4> QED BY <3>2, <4>2 DEF TypeInv
    <3> QED BY <2>3, <2>4, <3>3 DEF Founded
  <2>6. ~ \A g \in Handlers : pc'[g] \notin Debounce
    BY <2>4 DEF Debounce
  <2> QED BY <2>4, <2>5, <2>6 DEF CleanInv
<1>2. ASSUME NEW h \in Handlers, ReadStable(h) \/ ReadPending(h) \/ ReadSince(h) \/ WriteDebounce(h)
      PROVE  CleanInv' /\ ~ hasty'
  <2>0. /\ Works(h) /\ pc[h] \in Debounce /\ pc'[h] \in Debounce /\ packet' = packet /\ said' = said
    BY <1>2 DEF Works, ReadStable, ReadPending, ReadSince, WriteDebounce, NextWrite, Goes, Debounce,
                TypeInv, local, ghosts
  <2>1. /\ packet[h] \in Packets /\ packet[h].time \in Int /\ Says(packet[h]) \in {"on", "off"}
        /\ Says(packet[h]) # "unset"
    BY Meanings DEF TypeInv, Packets
  <2>2. ASSUME ReadSince(h)
        PROVE  ~ hasty'
    <3>1. clean /\ pc[h] = "since" => Founded(Says(packet[h]), keys.since)
      BY DEF CleanInv
    <3>2. clean /\ pc[h] = "since" /\ keys.since # NoTime =>
            ~ (said[Opposite(Says(packet[h]))] > keys.since)
      BY <2>1, <3>1, Meanings DEF Founded, TypeInv
    <3> QED BY <2>2, <3>2 DEF ReadSince
  <2>3. ~ hasty'
    BY <1>2, <2>2 DEF ReadStable, ReadPending, WriteDebounce, NextWrite, ghosts
  <2>4. SUFFICES ASSUME clean'
                 PROVE  CleanInv'
    BY <2>3 DEF CleanInv
  <2>5. clean \/ h \in alone
    BY <2>0, <2>4, Frame
  <2>6. \A g \in Handlers : g # h => pc'[g] = "idle"
    BY <2>0, <2>5, Frame, OnlyOne DEF Spares
  <2>7. Sound(h)'
    <3>1. CASE ReadStable(h)
      <4>0. clean /\ Sound(h) /\ pc[h] = "stable" /\ keys' = keys
        BY <2>4, <3>1 DEF ReadStable, CleanInv, ghosts
      <4>1. CASE pc'[h] = "write"
        <5>1. PICK cmds \in Seq(Commands) : /\ writes' = [writes EXCEPT ![h] = cmds]
                                            /\ \/ Len(cmds) = 2 /\ cmds[1].to = "unset"
                                               \/ Len(cmds) = 3 /\ cmds[2].to = "unset"
          BY <2>1, <3>1, <4>1, Lists DEF ReadStable, Goes, Issues, Cancels, TypeInv
        <5>2. writes'[h] = cmds
          BY <5>1 DEF TypeInv
        <5>3. PendingAfter(h)' = "unset"
          <6>1. CASE Len(writes'[h]) = 2 /\ writes'[h][1].to = "unset"
            BY <6>1 DEF PendingAfter
          <6>2. CASE Len(writes'[h]) = 3 /\ writes'[h][2].to = "unset"
            BY <6>2 DEF PendingAfter
          <6> QED BY <5>1, <5>2, <6>1, <6>2
        <5> QED BY <4>1, <5>3 DEF Founded
      <4>2. CASE pc'[h] # "write"
        <5>1. pc'[h] = "pending"
          BY <3>1, <4>2 DEF ReadStable, Goes, TypeInv
        <5> QED BY <2>0, <4>0, <5>1 DEF Founded
      <4> QED BY <4>1, <4>2
    <3>2. CASE ReadPending(h)
      <4>1. /\ clean /\ Sound(h) /\ pc[h] = "pending" /\ keys' = keys
            /\ pc'[h] = IF keys.pending = Says(packet[h]) THEN "since" ELSE "candidate"
        BY <2>4, <3>2 DEF ReadPending, CleanInv, Goes, TypeInv, ghosts
      <4> QED BY <2>0, <4>1 DEF Founded
    <3>3. CASE ReadSince(h)
      <4> DEFINE p == packet[h]
                 fresh == pc[h] = "candidate" \/ keys.since = NoTime
      <4>0. keys' = keys /\ pc'[h] = "write"
        BY <3>3 DEF ReadSince, Goes, TypeInv
      <4>1. CASE fresh
        <5>1. said[Opposite(Says(p))] <= p.time
          BY <2>4, <3>3, <4>1 DEF ReadSince
        <5>2. writes'[h] = <<Set("pending", Says(p)), Set("since", p.time)>>
          BY <3>3, <4>1 DEF ReadSince, Issues, TypeInv
        <5>3. PendingAfter(h)' = Says(p) /\ SinceAfter(h)' = p.time
          BY <2>1, <5>2, Lists DEF PendingAfter, SinceAfter
        <5> QED BY <2>0, <4>0, <5>1, <5>3 DEF Founded
      <4>2. CASE ~ fresh
        <5>1. clean /\ Founded(Says(p), keys.since) /\ keys.pending \in {"unset", Says(p)}
          BY <2>4, <3>3, <4>2 DEF ReadSince, CleanInv
        <5>2. writes'[h] = <<>> \/ writes'[h] = Confirm(Says(p))
          BY <3>3, <4>2 DEF ReadSince, Issues, TypeInv
        <5>3. CASE writes'[h] = <<>>
          <6>1. PendingAfter(h)' = keys.pending /\ SinceAfter(h)' = keys.since
            BY <4>0, <5>3, Lists DEF PendingAfter, SinceAfter
          <6> QED BY <2>0, <4>0, <5>1, <6>1 DEF Founded
        <5>4. CASE writes'[h] = Confirm(Says(p))
          <6>1. Len(writes'[h]) = 3 /\ writes'[h][2].to = "unset"
            BY <2>1, <5>4, Lists
          <6>2. PendingAfter(h)' = "unset"
            BY <6>1 DEF PendingAfter
          <6> QED BY <4>0, <6>2 DEF Founded
        <5> QED BY <5>2, <5>3, <5>4
      <4> QED BY <4>1, <4>2
    <3>4. CASE WriteDebounce(h)
      <4>1. clean /\ pc[h] = "write" /\ pc' = pc /\ NextWrite(h) /\ EndOfDecision(writes[h])
        BY <2>4, <3>4 DEF WriteDebounce, NextWrite, WriteInv, ghosts
      <4>2. Founded(PendingAfter(h), SinceAfter(h))
        BY <4>1 DEF CleanInv
      <4>3. PendingAfter(h)' = PendingAfter(h) /\ SinceAfter(h)' = SinceAfter(h)
        BY <4>1, DebounceWrite
      <4> QED BY <2>0, <4>1, <4>2, <4>3 DEF Founded
    <3> QED BY <1>2, <3>1, <3>2, <3>3, <3>4
  <2>8. \A g \in Handlers : Sound(g)'
    BY <2>6, <2>7
  <2> QED BY <2>0, <2>8 DEF CleanInv
<1>3. ASSUME NEW h \in Handlers, ReadState(h) \/ CacheState(h) \/ CheckAlert(h) \/ WriteFired(h)
                                 \/ PublishIgnition(h)
      PROVE  CleanInv' /\ ~ hasty'
  <2>0. /\ Works(h) /\ hasty' = hasty /\ clean' = clean /\ said' = said
        /\ pc[h] \in {"write", "cache", "fired", "publish"}
    BY <1>3 DEF Works, ReadState, CacheState, CheckAlert, WriteFired, PublishIgnition, NextWrite, ghosts
  <2>1. pc'[h] \in {"idle", "cache", "fired", "publish"}
    BY <1>3 DEF ReadState, CacheState, CheckAlert, WriteFired, PublishIgnition, NextWrite, Ends, Goes,
                TypeInv
  <2>2. SUFFICES ASSUME clean
                 PROVE  CleanInv'
    BY <2>0 DEF CleanInv
  <2>3. \A g \in Handlers : g # h => pc[g] = "idle" /\ pc'[g] = "idle"
    BY <2>0, <2>2, Frame, OnlyOne DEF Spares
  <2>4. Founded(keys.pending, keys.since)
    <3>1. CASE ReadState(h)
      <4>1. pc[h] = "write" /\ writes[h] = <<>>
        BY <3>1 DEF ReadState
      <4>2. Founded(PendingAfter(h), SinceAfter(h))
        BY <2>2, <4>1 DEF CleanInv
      <4> QED BY <4>1, <4>2, Lists DEF PendingAfter, SinceAfter
    <3>2. CASE ~ ReadState(h)
      <4>1. pc[h] \notin Debounce
        BY <1>3, <3>2 DEF CacheState, CheckAlert, WriteFired, PublishIgnition, Debounce
      <4> QED BY <2>2, <2>3, <4>1 DEF CleanInv, Debounce
    <3> QED BY <3>1, <3>2
  <2>5. keys'.pending = keys.pending /\ keys'.since = keys.since
    <3>1. CASE WriteFired(h)
      <4>1. NextWrite(h) /\ UNCHANGED raise /\ EndOfAlert(writes[h], h)
        BY <3>1 DEF WriteFired, NextWrite, WriteInv
      <4>2. /\ keys' = [keys EXCEPT ![writes[h][1].key] = writes[h][1].to]
            /\ writes[h][1].key \in {"onFired", "offFired"}
        BY <4>1, AlertWrite DEF Mine, Other
      <4> QED BY <4>2 DEF TypeInv
    <3>2. CASE ~ WriteFired(h)
      BY <1>3, <3>2 DEF ReadState, CacheState, CheckAlert, PublishIgnition
    <3> QED BY <3>1, <3>2
  <2> QED BY <2>0, <2>1, <2>3, <2>4, <2>5 DEF CleanInv, Founded
<1>4. ASSUME NEW h \in Handlers, HandlerFails(h)
      PROVE  CleanInv' /\ ~ hasty'
  BY <1>4 DEF HandlerFails, CleanInv
<1>5. ASSUME \/ \E k \in {"stable", "pending", "since"} : DebounceExpires(k)
             \/ \E k \in {"onFired", "offFired"} : FiredExpires(k)
             \/ StateExpires
      PROVE  CleanInv' /\ ~ hasty'
  <2>1. /\ UNCHANGED <<pc, packet, writes, said, clean, hasty>>
        /\ keys'.pending \in {keys.pending, "unset"} /\ keys'.since \in {keys.since, NoTime}
    BY <1>5, Lapses
  <2>2. SUFFICES ASSUME clean
                 PROVE  CleanInv'
    BY <2>1 DEF CleanInv
  <2>3. ASSUME NEW h \in Handlers
        PROVE  Sound(h)'
    <3>0. Sound(h) /\ Says(packet[h]) # "unset"
      BY <2>2, Meanings DEF CleanInv, TypeInv
    <3>1. CASE pc[h] \in {"stable", "pending"}
      BY <2>1, <3>0, <3>1, FoundedLapse
    <3>2. CASE pc[h] = "since"
      <4>1. Founded(Says(packet[h]), keys.since)'
        BY <2>1, <3>0, <3>2 DEF Founded
      <4> QED BY <2>1, <3>0, <3>2, <4>1
    <3>3. CASE pc[h] = "write"
      <4>1. /\ PendingAfter(h)' \in {PendingAfter(h), "unset"}
            /\ SinceAfter(h)' \in {SinceAfter(h), NoTime}
        BY <2>1 DEF PendingAfter, SinceAfter
      <4>2. Founded(PendingAfter(h), SinceAfter(h))
        BY <3>0, <3>3
      <4>3. Founded(PendingAfter(h), SinceAfter(h))'
        BY <2>1, <4>1, <4>2 DEF Founded
      <4> QED BY <2>1, <3>3, <4>3
    <3>4. CASE pc[h] \notin {"stable", "pending", "since", "write"}
      BY <2>1, <3>4
    <3> QED BY <3>1, <3>2, <3>3, <3>4
  <2>4. (\A h \in Handlers : pc'[h] \notin Debounce) => Founded(keys.pending, keys.since)'
    BY <2>1, <2>2 DEF CleanInv, Founded
  <2> QED BY <2>3, <2>4 DEF CleanInv
<1>6. CASE UNCHANGED ignVars
  BY <1>6 DEF ignVars, CleanInv, Founded, PendingAfter, SinceAfter
<1> QED BY <1>1, <1>2, <1>3, <1>4, <1>5, <1>6 DEF IgnNext, IgnStep
\* A handler that is alone decides by the stable ignition and caches the outcome.
LEMMA CacheStep ==
  ASSUME TypeInv, AloneInv, WriteInv, CacheInv, [IgnNext]_ignVars
  PROVE  CacheInv'
<1> DEFINE Agrees(h) ==
      /\ pc[h] \in {"pending", "since", "candidate"} => keys.stable = Opposite(Says(packet[h]))
      /\ pc[h] = "write" => (final[h] = TRUE <=> StableAfter(h) = "on")
      /\ pc[h] \in {"cache", "fired", "publish"} => (final[h] = TRUE <=> keys.stable = "on")
      /\ pc[h] \in {"fired", "publish"} => (state.ign = final[h])
<1>1. ASSUME NEW h \in Handlers, NEW reading \in Readings, NEW t \in 0 .. MaxTime,
             NEW now \in 0 .. MaxTime, NEW live \in BOOLEAN, Arrive(h, reading, t, now, live)
      PROVE  CacheInv'
  <2>1. alone' \subseteq {h} /\ pc'[h] = "stable"
    BY <1>1 DEF Arrive, Goes, TypeInv
  <2> QED BY <2>1 DEF CacheInv
<1>2. ASSUME NEW h \in Handlers, Works(h)
      PROVE  CacheInv'
  <2>1. alone' \subseteq {h} /\ alone' \subseteq alone
    BY <1>2, AloneWorks
  <2>2. SUFFICES ASSUME h \in alone
                 PROVE  Agrees(h)'
    BY <2>1 DEF CacheInv
  <2>3. Agrees(h)
    BY <2>2 DEF CacheInv
  <2>4. /\ packet[h] \in Packets /\ packet[h].time \in Int /\ Says(packet[h]) \in {"on", "off"}
        /\ Opposite(Says(packet[h])) # Says(packet[h])
        /\ Opposite(Says(packet[h])) \in {"on", "off"}
        /\ packet[h].reading = "moving" => Says(packet[h]) = "on"
    BY Meanings DEF TypeInv, Packets
  <2>5. CASE ReadStable(h)
    <3> DEFINE p == packet[h]
    <3>1. keys' = keys /\ packet' = packet
      BY <2>5 DEF ReadStable
    <3>2. CASE pc'[h] = "write"
      <4>1. PICK w \in {"on", "off"} : w = Says(p)
        BY <2>4
      <4>2. final'[h] = (Says(p) = "on")
        BY <2>5, <3>2 DEF ReadStable, Goes, TypeInv
      <4>3. \/ writes'[h] = Confirm(Says(p))
            \/ writes'[h] = ClearPending /\ keys.stable = Says(p)
        BY <2>4, <2>5, <3>2 DEF ReadStable, Goes, Issues, Cancels, TypeInv
      <4>4. StableAfter(h)' = Says(p)
        <5>1. CASE writes'[h] = Confirm(Says(p))
          <6>1. Len(writes'[h]) = 3 /\ writes'[h][1].to = Says(p)
            BY <2>4, <5>1, Lists
          <6> QED BY <6>1 DEF StableAfter
        <5>2. CASE writes'[h] = ClearPending /\ keys.stable = Says(p)
          <6>1. Len(writes'[h]) = 2
            BY <5>2, Lists
          <6> QED BY <3>1, <5>2, <6>1 DEF StableAfter
        <5> QED BY <4>3, <5>1, <5>2
      <4> QED BY <3>2, <4>2, <4>4
    <3>3. CASE pc'[h] # "write"
      <4>1. pc'[h] = "pending" /\ keys.stable = Opposite(Says(p))
        BY <2>5, <3>3 DEF ReadStable, Goes, TypeInv
      <4> QED BY <3>1, <4>1
    <3> QED BY <3>2, <3>3
  <2>6. CASE ReadPending(h)
    <3>1. /\ keys' = keys /\ packet' = packet /\ pc[h] = "pending"
          /\ pc'[h] \in {"since", "candidate"}
      BY <2>6 DEF ReadPending, Goes, local, TypeInv
    <3> QED BY <2>3, <3>1
  <2>7. CASE ReadSince(h)
    <3> DEFINE p == packet[h]
    <3>1. /\ keys' = keys /\ pc'[h] = "write" /\ keys.stable = Opposite(Says(p))
      BY <2>3, <2>7 DEF ReadSince, Goes, TypeInv
    <3>2. \/ /\ final'[h] = (Says(p) = "on")
             /\ writes'[h] = Confirm(Says(p))
          \/ /\ final'[h] = (Opposite(Says(p)) = "on")
             /\ \/ writes'[h] = <<Set("pending", Says(p)), Set("since", p.time)>>
                \/ writes'[h] = <<>>
      BY <2>7 DEF ReadSince, Held, Issues, TypeInv
    <3>3. CASE writes'[h] = Confirm(Says(p))
      <4>1. Len(writes'[h]) = 3 /\ writes'[h][1].to = Says(p)
        BY <2>4, <3>3, Lists
      <4>2. writes'[h] # <<>> /\ writes'[h] # <<Set("pending", Says(p)), Set("since", p.time)>>
        <5>1. Len(<<Set("pending", Says(p)), Set("since", p.time)>>) = 2
          BY <2>4, Lists
        <5> QED BY <4>1, <5>1, Lists
      <4>3. StableAfter(h)' = Says(p)
        BY <4>1 DEF StableAfter
      <4> QED BY <3>1, <3>2, <4>2, <4>3
    <3>4. CASE writes'[h] # Confirm(Says(p))
      <4>1. Len(writes'[h]) \in {0, 2}
        BY <2>4, <3>2, <3>4, Lists
      <4>2. StableAfter(h)' = keys.stable
        <5>1. CASE Len(writes'[h]) = 0
          BY <3>1, <5>1 DEF StableAfter
        <5>2. CASE Len(writes'[h]) = 2
          BY <3>1, <5>2 DEF StableAfter
        <5> QED BY <4>1, <5>1, <5>2
      <4> QED BY <3>1, <3>2, <3>4, <4>2
    <3> QED BY <3>3, <3>4
  <2>8. CASE WriteDebounce(h)
    <3>1. /\ pc[h] = "write" /\ pc' = pc /\ NextWrite(h) /\ EndOfDecision(writes[h])
          /\ final' = final
      BY <2>8 DEF WriteDebounce, NextWrite, WriteInv
    <3>2. StableAfter(h)' = StableAfter(h)
      BY <3>1, DebounceWrite
    <3> QED BY <2>3, <3>1, <3>2
  <2>9. CASE Ends(h)
    BY <2>9 DEF Ends, Goes, TypeInv
  <2>10. CASE ReadState(h) /\ ~ Ends(h)
    <3>1. /\ pc[h] = "write" /\ writes[h] = <<>> /\ pc'[h] = "cache"
          /\ keys' = keys /\ final' = final
      BY <2>10 DEF ReadState, Goes, TypeInv
    <3>2. StableAfter(h) = keys.stable
      BY <3>1, Lists DEF StableAfter
    <3> QED BY <2>3, <3>1, <3>2
  <2>11. CASE CacheState(h) /\ ~ Ends(h)
    <3>1. /\ pc[h] = "cache" /\ pc'[h] = "fired" /\ keys' = keys /\ final' = final
          /\ state'.ign = final[h]
      BY <2>11 DEF CacheState, Goes, TypeInv, local
    <3> QED BY <2>3, <3>1
  <2>12. CASE CheckAlert(h) /\ ~ Ends(h)
    <3>1. /\ pc[h] = "fired" /\ pc'[h] = "publish" /\ keys' = keys /\ final' = final
          /\ state' = state
      BY <2>12 DEF CheckAlert, Goes, TypeInv
    <3> QED BY <2>3, <3>1
  <2>13. CASE WriteFired(h)
    <3>1. /\ pc[h] = "publish" /\ pc' = pc /\ NextWrite(h) /\ UNCHANGED <<raise, final, state>>
          /\ EndOfAlert(writes[h], h)
      BY <2>13 DEF WriteFired, NextWrite, WriteInv
    <3>2. /\ keys' = [keys EXCEPT ![writes[h][1].key] = writes[h][1].to]
          /\ writes[h][1].key \in {"onFired", "offFired"}
      BY <3>1, AlertWrite DEF Mine, Other
    <3>3. keys'.stable = keys.stable
      BY <3>2 DEF TypeInv
    <3> QED BY <2>3, <3>1, <3>3
  <2>14. CASE PublishIgnition(h) \/ HandlerFails(h)
    BY <2>9, <2>14 DEF PublishIgnition, HandlerFails
  <2> QED BY <1>2, <2>5, <2>6, <2>7, <2>8, <2>9, <2>10, <2>11, <2>12, <2>13, <2>14 DEF Works
<1>3. ASSUME \/ \E k \in {"stable", "pending", "since"} : DebounceExpires(k)
             \/ \E k \in {"onFired", "offFired"} : FiredExpires(k)
             \/ StateExpires
      PROVE  CacheInv'
  BY <1>3, Lapses DEF CacheInv
<1>4. CASE UNCHANGED ignVars
  BY <1>4 DEF ignVars, CacheInv, StableAfter
<1> QED BY <1>1, <1>2, <1>3, <1>4 DEF IgnNext, IgnStep, Works
\* Whoever is at work, the steps outside the alerts keep their keys and the last
\* one told.
LEMMA AlertKeysKept ==
  ASSUME TypeInv, WriteInv, NEW h \in Handlers, Works(h), ~ WriteFired(h)
  PROVE  keys'.onFired = keys.onFired /\ keys'.offFired = keys.offFired
<1>1. CASE WriteDebounce(h)
  <2>1. NextWrite(h) /\ EndOfDecision(writes[h])
    BY <1>1 DEF WriteDebounce, WriteInv
  <2> QED BY <2>1, DebounceWrite
<1>2. CASE ~ WriteDebounce(h)
  <2>1. keys' = keys
    BY <1>2 DEF Works, ReadStable, ReadPending, ReadSince, ReadState, CacheState, CheckAlert,
                PublishIgnition, HandlerFails
  <2> QED BY <2>1
<1> QED BY <1>1, <1>2

\* The alerts' keys tell the last alert, so that none is repeated.
LEMMA AlertStep ==
  ASSUME TypeInv, AloneInv, WriteInv, AlertInv, ~ repeated, [IgnNext]_ignVars
  PROVE  AlertInv' /\ ~ repeated'
<1> DEFINE Told == /\ keys.onFired = TRUE <=> told = "on"
                   /\ keys.offFired = TRUE <=> told = "off"
           Armed(h) == pc[h] = "publish" => /\ Len(writes[h]) < 2 => keys[Mine(h)] = TRUE
                                            /\ Len(writes[h]) < 1 => keys[Other(h)] = FALSE
<1>1. ASSUME NEW h \in Handlers, NEW reading \in Readings, NEW t \in 0 .. MaxTime,
             NEW now \in 0 .. MaxTime, NEW live \in BOOLEAN, Arrive(h, reading, t, now, live)
      PROVE  AlertInv' /\ ~ repeated'
  <2>1. /\ alone' \subseteq {h} /\ pc'[h] = "stable" /\ pc[h] = "idle"
        /\ \A g \in Handlers : g # h => pc'[g] = pc[g]
        /\ UNCHANGED <<keys, told, raise, repeated>>
    BY <1>1 DEF Arrive, Goes, TypeInv
  <2>2. smooth' => smooth
    BY <1>1 DEF Arrive
  <2>3. smooth' => \A g \in Handlers : pc'[g] # "publish" /\ pc[g] # "publish"
    BY <1>1, <2>1 DEF Arrive
  <2> QED BY <2>1, <2>2, <2>3 DEF AlertInv
<1>2. ASSUME NEW h \in Handlers, Works(h), ~ CheckAlert(h), ~ WriteFired(h), ~ PublishIgnition(h)
      PROVE  AlertInv' /\ ~ repeated'
  <2>1. UNCHANGED <<told, repeated>> /\ (smooth' => smooth)
    <3>1. CASE HandlerFails(h)
      BY <3>1 DEF HandlerFails
    <3>2. CASE WriteDebounce(h)
      BY <3>2 DEF WriteDebounce, NextWrite, ghosts
    <3>3. CASE ReadStable(h) \/ ReadPending(h) \/ ReadSince(h)
      BY <3>3 DEF ReadStable, ReadPending, ReadSince, ghosts
    <3>4. CASE ReadState(h) \/ CacheState(h)
      BY <3>4 DEF ReadState, CacheState, ghosts
    <3> QED BY <1>2, <3>1, <3>2, <3>3, <3>4 DEF Works
  <2>2. HandlerFails(h) => ~ smooth' /\ alone' = {}
    BY DEF HandlerFails
  <2>3. CASE HandlerFails(h)
    BY <2>1, <2>2, <2>3 DEF AlertInv
  <2>4. CASE ~ HandlerFails(h)
    <3>1. pc'[h] # "publish"
      BY <1>2, <2>4 DEF Works, ReadStable, ReadPending, ReadSince, WriteDebounce, NextWrite, ReadState,
                        CacheState, Ends, Goes, TypeInv
    <3>2. alone' \subseteq {h}
      BY <1>2, AloneWorks
    <3>3. keys'.onFired = keys.onFired /\ keys'.offFired = keys.offFired
      BY <1>2, AlertKeysKept
    <3>4. \A g \in Handlers : g # h => pc'[g] = pc[g] /\ raise'[g] = raise[g]
      BY <1>2, Frame DEF Spares
    <3>5. pc[h] # "publish"
      BY <1>2, <2>4 DEF Works, ReadStable, ReadPending, ReadSince, WriteDebounce, ReadState, CacheState
    <3> QED BY <2>1, <3>1, <3>2, <3>3, <3>4, <3>5 DEF AlertInv
  <2> QED BY <2>3, <2>4
<1>3. ASSUME NEW h \in Handlers, CheckAlert(h)
      PROVE  AlertInv' /\ ~ repeated'
  <2>0. Works(h)
    BY <1>3 DEF Works
  <2>1. /\ UNCHANGED <<keys, told, repeated>> /\ pc[h] = "fired"
        /\ smooth' => smooth
    BY <1>3 DEF CheckAlert
  <2>2. smooth => \A g \in Handlers : pc[g] # "publish" /\ (g # h => pc'[g] # "publish")
    BY <2>0, <2>1, Frame, OnlyOne DEF Spares
  <2>3. smooth => Told
    BY <2>2 DEF AlertInv
  <2>4. alone' \subseteq {h}
    BY <2>0, AloneWorks
  <2>5. CASE Ends(h)
    <3>1. pc'[h] = "idle"
      BY <2>5 DEF Ends, Goes, TypeInv
    <3> QED BY <2>1, <2>2, <2>3, <2>4, <3>1 DEF AlertInv
  <2>6. CASE ~ Ends(h)
    <3>1. /\ pc'[h] = "publish"
          /\ \/ raise'[h] = "on" /\ ~ keys.onFired /\ writes'[h] = Arms("onFired", "offFired")
             \/ raise'[h] = "off" /\ ~ keys.offFired /\ writes'[h] = Arms("offFired", "onFired")
      BY <1>3, <2>6 DEF CheckAlert, Unfired, Goes, Issues, TypeInv
    <3>2. Len(writes'[h]) = 2
      BY <3>1, AlertLists
    <3>3. smooth => told # raise'[h]
      BY <2>3, <3>1 DEF TypeInv
    <3>4. Armed(h)'
      BY <3>2
    <3> QED BY <2>1, <2>2, <2>4, <3>1, <3>3, <3>4 DEF AlertInv
  <2> QED BY <2>5, <2>6
<1>4. ASSUME NEW h \in Handlers, WriteFired(h)
      PROVE  AlertInv' /\ ~ repeated'
  <2>1. /\ pc[h] = "publish" /\ pc' = pc /\ NextWrite(h) /\ UNCHANGED <<raise, told, smooth, repeated, alone>>
        /\ EndOfAlert(writes[h], h) /\ Works(h)
    BY <1>4 DEF WriteFired, NextWrite, WriteInv, ghosts, Works
  <2>2. alone' \subseteq {h} /\ alone' \subseteq alone
    BY <2>1, AloneWorks
  <2>3. Mine(h)' = Mine(h) /\ Other(h)' = Other(h)
    BY <2>1 DEF Mine, Other
  <2>4. /\ Mine(h) \in {"onFired", "offFired"} /\ Other(h) \in {"onFired", "offFired"}
        /\ Mine(h) # Other(h)
    BY DEF Mine, Other
  <2>5. h \in alone => Armed(h)'
    <3>0. /\ keys' = [keys EXCEPT ![writes[h][1].key] = writes[h][1].to]
          /\ \/ /\ Len(writes[h]) = 2 /\ Len(writes'[h]) = 1
                /\ writes[h][1].key = Mine(h) /\ writes[h][1].to = TRUE
             \/ /\ Len(writes[h]) = 1 /\ Len(writes'[h]) = 0
                /\ writes[h][1].key = Other(h) /\ writes[h][1].to = FALSE
      BY <2>1, AlertWrite
    <3>1. CASE Len(writes[h]) = 2
      <4>1. /\ writes[h][1].key = Mine(h) /\ writes[h][1].to = TRUE
            /\ Len(writes'[h]) = 1
        BY <3>0, <3>1
      <4>2. keys'[Mine(h)] = TRUE
        BY <2>4, <3>0, <4>1 DEF TypeInv
      <4> QED BY <2>3, <4>1, <4>2
    <3>2. CASE Len(writes[h]) = 1
      <4>1. /\ writes[h][1].key = Other(h) /\ writes[h][1].to = FALSE
            /\ Len(writes'[h]) = 0
        BY <3>0, <3>2
      <4>2. h \in alone => keys[Mine(h)] = TRUE
        <5>1. h \in alone => (Len(writes[h]) < 2 => keys[Mine(h)] = TRUE)
          BY <2>1 DEF AlertInv
        <5> QED BY <3>2, <5>1
      <4>3. keys'[Other(h)] = FALSE /\ keys'[Mine(h)] = keys[Mine(h)]
        BY <2>4, <3>0, <4>1 DEF TypeInv
      <4> QED BY <2>3, <4>1, <4>2, <4>3
    <3> QED BY <3>0, <3>1, <3>2
  <2> QED BY <2>1, <2>2, <2>5 DEF AlertInv
<1>5. ASSUME NEW h \in Handlers, PublishIgnition(h)
      PROVE  AlertInv' /\ ~ repeated'
  <2>0. /\ Works(h) /\ pc[h] = "publish" /\ writes[h] = <<>> /\ keys' = keys
        /\ told' = raise[h] /\ smooth' = (h \in alone) /\ raise[h] \in {"on", "off"}
    BY <1>5 DEF PublishIgnition, Works, WriteInv
  <2>1. pc'[h] = "idle"
    BY <1>5 DEF PublishIgnition, Ends, Goes, TypeInv
  <2>2. ~ repeated'
    BY <1>5, <2>0 DEF PublishIgnition, AlertInv
  <2>3. alone' \subseteq {h}
    BY <2>0, AloneWorks
  <2>4. ASSUME smooth'
        PROVE  Told' /\ \A g \in Handlers : pc'[g] # "publish"
    <3>1. h \in alone
      BY <2>0, <2>4
    <3>2. \A g \in Handlers : g # h => pc'[g] = "idle"
      BY <2>0, <3>1, Frame, OnlyOne DEF Spares
    <3>3. keys[Mine(h)] = TRUE /\ keys[Other(h)] = FALSE
      BY <2>0, <3>1, Lists DEF AlertInv
    <3>4. Told'
      BY <2>0, <3>3 DEF Mine, Other
    <3> QED BY <2>1, <3>2, <3>4
  <2> QED BY <2>1, <2>2, <2>3, <2>4 DEF AlertInv
<1>6. ASSUME \/ \E k \in {"stable", "pending", "since"} : DebounceExpires(k)
             \/ \E k \in {"onFired", "offFired"} : FiredExpires(k)
             \/ StateExpires
      PROVE  AlertInv' /\ ~ repeated'
  <2>1. /\ UNCHANGED <<pc, raise, told, repeated>> /\ alone' = {}
        /\ smooth' => /\ smooth
                      /\ keys'.onFired = keys.onFired /\ keys'.offFired = keys.offFired
    BY <1>6, Lapses
  <2> QED BY <2>1 DEF AlertInv
<1>7. CASE UNCHANGED ignVars
  BY <1>7 DEF ignVars, AlertInv, Mine, Other
<1> QED BY <1>1, <1>2, <1>3, <1>4, <1>5, <1>6, <1>7 DEF IgnNext, IgnStep, Works

\* A vehicle told on is on unless the packet at work is turning it off.
LEMMA RestStep ==
  ASSUME TypeInv, AloneInv, WriteInv, CacheInv, AlertInv, RestInv, [IgnNext]_ignVars
  PROVE  RestInv'
<1> DEFINE Late == {"fired", "publish"}
           Holds(h) == /\ pc[h] \in {"cache", "fired"} => prev[h].ign = TRUE
                       /\ pc[h] = "fired" => state.ign = final[h]
<1>1. ASSUME NEW h \in Handlers, NEW reading \in Readings, NEW t \in 0 .. MaxTime,
             NEW now \in 0 .. MaxTime, NEW live \in BOOLEAN, Arrive(h, reading, t, now, live)
      PROVE  RestInv'
  <2>1. /\ pc'[h] = "stable" /\ pc[h] = "idle"
        /\ \A g \in Handlers : g # h => pc'[g] = pc[g]
        /\ UNCHANGED <<state, told, prev, final>>
    BY <1>1 DEF Arrive, Goes, TypeInv
  <2>2. smooth' => smooth
    BY <1>1 DEF Arrive
  <2>3. (\A g \in Handlers : pc'[g] \notin Late) => \A g \in Handlers : pc[g] \notin Late
    BY <2>1
  <2> QED BY <2>1, <2>2, <2>3 DEF RestInv
<1>2. ASSUME NEW h \in Handlers,
             ReadStable(h) \/ ReadPending(h) \/ ReadSince(h) \/ WriteDebounce(h)
      PROVE  RestInv'
  <2>1. /\ Works(h) /\ pc[h] \in Debounce /\ pc'[h] \in Debounce
        /\ UNCHANGED <<state, told, smooth>>
    BY <1>2 DEF Works, ReadStable, ReadPending, ReadSince, WriteDebounce, NextWrite, Goes, Debounce,
                TypeInv, ghosts
  <2>2. \A g \in Handlers : g # h => pc'[g] = pc[g] /\ prev'[g] = prev[g] /\ final'[g] = final[g]
    BY <2>1, Frame DEF Spares
  <2>3. pc[h] \notin Late /\ pc'[h] \notin Late \cup {"cache"}
    BY <2>1 DEF Debounce
  <2>4. (\A g \in Handlers : pc'[g] \notin Late) => \A g \in Handlers : pc[g] \notin Late
    BY <2>2, <2>3
  <2> QED BY <2>1, <2>2, <2>3, <2>4 DEF RestInv
<1>3. ASSUME NEW h \in Handlers, ReadState(h) \/ CacheState(h) \/ CheckAlert(h) \/ WriteFired(h)
      PROVE  RestInv'
  <2>0. /\ Works(h) /\ told' = told /\ (smooth' => smooth) /\ pc[h] # "idle"
    <3>1. CASE ReadState(h) \/ CacheState(h)
      BY <3>1 DEF Works, ReadState, CacheState, ghosts
    <3>2. CASE CheckAlert(h)
      BY <3>2 DEF Works, CheckAlert
    <3>3. CASE WriteFired(h)
      BY <3>3 DEF Works, WriteFired, NextWrite, ghosts
    <3> QED BY <1>3, <3>1, <3>2, <3>3
  <2>1. SUFFICES ASSUME smooth', told = "on"
                 PROVE  RestInv'
    BY <2>0 DEF RestInv
  <2>2. \A g \in Handlers : g # h => pc[g] = "idle" /\ pc'[g] = "idle"
    BY <2>0, <2>1, Frame, OnlyOne DEF Spares
  <2>3. pc[h] \notin Late => state.ign = TRUE
    BY <2>0, <2>1, <2>2 DEF RestInv
  <2>4. SUFFICES (pc'[h] \notin Late => state'.ign = TRUE) /\ Holds(h)'
    BY <2>2 DEF RestInv
  <2>5. Holds(h)
    BY <2>0, <2>1 DEF RestInv
  <2>6. CASE ReadState(h)
    <3>1. state' = state /\ state.ign = TRUE
      BY <2>3, <2>6 DEF ReadState
    <3>2. \/ pc'[h] = "idle"
          \/ pc'[h] = "cache" /\ prev'[h] = state
      BY <2>6 DEF ReadState, Ends, Goes, TypeInv
    <3> QED BY <3>1, <3>2
  <2>7. CASE CacheState(h)
    <3>1. pc[h] = "cache" /\ prev[h].ign = TRUE /\ state.ign = TRUE
      BY <2>3, <2>5, <2>7 DEF CacheState
    <3>2. \/ pc'[h] = "idle" /\ state' = state
          \/ pc'[h] = "fired" /\ prev' = prev /\ final' = final /\ state'.ign = final[h]
      BY <2>7 DEF CacheState, Ends, Goes, TypeInv, local
    <3> QED BY <3>1, <3>2
  <2>8. CASE CheckAlert(h)
    <3>1. /\ pc[h] = "fired" /\ state' = state /\ prev[h].ign = TRUE /\ state.ign = final[h]
          /\ clock - packet[h].time < Recent
      BY <2>1, <2>5, <2>8 DEF CheckAlert
    <3>2. keys.offFired # TRUE
      BY <2>0, <2>1, <2>2, <3>1 DEF AlertInv
    <3>3. ~ final[h] => TurnsOff(h) /\ Unfired("offFired")
      BY <3>1, <3>2 DEF TurnsOff, Unfired, TypeInv
    <3>4. final[h] \in BOOLEAN
      BY DEF TypeInv
    <3>5. CASE final[h] = TRUE
      <4>1. pc'[h] \in {"idle", "publish"}
        BY <2>8 DEF CheckAlert, Ends, Goes, TypeInv
      <4> QED BY <3>1, <3>5, <4>1
    <3>6. CASE ~ final[h]
      <4>1. pc'[h] = "publish"
        BY <2>8, <3>1, <3>3, <3>6 DEF CheckAlert, Goes, TypeInv
      <4> QED BY <4>1
    <3> QED BY <3>4, <3>5, <3>6
  <2>9. CASE WriteFired(h)
    BY <2>9 DEF WriteFired, NextWrite
  <2> QED BY <1>3, <2>6, <2>7, <2>8, <2>9
<1>4. ASSUME NEW h \in Handlers, PublishIgnition(h)
      PROVE  RestInv'
  <2>1. /\ Works(h) /\ pc[h] = "publish" /\ told' = raise[h] /\ smooth' = (h \in alone)
        /\ state' = state
        /\ raise[h] = "on" => final[h] = TRUE
    BY <1>4 DEF PublishIgnition, Works, WriteInv
  <2>2. pc'[h] = "idle"
    BY <1>4 DEF PublishIgnition, Ends, Goes, TypeInv
  <2>3. SUFFICES ASSUME smooth', told' = "on"
                 PROVE  RestInv'
    BY DEF RestInv
  <2>4. state.ign = final[h] /\ final[h] = TRUE
    BY <2>1, <2>3 DEF CacheInv
  <2>5. \A g \in Handlers : pc'[g] = "idle"
    BY <2>1, <2>2, <2>3, Frame, OnlyOne DEF Spares
  <2> QED BY <2>1, <2>4, <2>5 DEF RestInv
<1>5. ASSUME NEW h \in Handlers, HandlerFails(h)
      PROVE  RestInv'
  BY <1>5 DEF HandlerFails, RestInv
<1>6. ASSUME \/ \E k \in {"stable", "pending", "since"} : DebounceExpires(k)
             \/ \E k \in {"onFired", "offFired"} : FiredExpires(k)
             \/ StateExpires
      PROVE  RestInv'
  <2>1. /\ UNCHANGED <<pc, prev, final, told>>
        /\ smooth' => smooth /\ state' = state
    BY <1>6, Lapses
  <2> QED BY <2>1 DEF RestInv
<1>7. CASE UNCHANGED ignVars
  BY <1>7 DEF ignVars, RestInv
<1> QED BY <1>1, <1>2, <1>3, <1>4, <1>5, <1>6, <1>7 DEF IgnNext, IgnStep
LEMMA IgnInit_IgnInv == IgnInit => IgnInv
<1> SUFFICES ASSUME IgnInit PROVE IgnInv
  OBVIOUS
<1>0. /\ pc = [h \in Handlers |-> "idle"] /\ alone = {} /\ clean = FALSE
      /\ hasty = FALSE /\ repeated = FALSE
  BY DEF IgnInit
<1>1. /\ keys \in [stable : Flags, pending : Flags, since : Int, onFired : BOOLEAN, offFired : BOOLEAN]
      /\ state \in States /\ told \in {"none", "on", "off"}
      /\ keys.onFired = TRUE <=> told = "on"
      /\ keys.offFired = TRUE <=> told = "off"
      /\ told = "on" => state.ign = TRUE
  <2>1. CASE keys = NoKeys /\ state = NoState /\ told = "none"
    BY <2>1 DEF NoKeys, NoState, NoTime, Flags, States
  <2>2. CASE /\ keys = [NoKeys EXCEPT !.stable = "off", !.offFired = TRUE]
             /\ state = [ign |-> FALSE, parked |-> 0, time |-> 0] /\ told = "off"
    <3>1. keys = [stable |-> "off", pending |-> "unset", since |-> NoTime,
                  onFired |-> FALSE, offFired |-> TRUE]
      BY <2>2 DEF NoKeys
    <3>2. /\ keys.onFired = FALSE /\ keys.offFired = TRUE
          /\ keys \in [stable : Flags, pending : Flags, since : Int, onFired : BOOLEAN,
                       offFired : BOOLEAN]
      BY <3>1 DEF Flags, NoTime
    <3>3. state \in States /\ (told = "on" => state.ign = TRUE)
      BY <2>2 DEF States, NoTime
    <3> QED BY <2>2, <3>2, <3>3
  <2>3. CASE /\ keys = [NoKeys EXCEPT !.stable = "on", !.onFired = TRUE]
             /\ state = [ign |-> TRUE, parked |-> NoTime, time |-> 0] /\ told = "on"
    <3>1. keys = [stable |-> "on", pending |-> "unset", since |-> NoTime,
                  onFired |-> TRUE, offFired |-> FALSE]
      BY <2>3 DEF NoKeys
    <3>2. /\ keys.onFired = TRUE /\ keys.offFired = FALSE
          /\ keys \in [stable : Flags, pending : Flags, since : Int, onFired : BOOLEAN,
                       offFired : BOOLEAN]
      BY <3>1 DEF Flags, NoTime
    <3>3. state \in States /\ (told = "on" => state.ign = TRUE)
      BY <2>3 DEF States, NoTime
    <3> QED BY <2>3, <3>2, <3>3
  <2> QED BY <2>1, <2>2, <2>3 DEF IgnInit
<1>2. TypeInv
  <2>1. NoPacket \in Packets /\ NoState \in States /\ <<>> \in Seq(Commands)
    BY Lists DEF NoPacket, NoState, NoTime, Packets, Readings, States
  <2>2. said \in [{"on", "off"} -> Int] /\ alone = {} /\ clean \in BOOLEAN /\ smooth \in BOOLEAN
    <3>1. said = [w \in {"on", "off"} |-> NoTime] /\ smooth = TRUE
      BY DEF IgnInit
    <3>2. NoTime \in Int
      BY DEF NoTime
    <3> QED BY <1>0, <3>1, <3>2
  <2>3. /\ packet \in [Handlers -> Packets] /\ final \in [Handlers -> BOOLEAN]
        /\ prev \in [Handlers -> States] /\ writes \in [Handlers -> Seq(Commands)]
        /\ raise \in [Handlers -> {"none", "on", "off"}]
    BY <2>1 DEF IgnInit
  <2> QED BY <1>0, <1>1, <2>2, <2>3 DEF TypeInv, Steps
<1>3. AloneInv /\ WriteInv /\ CleanInv /\ CacheInv
  BY <1>0 DEF AloneInv, OneAtWork, WriteInv, CleanInv, CacheInv
<1>4. AlertInv /\ RestInv
  BY <1>0, <1>1 DEF AlertInv, RestInv
<1> QED BY <1>0, <1>2, <1>3, <1>4 DEF IgnInv

LEMMA IgnInvStep == IgnInv /\ [IgnNext]_ignVars => IgnInv'
BY TypeStep, AloneStep, WriteStep, CleanStep, CacheStep, AlertStep, RestStep DEF IgnInv

(***************************************************************************)
(* Theorems.                                                               *)
(***************************************************************************)
\* The debounce, the cached state and the alerts keep to each other at every step
\* of every packet (locationSubscriber.js:270-348, 760-970).
THEOREM IgnitionInvariant == IgnSpec => []IgnInv
BY IgnInit_IgnInv, IgnInvStep, PTL DEF IgnSpec

\* However the packets before it came, a change of the ignition whose own packets
\* come in order and one by one is confirmed by time only when nothing was heard
\* against it in its window, whatever the windows (locationSubscriber.js:286-348).
THEOREM FlipsAreHeld == IgnSpec => []FlipWasHeld
<1>1. IgnInv => FlipWasHeld
  BY DEF IgnInv, FlipWasHeld
<1> QED BY <1>1, IgnitionInvariant, PTL

\* One live packet handled alone leaves the ignition it cached equal to the stable
\* one, whatever races came before (locationSubscriber.js:313-347, 775-802).
THEOREM CacheFollowsStable == IgnSpec => []CacheTracksStable
<1>1. IgnInv => CacheTracksStable
  <2> SUFFICES ASSUME IgnInv, NEW h \in alone, pc[h] \in {"fired", "publish"}
               PROVE  state.ign = (keys.stable = "on")
    BY DEF CacheTracksStable
  <2>1. /\ final[h] = TRUE <=> keys.stable = "on"
        /\ state.ign = final[h]
    BY DEF IgnInv, CacheInv
  <2>2. final[h] \in BOOLEAN
    BY DEF IgnInv, TypeInv
  <2> QED BY <2>1, <2>2
<1> QED BY <1>1, IgnitionInvariant, PTL

\* Engine ON and OFF are told in turn for any number of packets, replays
\* included, while they run smoothly (locationSubscriber.js:930-967).
THEOREM AlertsTakeTurns == IgnSpec => []AlertsAlternate
<1>1. IgnInv => AlertsAlternate
  BY DEF IgnInv, AlertsAlternate
<1> QED BY <1>1, IgnitionInvariant, PTL

\* A vehicle told on is cached as on whenever it is at rest: no OFF is swallowed
\* by the key of an earlier one (locationSubscriber.js:949-965).
THEOREM NoOffSwallowed == IgnSpec => []ToldOnIsOn
<1>1. IgnInv => ToldOnIsOn
  BY DEF IgnInv, RestInv, ToldOnIsOn
<1> QED BY <1>1, IgnitionInvariant, PTL

(***************************************************************************)
(* What an alert says.                                                     *)
(***************************************************************************)
\* An alert under way is the decision of its handler.
RaiseInv ==
  \A h \in Handlers :
    raise[h] # "none" => pc[h] = "publish" /\ (raise[h] = "on" <=> final[h] = TRUE)

LEMMA RaiseStep ==
  ASSUME TypeInv, RaiseInv, [IgnNext]_ignVars
  PROVE  RaiseInv'
<1>0. SUFFICES ASSUME NEW g \in Handlers
      PROVE  raise'[g] # "none" => pc'[g] = "publish" /\ (raise'[g] = "on" <=> final'[g] = TRUE)
  BY DEF RaiseInv
<1>1. ASSUME NEW h \in Handlers, Ends(h)
      PROVE  raise'[g] # "none" => pc'[g] = "publish" /\ (raise'[g] = "on" <=> final'[g] = TRUE)
  BY <1>1 DEF Ends, Goes, RaiseInv, TypeInv
<1>2. ASSUME NEW h \in Handlers, pc[h] # "publish", UNCHANGED raise,
             \E where \in Steps : Goes(h, where),
             final' = final \/ \E says \in BOOLEAN : final' = [final EXCEPT ![h] = says]
      PROVE  raise'[g] # "none" => pc'[g] = "publish" /\ (raise'[g] = "on" <=> final'[g] = TRUE)
  BY <1>2 DEF Goes, RaiseInv, TypeInv
<1>3. ASSUME NEW h \in Handlers,
             \/ \E r \in Readings, t, now \in 0 .. MaxTime, live \in BOOLEAN : Arrive(h, r, t, now, live)
             \/ ReadStable(h) \/ ReadPending(h) \/ ReadSince(h)
      PROVE  /\ pc[h] # "publish" /\ UNCHANGED raise
             /\ \E where \in Steps : Goes(h, where)
             /\ final' = final \/ \E says \in BOOLEAN : final' = [final EXCEPT ![h] = says]
  BY <1>3 DEF Arrive, ReadStable, ReadPending, ReadSince, Steps, local
<1>4. ASSUME NEW h \in Handlers, ~Ends(h), ReadState(h) \/ CacheState(h)
      PROVE  /\ pc[h] # "publish" /\ UNCHANGED <<raise, final>>
             /\ \E where \in Steps : Goes(h, where)
  BY <1>4 DEF ReadState, CacheState, Steps, local
<1>5. ASSUME NEW h \in Handlers, ~Ends(h), CheckAlert(h)
      PROVE  raise'[g] # "none" => pc'[g] = "publish" /\ (raise'[g] = "on" <=> final'[g] = TRUE)
  <2>1. PICK what \in {"on", "off"} :
          /\ raise' = [raise EXCEPT ![h] = what] /\ pc' = [pc EXCEPT ![h] = "publish"]
          /\ UNCHANGED final
          /\ what = "on" <=> final[h] = TRUE
    BY <1>5 DEF CheckAlert, Goes, TurnsOn, TurnsOff, TypeInv
  <2> QED BY <2>1 DEF RaiseInv, TypeInv
<1>6. ASSUME NEW h \in Handlers, WriteDebounce(h) \/ WriteFired(h)
      PROVE  UNCHANGED <<raise, pc, final>>
  BY <1>6 DEF WriteDebounce, WriteFired, NextWrite
<1>7. ASSUME NEW h \in Handlers, PublishIgnition(h) \/ HandlerFails(h)
      PROVE  Ends(h)
  BY <1>7 DEF PublishIgnition, HandlerFails
<1>8. CASE \/ \E k \in {"stable", "pending", "since"} : DebounceExpires(k)
           \/ \E k \in {"onFired", "offFired"} : FiredExpires(k)
           \/ StateExpires
           \/ UNCHANGED ignVars
  <2>1. UNCHANGED <<raise, pc, final>>
    BY <1>8 DEF DebounceExpires, FiredExpires, StateExpires, local, ignVars
  <2> QED BY <2>1 DEF RaiseInv
<1>9. ASSUME NEW h \in Handlers, IgnStep(h)
      PROVE  raise'[g] # "none" => pc'[g] = "publish" /\ (raise'[g] = "on" <=> final'[g] = TRUE)
  BY <1>1, <1>2, <1>3, <1>4, <1>5, <1>6, <1>7, <1>9 DEF IgnStep, RaiseInv
<1> QED BY <1>8, <1>9 DEF IgnNext

\* An alert raised by a packet handled alone tells the debounced ignition, which is
\* also the one cached: a packet that says off raises engine ON only where the
\* debounce still holds ON, set by an earlier packet, replayed or not
\* (locationSubscriber.js:286-348, 930-967).
THEOREM AlertsTellStable ==
  IgnSpec => [](\A h \in alone : raise[h] # "none" =>
                  /\ raise[h] = "on" <=> keys.stable = "on"
                  /\ state.ign <=> raise[h] = "on")
<1>1. IgnInit => RaiseInv
  BY DEF IgnInit, RaiseInv
<1>2. IgnInv /\ RaiseInv /\ [IgnNext]_ignVars => RaiseInv'
  BY RaiseStep DEF IgnInv
<1>3. IgnInv /\ RaiseInv =>
        \A h \in alone : raise[h] # "none" =>
          /\ raise[h] = "on" <=> keys.stable = "on"
          /\ state.ign <=> raise[h] = "on"
  <2> SUFFICES ASSUME IgnInv, RaiseInv, NEW h \in alone, raise[h] # "none"
               PROVE  /\ raise[h] = "on" <=> keys.stable = "on"
                      /\ state.ign <=> raise[h] = "on"
    OBVIOUS
  <2>1. h \in Handlers /\ final[h] \in BOOLEAN
    BY DEF IgnInv, TypeInv
  <2>2. /\ raise[h] = "on" <=> final[h] = TRUE
        /\ final[h] = TRUE <=> keys.stable = "on"
        /\ state.ign = final[h]
    BY <2>1 DEF IgnInv, RaiseInv, CacheInv
  <2> QED BY <2>1, <2>2
<1> QED BY <1>1, <1>2, <1>3, IgnitionInvariant, PTL DEF IgnSpec
=============================================================================
