------------------------- MODULE DeviceCommandsProofs -------------------------
(***************************************************************************)
(* The downlink for any number of connections, requests, restarts and      *)
(* failed UPDATEs, over every kind of port: types, one write per command,  *)
(* their order and the row that records them; and for the ports that use   *)
(* registerDeviceSocket, what the registry and the parked command promise. *)
(***************************************************************************)
EXTENDS DeviceCommands, TLAPS

(***************************************************************************)
(* The inductive invariant.                                                *)
(***************************************************************************)
\* Ports that fire parked commands: the registry follows the session, and no entry
\* has the clientId of one connection and the socket of another.
RegistryInv ==
  AutoFires => /\ PendingMeansOffline /\ RegistryTracksSession /\ holder = NoSocket
               /\ \A s \in Sockets : ~awaiting[s]

\* Where a command is agrees with its fate, and no queue holds one twice.
FutureBlank == \A r \in Requests : r > published => fate[r] = "none" /\ stage[r] = "new"
ChannelBlank == \A i \in DOMAIN channel : fate[channel[i]] = "none" /\ channel[i] <= published
ChannelSorted == \A i, j \in DOMAIN channel : i < j => channel[i] < channel[j]
ScheduledFates == \A i \in DOMAIN immediates : AutoFires /\ fate[immediates[i][1]] = "scheduled"
ScheduledSorted == \A i, j \in DOMAIN immediates : i < j => immediates[i][1] < immediates[j][1]
LogFates == \A i \in DOMAIN log : fate[log[i]] \in {"written", "garbled"}

PlaceInv == /\ FutureBlank /\ ChannelBlank /\ ChannelSorted
            /\ ScheduledFates /\ ScheduledSorted /\ LogFates /\ WrittenOnce

\* Commands are older the further they have come; what was written before a
\* scheduled command is older than it, unless it was overtaken.
Newest(r) == /\ \A k \in DOMAIN log : log[k] < r
             /\ \A k \in DOMAIN immediates : immediates[k][1] < r

ChannelNewest == \A i \in DOMAIN channel : pending < channel[i] /\ Newest(channel[i])
PendingNewer == AutoFires /\ pending # 0 => Newest(pending)
ScheduledNewer ==
  \A i \in DOMAIN immediates :
    immediates[i][1] \in overtaken \/ \A k \in DOMAIN log : log[k] < immediates[i][1]

OrderInv == ChannelNewest /\ PendingNewer /\ ScheduledNewer /\ CommandOrder

\* The handlers, taken one at a time, leave the last request in the row.
RowInv ==
  /\ \A r \in Requests : ~split /\ stage[r] = "published" => r = published
  /\ ~split /\ (\A r \in Requests : stage[r] # "published") => recorded = published
  /\ \A r \in Requests : fate[r] = "written" => \E k \in DOMAIN log : log[k] = r

CommandInv == TypeOK /\ RegistryInv /\ PlaceInv /\ OrderInv /\ RowInv

(***************************************************************************)
(* Queues.                                                                 *)
(***************************************************************************)
LEMMA AppendFacts ==
  ASSUME NEW S, NEW q \in Seq(S), NEW e \in S
  PROVE  /\ Append(q, e) \in Seq(S)
         /\ DOMAIN Append(q, e) = 1 .. (Len(q) + 1)
         /\ Append(q, e)[Len(q) + 1] = e
         /\ \A i \in 1 .. Len(q) : i \in DOMAIN q /\ Append(q, e)[i] = q[i]
         /\ Len(q) \in Nat
OBVIOUS

LEMMA TailFacts ==
  ASSUME NEW S, NEW q \in Seq(S), q # <<>>
  PROVE  /\ Tail(q) \in Seq(S)
         /\ DOMAIN Tail(q) = 1 .. (Len(q) - 1)
         /\ \A i \in 1 .. (Len(q) - 1) : i + 1 \in DOMAIN q /\ Tail(q)[i] = q[i + 1]
         /\ 1 \in DOMAIN q /\ Head(q) = q[1] /\ Head(q) \in S
         /\ Len(q) \in Nat \ {0}
OBVIOUS

LEMMA SeqDomain ==
  ASSUME NEW S, NEW q \in Seq(S)
  PROVE  DOMAIN q = 1 .. Len(q) /\ Len(q) \in Nat /\ \A i \in DOMAIN q : q[i] \in S
OBVIOUS

(***************************************************************************)
(* Types.                                                                  *)
(***************************************************************************)
LEMMA TypeInit == Init => TypeOK
<1> SUFFICES ASSUME Init PROVE TypeOK
  OBVIOUS
<1>1. <<>> \in Seq(Requests) /\ <<>> \in Seq(Requests \X Sockets)
  OBVIOUS
<1>2. 0 \in 0 .. NumRequests
  BY CommandAssumption
<1> QED BY <1>1, <1>2 DEF Init, TypeOK, ConnStates, Fates

LEMMA RequestNumbers == \A r \in Requests : r \in 0 .. NumRequests /\ r \in Nat \ {0}
BY CommandAssumption DEF Requests

LEMMA DispatchTypes ==
  ASSUME TypeOK, NEW r \in Requests, NEW s \in Sockets, Dispatch(r, s)
  PROVE  /\ log' \in Seq(Requests) /\ fate' \in [Requests -> Fates]
         /\ \A q \in Requests \ {r} : fate'[q] = fate[q]
         /\ fate'[r] \in {"refused", "written", "garbled", "void"}
         /\ \/ log' = log /\ fate'[r] \in {"refused", "void"}
            \/ log' = Append(log, r) /\ fate'[r] \in {"written", "garbled"}
<1> USE DEF TypeOK
<1>1. CASE ~HasAdapter
  BY <1>1 DEF Dispatch, Fates
<1>2. CASE HasAdapter /\ conn[s] = "open"
  <2>1. log' = Append(log, r)
        /\ fate' = [fate EXCEPT ![r] = IF BuildsFrame THEN "written" ELSE "garbled"]
    BY <1>2 DEF Dispatch
  <2>2. log' \in Seq(Requests)
    BY <2>1, AppendFacts
  <2> QED BY <2>1, <2>2 DEF Fates
<1>3. CASE HasAdapter /\ conn[s] # "open"
  BY <1>3 DEF Dispatch, Fates
<1> QED BY <1>1, <1>2, <1>3

LEMMA TypeStep ==
  ASSUME TypeOK, PlaceInv, [Next]_vars
  PROVE  TypeOK'
<1> USE DEF vars, apiVars, socketVars, cmdVars, histVars, TypeOK
<1>1. ASSUME Publish PROVE TypeOK'
  <2>1. published + 1 \in Requests
    BY <1>1, CommandAssumption DEF Publish, Requests
  <2>2. CASE up
    <3>1. Append(channel, published + 1) \in Seq(Requests)
      BY <2>1, AppendFacts
    <3>2. UNCHANGED fate /\ channel' \in Seq(Requests)
      BY <1>1, <2>2, <3>1 DEF Publish
    <3>3. published' \in 0 .. NumRequests
      BY <1>1, CommandAssumption DEF Publish, Requests
    <3> QED BY <1>1, <2>1, <3>2, <3>3 DEF Publish
  <2>3. CASE ~up
    <3>1. fate' \in [Requests -> Fates]
      BY <1>1, <2>1, <2>3 DEF Publish, Fates
    <3>2. pending # published + 1
      BY <2>1 DEF PlaceInv, FutureBlank
    <3> QED BY <1>1, <2>1, <2>3, <3>1, <3>2 DEF Publish, Requests
  <2> QED BY <2>2, <2>3
<1>2. ASSUME Receive PROVE TypeOK'
  <2> DEFINE r == Head(channel)
  <2>1. Tail(channel) \in Seq(Requests) /\ r \in Requests /\ 1 \in DOMAIN channel /\ r = channel[1]
    BY <1>2, TailFacts DEF Receive
  <2>2. CASE ~Live(registry) /\ Park(r) /\ UNCHANGED <<log, overtaken>>
    <3>1. fate' \in [Requests -> Fates] /\ fate'[r] = "queued" /\ pending' = r /\ aged' = FALSE
      BY <2>1, <2>2 DEF Park, Fates
    <3>2. IF pending' = 0 THEN ~aged' ELSE fate'[pending'] = "queued"
      BY <3>1
    <3>3. pending' \in 0 .. NumRequests /\ aged' \in BOOLEAN
      BY <2>1, <3>1, RequestNumbers
    <3> QED BY <1>2, <2>1, <2>2, <3>1, <3>2, <3>3 DEF Receive
  <2>3. CASE /\ Live(registry) /\ Dispatch(r, registry) /\ UNCHANGED <<pending, aged>>
             /\ overtaken' = overtaken \cup {immediates[i][1] : i \in DOMAIN immediates}
    <3>1. registry \in Sockets
      BY <2>3 DEF Live
    <3>2. log' \in Seq(Requests) /\ fate' \in [Requests -> Fates] /\ \A q \in Requests \ {r} : fate'[q] = fate[q]
      BY <2>1, <2>3, <3>1, DispatchTypes
    <3>3. pending # r
      BY <2>1 DEF PlaceInv, ChannelBlank, ScheduledFates, Requests
    <3>4. overtaken' \subseteq Requests
      BY <2>3, SeqDomain
    <3>5. pending # 0 => pending \in Requests
      BY DEF Requests
    <3> QED BY <1>2, <2>1, <2>3, <3>2, <3>3, <3>4, <3>5 DEF Receive
  <2> QED BY <1>2, <2>2, <2>3 DEF Receive
<1>3. ASSUME RunImmediate PROVE TypeOK'
  <2> DEFINE p == Head(immediates)
  <2>1. /\ Tail(immediates) \in Seq(Requests \X Sockets) /\ p \in Requests \X Sockets
        /\ 1 \in DOMAIN immediates /\ p = immediates[1]
    BY <1>3, TailFacts DEF RunImmediate
  <2>2. p[1] \in Requests /\ p[2] \in Sockets
    BY <2>1
  <2>3. log' \in Seq(Requests) /\ fate' \in [Requests -> Fates] /\ \A q \in Requests \ {p[1]} : fate'[q] = fate[q]
    BY <1>3, <2>2, DispatchTypes DEF RunImmediate
  <2>4. pending # p[1]
    BY <2>1, <2>2 DEF PlaceInv, ChannelBlank, ScheduledFates, Requests
  <2>5. pending # 0 => pending \in Requests
    BY DEF Requests
  <2> QED BY <1>3, <2>1, <2>3, <2>4, <2>5 DEF RunImmediate
<1>4. ASSUME TtlElapses PROVE TypeOK'
  BY <1>4 DEF TtlElapses
<1>5. ASSUME Stop PROVE TypeOK'
  <2>1. <<>> \in Seq(Requests) /\ <<>> \in Seq(Requests \X Sockets)
    OBVIOUS
  <2>2. fate' \in [Requests -> Fates]
    BY <1>5 DEF Stop, Fates
  <2>3. 0 \in 0 .. NumRequests
    BY CommandAssumption
  <2>4. conn' \in [Sockets -> ConnStates] /\ session' \in [Sockets -> BOOLEAN]
        /\ awaiting' \in [Sockets -> BOOLEAN] /\ restarts' \in Nat
    BY <1>5 DEF Stop, ConnStates
  <2>5. channel' \in Seq(Requests) /\ immediates' \in Seq(Requests \X Sockets)
    BY <1>5, <2>1 DEF Stop
  <2> QED BY <1>5, <2>2, <2>3, <2>4, <2>5 DEF Stop
<1>6. ASSUME Start PROVE TypeOK'
  BY <1>6 DEF Start
<1>7. ASSUME NEW r \in Requests, RecordState(r) PROVE TypeOK'
  BY <1>7 DEF RecordState, Requests
<1>8. ASSUME NEW r \in Requests, RecordFails(r) PROVE TypeOK'
  BY <1>8 DEF RecordFails
<1>9. ASSUME NEW s \in Sockets, Connect(s) PROVE TypeOK'
  BY <1>9 DEF Connect, ConnStates
<1>10. ASSUME NEW s \in Sockets, LinkLost(s) PROVE TypeOK'
  BY <1>10 DEF LinkLost, ConnStates
<1>11. ASSUME NEW s \in Sockets, IdleTimeout(s) PROVE TypeOK'
  BY <1>11 DEF IdleTimeout, ConnStates
<1>12. ASSUME NEW s \in Sockets, Close(s) PROVE TypeOK'
  BY <1>12 DEF Close, OnClose, ConnStates
<1>13. ASSUME NEW s \in Sockets, FirstPacket(s) PROVE TypeOK'
  <2>1. conn' \in [Sockets -> ConnStates]
    BY <1>13 DEF FirstPacket, RegisterDeviceSocket, Evict, ConnStates
  <2>2. pending' = 0 /\ aged' = FALSE /\ registry' \in Sockets \cup {NoSocket}
    BY <1>13 DEF FirstPacket, RegisterDeviceSocket, AfterFire
  <2>3. fate' \in [Requests -> Fates] /\ immediates' \in Seq(Requests \X Sockets)
    <3>1. CASE pending = 0
      BY <1>13, <3>1 DEF FirstPacket, RegisterDeviceSocket
    <3>2. CASE pending # 0
      <4>1. pending \in Requests
        BY <3>2 DEF Requests
      <4>2. Append(immediates, <<pending, s>>) \in Seq(Requests \X Sockets)
        BY <4>1, AppendFacts
      <4> QED BY <1>13, <3>2, <4>1, <4>2 DEF FirstPacket, RegisterDeviceSocket, Fates
    <3> QED BY <3>1, <3>2
  <2>4. 0 \in 0 .. NumRequests
    BY CommandAssumption
  <2> QED BY <1>13, <2>1, <2>2, <2>3, <2>4 DEF FirstPacket
<1>14. ASSUME NEW s \in Sockets, LaterPacket(s) PROVE TypeOK'
  BY <1>14 DEF LaterPacket
<1>15. ASSUME NEW s \in Sockets, FrameArrives(s) PROVE TypeOK'
  BY <1>15 DEF FrameArrives
<1>16. ASSUME NEW s \in Sockets, FrameContinues(s) PROVE TypeOK'
  BY <1>16 DEF FrameContinues, TakeOver
<1>17. ASSUME NEW s \in Sockets, Ec08Heartbeat(s) PROVE TypeOK'
  BY <1>17 DEF Ec08Heartbeat, TakeOver
<1>18. ASSUME NEW s \in Sockets, Ec08Location(s) PROVE TypeOK'
  BY <1>18 DEF Ec08Location
<1>19. CASE UNCHANGED vars
  BY <1>19
<1> QED
  BY <1>1, <1>2, <1>3, <1>4, <1>5, <1>6, <1>7, <1>8, <1>9, <1>10,
     <1>11, <1>12, <1>13, <1>14, <1>15, <1>16, <1>17, <1>18, <1>19
  DEF Next

(***************************************************************************)
(* The registry.                                                           *)
(***************************************************************************)
LEMMA RegistryStep ==
  ASSUME TypeOK, RegistryInv, [Next]_vars
  PROVE  RegistryInv'
<1> USE DEF vars, apiVars, socketVars, cmdVars, histVars, RegistryInv, AutoFires
<1>1. ASSUME Publish PROVE RegistryInv'
  BY <1>1 DEF Publish, PendingMeansOffline, RegistryTracksSession, Live
<1>2. ASSUME Receive PROVE RegistryInv'
  <2>1. CASE ~Live(registry) /\ Park(Head(channel)) /\ UNCHANGED <<log, overtaken>>
    BY <1>2, <2>1 DEF Receive, PendingMeansOffline, RegistryTracksSession, Live
  <2>2. CASE Live(registry) /\ UNCHANGED <<pending, aged>>
    BY <1>2, <2>2 DEF Receive, PendingMeansOffline, RegistryTracksSession, Live
  <2> QED BY <1>2, <2>1, <2>2 DEF Receive
<1>3. ASSUME RunImmediate PROVE RegistryInv'
  BY <1>3 DEF RunImmediate, PendingMeansOffline, RegistryTracksSession, Live
<1>4. ASSUME TtlElapses PROVE RegistryInv'
  BY <1>4 DEF TtlElapses, PendingMeansOffline, RegistryTracksSession, Live
<1>5. ASSUME Stop PROVE RegistryInv'
  BY <1>5, CommandAssumption DEF Stop, TypeOK, PendingMeansOffline, RegistryTracksSession, Live
<1>6. ASSUME Start PROVE RegistryInv'
  BY <1>6 DEF Start, PendingMeansOffline, RegistryTracksSession, Live
<1>7. ASSUME NEW r \in Requests, RecordState(r) PROVE RegistryInv'
  BY <1>7 DEF RecordState, PendingMeansOffline, RegistryTracksSession, Live
<1>8. ASSUME NEW r \in Requests, RecordFails(r) PROVE RegistryInv'
  BY <1>8 DEF RecordFails, PendingMeansOffline, RegistryTracksSession, Live
<1>9. ASSUME NEW s \in Sockets, Connect(s) PROVE RegistryInv'
  BY <1>9 DEF Connect, Referenced, TypeOK, PendingMeansOffline, RegistryTracksSession, Live
<1>10. ASSUME NEW s \in Sockets, LinkLost(s) PROVE RegistryInv'
  BY <1>10 DEF LinkLost, TypeOK, PendingMeansOffline, RegistryTracksSession, Live
<1>11. ASSUME NEW s \in Sockets, IdleTimeout(s) PROVE RegistryInv'
  BY <1>11 DEF IdleTimeout, TypeOK, PendingMeansOffline, RegistryTracksSession, Live
<1>12. ASSUME NEW s \in Sockets, Close(s) PROVE RegistryInv'
  <2>1. SUFFICES ASSUME AutoFires, holder = NoSocket PROVE RegistryInv'
    BY <1>12 DEF Close
  <2>2. holder' = NoSocket /\ registry' = IF s = registry THEN NoSocket ELSE registry
    BY <1>12, <2>1, CommandAssumption DEF Close, OnClose
  <2> QED BY <1>12, <2>1, <2>2 DEF Close, TypeOK, PendingMeansOffline, RegistryTracksSession, Live
<1>13. ASSUME NEW s \in Sockets, FirstPacket(s) PROVE RegistryInv'
  <2>1. pending' = 0 /\ registry' = s /\ conn' = Evict(s) /\ session' = [session EXCEPT ![s] = TRUE]
        /\ conn[s] = "open" /\ UNCHANGED <<protocol, awaiting, holder>>
    BY <1>13 DEF FirstPacket, RegisterDeviceSocket, AfterFire
  <2>2. conn'[s] = "open"
    BY <2>1 DEF Evict, TypeOK
  <2>3. ASSUME NEW q \in Sockets \ {s}, AutoFires, session'[q], Live(q)' PROVE FALSE
    <3>1. session[q] /\ Live(q) /\ registry = q
      BY <2>1, <2>3 DEF Evict, TypeOK, PendingMeansOffline, RegistryTracksSession, Live
    <3> QED BY <2>1, <2>3, <3>1 DEF Evict, TypeOK, Live
  <2>4. registry' # NoSocket
    BY <2>1, CommandAssumption
  <2> QED BY <2>1, <2>2, <2>3, <2>4 DEF PendingMeansOffline, RegistryTracksSession
<1>14. ASSUME NEW s \in Sockets, LaterPacket(s) PROVE RegistryInv'
  <2>1. AutoFires => registry = s
    BY <1>14, CommandAssumption DEF LaterPacket, PendingMeansOffline, RegistryTracksSession, Live
  <2>2. UNCHANGED <<protocol, pending, conn, session, awaiting, holder>> /\ registry' = s
    BY <1>14 DEF LaterPacket
  <2> QED BY <2>1, <2>2 DEF PendingMeansOffline, RegistryTracksSession, Live
<1>15. ASSUME NEW s \in Sockets, FrameArrives(s) PROVE RegistryInv'
  <2>1. ~AutoFires /\ UNCHANGED protocol
    BY <1>15 DEF FrameArrives, Suspends
  <2> QED BY <2>1
<1>16. ASSUME NEW s \in Sockets, FrameContinues(s) PROVE RegistryInv'
  <2>1. ~AutoFires
    BY <1>16 DEF FrameContinues
  <2> QED BY <1>16, <2>1 DEF FrameContinues
<1>17. ASSUME NEW s \in Sockets, Ec08Heartbeat(s) PROVE RegistryInv'
  BY <1>17 DEF Ec08Heartbeat, PendingMeansOffline, RegistryTracksSession, Live
<1>18. ASSUME NEW s \in Sockets, Ec08Location(s) PROVE RegistryInv'
  BY <1>18 DEF Ec08Location, PendingMeansOffline, RegistryTracksSession, Live
<1>19. CASE UNCHANGED vars
  BY <1>19 DEF PendingMeansOffline, RegistryTracksSession, Live
<1> QED
  BY <1>1, <1>2, <1>3, <1>4, <1>5, <1>6, <1>7, <1>8, <1>9, <1>10,
     <1>11, <1>12, <1>13, <1>14, <1>15, <1>16, <1>17, <1>18, <1>19
  DEF Next

(***************************************************************************)
(* The queues: one lemma per step that moves a command.                    *)
(***************************************************************************)
QueueInv == PlaceInv /\ OrderInv

\* Everything on its way has been published.
LEMMA OnlyPublished ==
  ASSUME TypeOK, PlaceInv
  PROVE  /\ \A k \in DOMAIN log : log[k] \in Requests /\ log[k] <= published
         /\ \A k \in DOMAIN immediates : immediates[k][1] \in Requests /\ immediates[k][1] <= published
         /\ pending <= published
<1> USE DEF PlaceInv, FutureBlank
<1>1. published \in Nat /\ \A r \in Requests : r \in Nat /\ (fate[r] # "none" => r <= published)
  BY RequestNumbers DEF TypeOK
<1>2. \A k \in DOMAIN log : log[k] \in Requests /\ fate[log[k]] # "none"
  BY SeqDomain DEF TypeOK, LogFates
<1>3. \A k \in DOMAIN immediates : immediates[k][1] \in Requests /\ fate[immediates[k][1]] # "none"
  <2>1. \A k \in DOMAIN immediates : immediates[k] \in Requests \X Sockets
    BY SeqDomain DEF TypeOK
  <2> QED BY <2>1 DEF ScheduledFates
<1>4. pending # 0 => pending \in Requests /\ fate[pending] # "none"
  BY DEF TypeOK, Requests
<1> QED BY <1>1, <1>2, <1>3, <1>4

LEMMA PublishQueues ==
  ASSUME TypeOK, QueueInv, Publish
  PROVE  QueueInv'
<1> DEFINE r == published + 1
<1> USE DEF QueueInv, PlaceInv, OrderInv
<1>1. r \in Requests /\ published \in Nat /\ published' = r
  BY CommandAssumption DEF Publish, TypeOK, Requests
<1>2. UNCHANGED <<pending, immediates, log, overtaken, protocol>>
  BY DEF Publish, cmdVars
<1>3. Newest(r) /\ pending < r
  BY <1>1, OnlyPublished, RequestNumbers DEF Newest, TypeOK
<1>4. FutureBlank' /\ \A q \in Requests : q <= published => fate'[q] = fate[q]
  BY <1>1, RequestNumbers DEF Publish, TypeOK, FutureBlank
<1>5. CASE up
  <2>1. channel' = Append(channel, r) /\ fate' = fate
    BY <1>5 DEF Publish
  <2> HIDE DEF r
  <2>2. /\ DOMAIN channel' = 1 .. (Len(channel) + 1) /\ Len(channel) \in Nat
        /\ channel'[Len(channel) + 1] = r
        /\ \A i \in 1 .. Len(channel) : i \in DOMAIN channel /\ channel'[i] = channel[i]
    BY <1>1, <2>1, AppendFacts DEF TypeOK
  <2>3. fate[r] = "none" /\ r > published
    BY <1>1 DEF r, FutureBlank
  <2>4. \A i \in DOMAIN channel : channel[i] < r /\ channel[i] \in Nat
    BY <1>1, <2>3, SeqDomain, RequestNumbers DEF ChannelBlank, TypeOK
  <2>5. ChannelBlank'
    BY <1>1, <2>1, <2>2, <2>3, <2>4, RequestNumbers DEF ChannelBlank
  <2>6. ChannelSorted'
    BY <2>2, <2>4 DEF ChannelSorted
  <2>7. ChannelNewest'
    BY <1>2, <1>3, <2>2 DEF ChannelNewest, Newest
  <2> QED BY <1>2, <1>4, <2>1, <2>5, <2>6, <2>7
          DEF ScheduledFates, ScheduledSorted, LogFates, WrittenOnce, PendingNewer, Newest,
              ScheduledNewer, CommandOrder, AutoFires
<1>6. CASE ~up
  <2>1. channel' = channel
    BY <1>6 DEF Publish
  <2> HIDE DEF r
  <2>2. ChannelBlank' /\ ScheduledFates' /\ LogFates'
    <3>1. \A i \in DOMAIN channel : channel[i] \in Requests
      BY SeqDomain DEF TypeOK
    <3>2. \A i \in DOMAIN channel : channel[i] <= published'
      BY <1>1, <3>1, RequestNumbers DEF ChannelBlank, r
    <3> QED BY <1>2, <1>4, <2>1, <3>1, <3>2, OnlyPublished
            DEF ChannelBlank, ScheduledFates, LogFates, AutoFires
  <2> QED BY <1>2, <1>4, <2>1, <2>2
          DEF ChannelSorted, ScheduledSorted, WrittenOnce, ChannelNewest, PendingNewer, Newest,
              ScheduledNewer, CommandOrder, AutoFires
<1> QED BY <1>5, <1>6

LEMMA ReceiveQueues ==
  ASSUME TypeOK, RegistryInv, QueueInv, Receive
  PROVE  QueueInv'
<1> DEFINE r == Head(channel)
<1> USE DEF QueueInv, PlaceInv, OrderInv
<1>1. /\ channel # <<>> /\ channel' = Tail(channel)
      /\ UNCHANGED <<published, stage, protocol, immediates>>
  BY DEF Receive, apiVars
<1>2. /\ r \in Requests /\ 1 \in DOMAIN channel /\ r = channel[1]
      /\ DOMAIN channel' = 1 .. (Len(channel) - 1) /\ Len(channel) \in Nat
      /\ \A i \in DOMAIN channel' : i + 1 \in DOMAIN channel /\ channel'[i] = channel[i + 1]
  BY <1>1, TailFacts DEF TypeOK
<1> HIDE DEF r
<1>3. fate[r] = "none" /\ r <= published /\ Newest(r) /\ pending < r
  BY <1>2 DEF ChannelBlank, ChannelNewest
<1>4. \A i \in DOMAIN channel' : /\ r < channel'[i] /\ pending < channel'[i] /\ channel'[i] \in Requests
                                 /\ Newest(channel'[i])
                                 /\ fate[channel'[i]] = "none" /\ channel'[i] <= published
  <2>1. ASSUME NEW i \in DOMAIN channel' PROVE r < channel'[i]
    BY <1>2, <2>1 DEF ChannelSorted
  <2>2. \A i \in DOMAIN channel : channel[i] \in Requests
    BY SeqDomain DEF TypeOK
  <2> QED BY <1>2, <2>1, <2>2 DEF ChannelBlank, ChannelNewest
<1>5. ChannelSorted'
  BY <1>2 DEF ChannelSorted
<1>6. ScheduledSorted'
  BY <1>1 DEF ScheduledSorted
<1>7. \A q \in Requests : q \in Nat \ {0}
  BY RequestNumbers
<1>8. CASE ~Live(registry) /\ Park(r) /\ UNCHANGED <<log, overtaken>>
  <2>1. pending' = r /\ UNCHANGED <<log, overtaken>>
    BY <1>8 DEF Park
  <2>2. \A q \in Requests : q # r /\ q # pending => fate'[q] = fate[q]
    BY <1>8 DEF Park
  <2>3. pending # 0 => fate[pending] = "queued"
    BY DEF TypeOK
  <2>4. FutureBlank'
    <3>1. pending <= published /\ published \in Nat /\ pending \in Nat
      BY OnlyPublished DEF TypeOK
    <3>2. \A q \in Requests : q > published => q # r /\ q # pending
      BY <1>2, <1>3, <1>7, <3>1
    <3> QED BY <1>1, <2>2, <3>2 DEF FutureBlank
  <2>5. ChannelBlank'
    BY <1>1, <1>4, <1>7, <2>2 DEF ChannelBlank
  <2>6. ScheduledFates'
    <3>1. \A k \in DOMAIN immediates : /\ immediates[k][1] \in Requests
                                        /\ immediates[k][1] # r /\ immediates[k][1] # pending
      BY <1>3, <1>7, <2>3, OnlyPublished DEF ScheduledFates
    <3> QED BY <1>1, <2>2, <3>1 DEF ScheduledFates, AutoFires
  <2>7. LogFates'
    <3>1. \A k \in DOMAIN log : log[k] \in Requests /\ log[k] # r /\ log[k] # pending
      BY <1>3, <1>7, <2>3, OnlyPublished DEF LogFates
    <3> QED BY <2>1, <2>2, <3>1 DEF LogFates
  <2>8. ChannelNewest' /\ PendingNewer'
    BY <1>1, <1>3, <1>4, <2>1 DEF ChannelNewest, PendingNewer, Newest
  <2> QED BY <1>1, <1>5, <1>6, <2>1, <2>4, <2>5, <2>6, <2>7, <2>8
          DEF WrittenOnce, ScheduledNewer, CommandOrder
<1>9. CASE /\ Live(registry) /\ Dispatch(r, registry) /\ UNCHANGED <<pending, aged>>
           /\ overtaken' = overtaken \cup {immediates[i][1] : i \in DOMAIN immediates}
  <2>1. registry \in Sockets
    BY <1>9 DEF Live, TypeOK
  <2>2. /\ \A q \in Requests \ {r} : fate'[q] = fate[q]
        /\ \/ log' = log /\ fate'[r] \in {"refused", "void"}
           \/ log' = Append(log, r) /\ fate'[r] \in {"written", "garbled"}
    BY <1>2, <1>9, <2>1, DispatchTypes
  <2>3. FutureBlank'
    BY <1>1, <1>3, <1>7, <2>2 DEF FutureBlank, TypeOK
  <2>4. ChannelBlank'
    BY <1>1, <1>4, <1>7, <2>2 DEF ChannelBlank
  <2>5. ScheduledFates'
    BY <1>1, <1>3, <2>2, OnlyPublished DEF ScheduledFates, AutoFires
  <2>6. ScheduledNewer'
    BY <1>1, <1>9 DEF ScheduledNewer
  <2>7. PendingNewer'
    BY <1>1, <1>9 DEF PendingNewer, RegistryInv, PendingMeansOffline, AutoFires
  <2>8. CASE log' = log
    BY <1>1, <1>3, <1>4, <1>5, <1>6, <1>9, <2>2, <2>3, <2>4, <2>5, <2>6, <2>7, <2>8, OnlyPublished
    DEF LogFates, WrittenOnce, ChannelNewest, Newest, CommandOrder
  <2>9. CASE log' = Append(log, r) /\ fate'[r] \in {"written", "garbled"}
    <3>1. /\ DOMAIN log' = 1 .. (Len(log) + 1) /\ Len(log) \in Nat /\ log'[Len(log) + 1] = r
          /\ \A i \in 1 .. Len(log) : i \in DOMAIN log /\ log'[i] = log[i]
      BY <1>2, <2>9, AppendFacts DEF TypeOK
    <3>2. \A k \in DOMAIN log : log[k] < r /\ log[k] \in Requests
      BY <1>3, OnlyPublished DEF Newest
    <3>3. \A k \in 1 .. (Len(log) + 1) : k = Len(log) + 1 \/ k \in 1 .. Len(log)
      BY <3>1
    <3>4. LogFates'
      BY <2>2, <2>9, <3>1, <3>2, <3>3 DEF LogFates
    <3>5. WrittenOnce'
      <4>1. \A k \in 1 .. Len(log) : log'[k] # r
        BY <1>2, <1>7, <3>1, <3>2
      <4> QED BY <3>1, <3>3, <4>1 DEF WrittenOnce
    <3>6. ChannelNewest'
      BY <1>1, <1>4, <1>9, <3>1, <3>3 DEF ChannelNewest, Newest
    <3>7. CommandOrder'
      BY <1>2, <1>7, <1>9, <3>1, <3>2, <3>3 DEF CommandOrder
    <3> QED BY <1>5, <1>6, <2>3, <2>4, <2>5, <2>6, <2>7, <3>4, <3>5, <3>6, <3>7
  <2> QED BY <2>2, <2>8, <2>9
<1> QED BY <1>8, <1>9 DEF Receive, r

LEMMA ImmediateQueues ==
  ASSUME TypeOK, QueueInv, RunImmediate
  PROVE  QueueInv'
<1> DEFINE r == Head(immediates)[1]
           s == Head(immediates)[2]
<1> USE DEF QueueInv, PlaceInv, OrderInv
<1>1. /\ immediates # <<>> /\ immediates' = Tail(immediates) /\ Dispatch(r, s)
      /\ UNCHANGED <<published, stage, protocol, channel, pending, overtaken>>
  BY DEF RunImmediate, apiVars
<1>2. /\ r \in Requests /\ s \in Sockets /\ 1 \in DOMAIN immediates /\ r = immediates[1][1]
      /\ DOMAIN immediates' = 1 .. (Len(immediates) - 1) /\ Len(immediates) \in Nat
      /\ \A i \in DOMAIN immediates' : i + 1 \in DOMAIN immediates /\ immediates'[i] = immediates[i + 1]
  <2>1. Head(immediates) \in Requests \X Sockets
    BY <1>1, TailFacts DEF TypeOK
  <2> QED BY <1>1, <2>1, TailFacts DEF TypeOK
<1>3. /\ \A q \in Requests \ {r} : fate'[q] = fate[q]
      /\ \/ log' = log /\ fate'[r] \in {"refused", "void"}
         \/ log' = Append(log, r) /\ fate'[r] \in {"written", "garbled"}
  BY <1>1, <1>2, DispatchTypes
<1> HIDE DEF r, s
<1>4. fate[r] = "scheduled" /\ AutoFires
  BY <1>2 DEF ScheduledFates
<1>5. \A i \in DOMAIN immediates' : r < immediates'[i][1] /\ immediates'[i][1] \in Requests
  <2>1. ASSUME NEW i \in DOMAIN immediates' PROVE r < immediates'[i][1]
    BY <1>2, <2>1 DEF ScheduledSorted
  <2> QED BY <1>2, <2>1, OnlyPublished
<1>6. \A q \in Requests : q \in Nat \ {0}
  BY RequestNumbers
<1>7. \A k \in DOMAIN log : log[k] \in Requests /\ log[k] # r
  BY <1>4, OnlyPublished DEF LogFates
<1>8. FutureBlank'
  BY <1>1, <1>3, <1>4 DEF FutureBlank
<1>9. ChannelBlank' /\ ChannelSorted'
  <2>1. \A i \in DOMAIN channel : channel[i] \in Requests
    BY SeqDomain DEF TypeOK
  <2> QED BY <1>1, <1>3, <1>4, <2>1 DEF ChannelBlank, ChannelSorted
<1>10. ScheduledFates'
  <2>1. ASSUME NEW i \in DOMAIN immediates' PROVE immediates'[i][1] # r
    BY <1>2, <1>5, <1>6
  <2> QED BY <1>1, <1>2, <1>3, <1>4, <1>5, <2>1 DEF ScheduledFates, AutoFires
<1>11. ScheduledSorted'
  <2>1. ASSUME NEW i \in DOMAIN immediates', NEW j \in DOMAIN immediates', i < j
        PROVE  immediates'[i][1] < immediates'[j][1]
    <3>1. i + 1 \in DOMAIN immediates /\ j + 1 \in DOMAIN immediates /\ i + 1 < j + 1
      BY <1>2, <2>1
    <3>2. immediates'[i] = immediates[i + 1] /\ immediates'[j] = immediates[j + 1]
      BY <1>2
    <3> QED BY <3>1, <3>2 DEF ScheduledSorted
  <2> QED BY <2>1 DEF ScheduledSorted
<1>12. CASE log' = log
  <2>1. LogFates' /\ WrittenOnce' /\ CommandOrder'
    BY <1>1, <1>3, <1>7, <1>12 DEF LogFates, WrittenOnce, CommandOrder
  <2>2. ChannelNewest' /\ PendingNewer' /\ ScheduledNewer'
    BY <1>1, <1>2, <1>12 DEF ChannelNewest, PendingNewer, ScheduledNewer, Newest, AutoFires
  <2> QED BY <1>8, <1>9, <1>10, <1>11, <2>1, <2>2
<1>13. CASE log' = Append(log, r) /\ fate'[r] \in {"written", "garbled"}
  <2>1. /\ DOMAIN log' = 1 .. (Len(log) + 1) /\ Len(log) \in Nat /\ log'[Len(log) + 1] = r
        /\ \A i \in 1 .. Len(log) : i \in DOMAIN log /\ log'[i] = log[i]
    BY <1>2, <1>13, AppendFacts DEF TypeOK
  <2>2. \A k \in 1 .. (Len(log) + 1) : k = Len(log) + 1 \/ k \in 1 .. Len(log)
    BY <2>1
  <2>3. LogFates'
    BY <1>3, <1>7, <1>13, <2>1, <2>2 DEF LogFates
  <2>4. WrittenOnce'
    BY <1>7, <2>1, <2>2 DEF WrittenOnce
  <2>5. ChannelNewest' /\ PendingNewer'
    BY <1>1, <1>2, <2>1, <2>2 DEF ChannelNewest, PendingNewer, Newest, AutoFires
  <2>6. ScheduledNewer'
    <3>1. ASSUME NEW i \in DOMAIN immediates', immediates'[i][1] \notin overtaken'
          PROVE  \A k \in DOMAIN log' : log'[k] < immediates'[i][1]
      <4>1. \A k \in DOMAIN log : log[k] < immediates'[i][1]
        BY <1>1, <1>2, <3>1 DEF ScheduledNewer
      <4> QED BY <1>5, <2>1, <2>2, <4>1
    <3> QED BY <3>1 DEF ScheduledNewer
  <2>7. CommandOrder'
    <3>1. r \in overtaken \/ \A k \in DOMAIN log : log[k] < r
      BY <1>2 DEF ScheduledNewer
    <3>2. ASSUME NEW i \in DOMAIN log', NEW j \in DOMAIN log', i < j
          PROVE  log'[i] < log'[j] \/ log'[j] \in overtaken'
      <4>1. i \in 1 .. Len(log)
        BY <2>1, <2>2, <3>2
      <4>2. CASE j = Len(log) + 1
        BY <1>1, <2>1, <3>1, <4>1, <4>2
      <4>3. CASE j \in 1 .. Len(log)
        BY <1>1, <2>1, <3>2, <4>1, <4>3 DEF CommandOrder
      <4> QED BY <2>1, <2>2, <4>2, <4>3
    <3> QED BY <3>2 DEF CommandOrder
  <2> QED BY <1>8, <1>9, <1>10, <1>11, <2>3, <2>4, <2>5, <2>6, <2>7
<1> QED BY <1>3, <1>12, <1>13

LEMMA FirstPacketQueues ==
  ASSUME TypeOK, QueueInv, NEW s \in Sockets, FirstPacket(s)
  PROVE  QueueInv'
<1> USE DEF QueueInv, PlaceInv, OrderInv
<1>1. /\ UNCHANGED <<published, stage, protocol, channel, log, overtaken>>
      /\ pending' = 0 /\ AutoFires
  BY DEF FirstPacket, RegisterDeviceSocket, AfterFire, apiVars
<1>2. \A q \in Requests : q \in Nat \ {0}
  BY RequestNumbers
<1>3. \A i \in DOMAIN channel : channel[i] \in Requests
  BY SeqDomain DEF TypeOK
<1>4. ChannelSorted' /\ WrittenOnce' /\ CommandOrder' /\ PendingNewer'
  BY <1>1 DEF ChannelSorted, WrittenOnce, CommandOrder, PendingNewer
<1>5. CASE UNCHANGED <<fate, immediates>>
  <2>1. FutureBlank' /\ ChannelBlank' /\ ScheduledFates' /\ ScheduledSorted' /\ LogFates'
    BY <1>1, <1>5 DEF FutureBlank, ChannelBlank, ScheduledFates, ScheduledSorted, LogFates, AutoFires
  <2>2. ChannelNewest' /\ ScheduledNewer'
    BY <1>1, <1>2, <1>3, <1>5 DEF ChannelNewest, Newest, ScheduledNewer
  <2> QED BY <1>4, <2>1, <2>2
<1>6. CASE /\ pending # 0
           /\ \/ fate' = [fate EXCEPT ![pending] = "expired"] /\ UNCHANGED immediates
              \/ /\ fate' = [fate EXCEPT ![pending] = "scheduled"]
                 /\ immediates' = Append(immediates, <<pending, s>>)
  <2>1. pending \in Requests /\ fate[pending] = "queued" /\ pending <= published /\ Newest(pending)
    BY <1>1, <1>6, OnlyPublished DEF TypeOK, Requests, PendingNewer
  <2>2. \A q \in Requests \ {pending} : fate'[q] = fate[q]
    BY <1>6 DEF TypeOK
  <2>3. FutureBlank' /\ ChannelBlank' /\ LogFates'
    <3>1. \A q \in Requests : q > published => q # pending
      BY <2>1 DEF FutureBlank
    <3>2. \A i \in DOMAIN log : log[i] \in Requests
      BY OnlyPublished
    <3> QED BY <1>1, <1>3, <2>1, <2>2, <3>1, <3>2 DEF FutureBlank, ChannelBlank, LogFates
  <2>4. \A i \in DOMAIN immediates : immediates[i][1] \in Requests
    BY OnlyPublished
  <2>5. CASE UNCHANGED immediates
    <3>1. ScheduledFates' /\ ScheduledSorted' /\ ScheduledNewer'
      BY <1>1, <2>1, <2>2, <2>4, <2>5 DEF ScheduledFates, ScheduledSorted, ScheduledNewer, AutoFires
    <3>2. ChannelNewest'
      BY <1>1, <1>2, <1>3, <2>5 DEF ChannelNewest, Newest
    <3> QED BY <1>4, <2>3, <3>1, <3>2
  <2>6. CASE /\ fate' = [fate EXCEPT ![pending] = "scheduled"]
             /\ immediates' = Append(immediates, <<pending, s>>)
    <3>1. /\ DOMAIN immediates' = 1 .. (Len(immediates) + 1) /\ Len(immediates) \in Nat
          /\ immediates'[Len(immediates) + 1][1] = pending
          /\ \A i \in 1 .. Len(immediates) : i \in DOMAIN immediates /\ immediates'[i] = immediates[i]
      <4>1. <<pending, s>> \in Requests \X Sockets
        BY <2>1
      <4> QED BY <2>6, <4>1, AppendFacts DEF TypeOK
    <3>2. \A k \in 1 .. (Len(immediates) + 1) : k = Len(immediates) + 1 \/ k \in 1 .. Len(immediates)
      BY <3>1
    <3>3. fate'[pending] = "scheduled"
      BY <2>1, <2>6 DEF TypeOK
    <3>4. ScheduledFates'
      BY <1>1, <2>1, <2>2, <2>4, <3>1, <3>2, <3>3 DEF ScheduledFates, AutoFires
    <3>5. ScheduledSorted'
      <4>1. ASSUME NEW i \in DOMAIN immediates', NEW j \in DOMAIN immediates', i < j
            PROVE  immediates'[i][1] < immediates'[j][1]
        <5>1. i \in 1 .. Len(immediates)
          BY <3>1, <3>2, <4>1
        <5>2. CASE j = Len(immediates) + 1
          BY <2>1, <3>1, <5>1, <5>2 DEF Newest
        <5>3. CASE j \in 1 .. Len(immediates)
          BY <3>1, <4>1, <5>1, <5>3 DEF ScheduledSorted
        <5> QED BY <3>1, <3>2, <5>2, <5>3
      <4> QED BY <4>1 DEF ScheduledSorted
    <3>6. ScheduledNewer'
      BY <1>1, <2>1, <3>1, <3>2 DEF ScheduledNewer, Newest
    <3>7. ChannelNewest'
      BY <1>1, <1>2, <1>3, <3>1, <3>2 DEF ChannelNewest, Newest
    <3> QED BY <1>4, <2>3, <3>4, <3>5, <3>6, <3>7
  <2> QED BY <1>6, <2>5, <2>6
<1> QED BY <1>5, <1>6 DEF FirstPacket, RegisterDeviceSocket

LEMMA StopQueues ==
  ASSUME TypeOK, QueueInv, Stop
  PROVE  QueueInv'
<1> USE DEF QueueInv, PlaceInv, OrderInv
<1>1. /\ channel' = <<>> /\ immediates' = <<>> /\ pending' = 0
      /\ UNCHANGED <<published, stage, protocol, log, overtaken>>
      /\ fate' = [r \in Requests |-> IF Unresolved(r) THEN "lost" ELSE fate[r]]
  BY DEF Stop, apiVars
<1>2. DOMAIN channel' = {} /\ DOMAIN immediates' = {}
  BY <1>1
<1>3. FutureBlank'
  BY <1>1, RequestNumbers DEF FutureBlank, ChannelBlank, Unresolved, TypeOK
<1>4. LogFates'
  BY <1>1, OnlyPublished DEF LogFates, ChannelBlank, Unresolved
<1> QED BY <1>1, <1>2, <1>3, <1>4
        DEF ChannelBlank, ChannelSorted, ScheduledFates, ScheduledSorted, WrittenOnce,
            ChannelNewest, PendingNewer, ScheduledNewer, CommandOrder

\* Every other step leaves the queues alone.
LEMMA QueuesAlone ==
  ASSUME QueueInv, UNCHANGED <<published, protocol, channel, pending, immediates, fate, log, overtaken>>,
         \A r \in Requests : stage[r] = "new" => stage'[r] = "new"
  PROVE  QueueInv'
BY DEF QueueInv, PlaceInv, OrderInv, FutureBlank, ChannelBlank, ChannelSorted, ScheduledFates,
       ScheduledSorted, LogFates, WrittenOnce, ChannelNewest, PendingNewer, Newest, ScheduledNewer,
       CommandOrder, AutoFires

(***************************************************************************)
(* The row.                                                                *)
(***************************************************************************)
LEMMA RowStep ==
  ASSUME TypeOK, PlaceInv, RowInv, [Next]_vars
  PROVE  RowInv'
<1> USE DEF RowInv, vars, apiVars, histVars
<1>1. ASSUME UNCHANGED <<published, stage, recorded, split, fate, log>> PROVE RowInv'
  BY <1>1
<1>2. CASE Publish
  <2>1. published + 1 \in Requests /\ published \in Nat /\ published' = published + 1
    BY <1>2, CommandAssumption DEF Publish, TypeOK, Requests
  <2>2. ASSUME ~split', NEW r \in Requests, stage'[r] = "published" PROVE r = published'
    BY <1>2, <2>1, <2>2 DEF Publish, TypeOK
  <2>3. stage'[published'] = "published"
    BY <1>2, <2>1 DEF Publish, TypeOK
  <2>4. \A r \in Requests : fate'[r] = "written" => \E k \in DOMAIN log' : log'[k] = r
    BY <1>2, <2>1 DEF Publish, TypeOK
  <2> QED BY <2>1, <2>2, <2>3, <2>4
<1>3. ASSUME NEW r \in Requests, RecordState(r) PROVE RowInv'
  BY <1>3 DEF RecordState, TypeOK
<1>4. ASSUME NEW r \in Requests, RecordFails(r) PROVE RowInv'
  BY <1>4 DEF RecordFails, TypeOK
<1>5. ASSUME NEW r \in Requests, NEW s \in Sockets, Dispatch(r, s),
             UNCHANGED <<published, stage, recorded, split>>
      PROVE  RowInv'
  <2>1. /\ \A q \in Requests \ {r} : fate'[q] = fate[q]
        /\ \/ log' = log /\ fate'[r] \in {"refused", "void"}
           \/ log' = Append(log, r) /\ fate'[r] \in {"written", "garbled"}
    BY <1>5, DispatchTypes
  <2>2. CASE log' = log /\ fate'[r] \in {"refused", "void"}
    BY <1>5, <2>1, <2>2
  <2>3. CASE log' = Append(log, r)
    <3>1. /\ Len(log) + 1 \in DOMAIN log' /\ log'[Len(log) + 1] = r
          /\ \A i \in DOMAIN log : i \in DOMAIN log' /\ log'[i] = log[i]
      BY <2>3, AppendFacts DEF TypeOK
    <3> QED BY <1>5, <2>1, <3>1
  <2> QED BY <2>1, <2>2, <2>3
<1>6. CASE Receive
  <2> DEFINE r == Head(channel)
  <2>1. r \in Requests /\ UNCHANGED <<published, stage, recorded, split>>
    BY <1>6, TailFacts DEF Receive, TypeOK
  <2>2. CASE Park(r) /\ UNCHANGED log
    <3>1. \A q \in Requests : fate'[q] = "written" => fate[q] = "written"
      BY <2>1, <2>2 DEF Park
    <3> QED BY <2>1, <2>2, <3>1
  <2>3. CASE Live(registry) /\ Dispatch(r, registry)
    <3>1. registry \in Sockets
      BY <2>3 DEF Live, TypeOK
    <3> QED BY <1>5, <2>1, <2>3, <3>1
  <2> QED BY <1>6, <2>2, <2>3 DEF Receive
<1>7. CASE RunImmediate
  <2>1. Head(immediates) \in Requests \X Sockets
    BY <1>7, TailFacts DEF RunImmediate, TypeOK
  <2>2. Head(immediates)[1] \in Requests /\ Head(immediates)[2] \in Sockets
    BY <2>1
  <2> QED BY <1>5, <1>7, <2>2 DEF RunImmediate
<1>8. CASE Stop
  <2>1. \A q \in Requests : fate'[q] = "written" => fate[q] = "written"
    BY <1>8 DEF Stop
  <2> QED BY <1>8, <2>1 DEF Stop
<1>9. ASSUME NEW s \in Sockets, FirstPacket(s) PROVE RowInv'
  <2>1. UNCHANGED <<published, stage, recorded, split, log>>
    BY <1>9 DEF FirstPacket
  <2>2. \A q \in Requests : fate'[q] = "written" => fate[q] = "written"
    BY <1>9 DEF FirstPacket, RegisterDeviceSocket, TypeOK
  <2> QED BY <2>1, <2>2
<1> QED
  BY <1>1, <1>2, <1>3, <1>4, <1>6, <1>7, <1>8, <1>9
  DEF Next, TtlElapses, Start, Connect, LinkLost, IdleTimeout, Close, LaterPacket, FrameArrives,
      FrameContinues, Ec08Heartbeat, Ec08Location

(***************************************************************************)
(* The theorems.                                                           *)
(***************************************************************************)
LEMMA CommandInitially == Init => CommandInv
<1> SUFFICES ASSUME Init PROVE CommandInv
  OBVIOUS
<1>1. TypeOK
  BY TypeInit
<1>2. RegistryInv
  BY CommandAssumption DEF Init, RegistryInv, PendingMeansOffline, RegistryTracksSession
<1>3. DOMAIN channel = {} /\ DOMAIN immediates = {} /\ DOMAIN log = {}
  BY DEF Init
<1>4. PlaceInv
  BY <1>3 DEF Init, PlaceInv, FutureBlank, ChannelBlank, ChannelSorted, ScheduledFates,
              ScheduledSorted, LogFates, WrittenOnce
<1>5. OrderInv
  BY <1>3 DEF Init, OrderInv, ChannelNewest, PendingNewer, Newest, ScheduledNewer, CommandOrder
<1>6. RowInv
  BY DEF Init, RowInv
<1> QED BY <1>1, <1>2, <1>4, <1>5, <1>6 DEF CommandInv

LEMMA CommandStep == CommandInv /\ [Next]_vars => CommandInv'
<1> SUFFICES ASSUME CommandInv, [Next]_vars PROVE CommandInv'
  OBVIOUS
<1> USE DEF CommandInv
<1>1. TypeOK' /\ RegistryInv' /\ RowInv'
  BY TypeStep, RegistryStep, RowStep
<1>2. QueueInv
  BY DEF QueueInv
<1>3. ASSUME NEW r \in Requests, RecordState(r) \/ RecordFails(r) PROVE QueueInv'
  <2>1. /\ UNCHANGED <<published, protocol, channel, pending, immediates, fate, log, overtaken>>
        /\ stage[r] = "published" /\ stage' = [stage EXCEPT ![r] = "done"]
    BY <1>3 DEF RecordState, RecordFails, cmdVars, histVars
  <2>2. \A q \in Requests : stage[q] = "new" => stage'[q] = "new"
    BY <2>1 DEF TypeOK
  <2> QED BY <1>2, <2>1, <2>2, QueuesAlone
<1>4. ASSUME UNCHANGED <<published, protocol, channel, pending, immediates, fate, log, overtaken, stage>>
      PROVE  QueueInv'
  BY <1>2, <1>4, QueuesAlone
<1>5. QueueInv'
  BY <1>2, <1>3, <1>4, PublishQueues, ReceiveQueues, ImmediateQueues, FirstPacketQueues, StopQueues
  DEF Next, vars, apiVars, cmdVars, histVars, TtlElapses, Start, Connect, LinkLost, IdleTimeout,
      Close, LaterPacket, FrameArrives, FrameContinues, Ec08Heartbeat, Ec08Location
<1> QED BY <1>1, <1>5 DEF QueueInv

\* The inductive invariant of the command path holds in every reachable state:
\* the types, what the registry says of the sockets, where each command is, the
\* order of the commands behind it and the row of the API
\* (server.js:183-209, 1463-1546, 1768-1801).
THEOREM CommandInvariant == Spec => []CommandInv
<1> QED BY CommandInitially, CommandStep, PTL DEF Spec

\* Every variable keeps its type, on every kind of port.
THEOREM CommandsTypeCorrect == Spec => []TypeOK
<1>1. CommandInv => TypeOK
  BY DEF CommandInv
<1> QED BY <1>1, CommandInvariant, PTL

\* On the ports that use registerDeviceSocket (server.js:183-209) a command stays
\* parked only while there is no usable connection.
THEOREM ParkedMeansOffline == Spec => [](AutoFires => PendingMeansOffline)
<1>1. CommandInv => (AutoFires => PendingMeansOffline)
  BY DEF CommandInv, RegistryInv
<1> QED BY <1>1, CommandInvariant, PTL

\* And there the registry is the connection the device identified itself on last,
\* whatever reconnects, zombies, timeouts and late close events (server.js:376-390).
THEOREM RegistryFollowsSession == Spec => [](AutoFires => RegistryTracksSession)
<1>1. CommandInv => (AutoFires => RegistryTracksSession)
  BY DEF CommandInv, RegistryInv
<1> QED BY <1>1, CommandInvariant, PTL

\* On no port, and over no sequence of reconnects and restarts, is a command
\* written to the device twice.
THEOREM NothingWrittenTwice == Spec => []WrittenOnce
<1>1. CommandInv => WrittenOnce
  BY DEF CommandInv, PlaceInv
<1> QED BY <1>1, CommandInvariant, PTL

\* Commands reach the device in the order they were published, but for one that
\* was overtaken between setImmediate and its callback.
THEOREM CommandsInOrder == Spec => []CommandOrder
<1>1. CommandInv => CommandOrder
  BY DEF CommandInv, OrderInv
<1> QED BY <1>1, CommandInvariant, PTL

\* The immobilizer row shows the command the device obeyed last, but for
\* overlapping or failed handlers and an overtaken command.
THEOREM RowAgreesWithDevice == Spec => []RowMatchesDevice
<1>1. CommandInv => RowMatchesDevice
  <2> SUFFICES ASSUME CommandInv, published > 0, fate[published] = "written", ~split,
                      \A r \in Requests : stage[r] # "published"
               PROVE  recorded = log[Len(log)] \/ log[Len(log)] \in overtaken
    BY DEF RowMatchesDevice
  <2> USE DEF CommandInv
  <2>1. published \in Requests /\ recorded = published
    BY DEF TypeOK, RowInv, Requests
  <2>2. PICK k \in DOMAIN log : log[k] = published
    BY <2>1 DEF RowInv
  <2>3. DOMAIN log = 1 .. Len(log) /\ Len(log) \in Nat
    BY SeqDomain DEF TypeOK
  <2>4. CASE k = Len(log)
    BY <2>1, <2>2, <2>4
  <2>5. CASE k < Len(log)
    <3>1. Len(log) \in DOMAIN log
      BY <2>2, <2>3, <2>5
    <3>2. log[Len(log)] \in Requests /\ log[Len(log)] <= published
      BY <3>1, OnlyPublished
    <3>3. log[k] < log[Len(log)] \/ log[Len(log)] \in overtaken
      BY <2>2, <2>5, <3>1 DEF OrderInv, CommandOrder
    <3> QED BY <2>1, <2>2, <3>2, <3>3, RequestNumbers
  <2> QED BY <2>2, <2>3, <2>4, <2>5
<1> QED BY <1>1, CommandInvariant, PTL

(***************************************************************************)
(* The downlink implements CommandDelivery.                                *)
(***************************************************************************)
\* Where a command waits, its standing is open.
LEMMA OpenPlaces ==
  ASSUME TypeOK, PlaceInv
  PROVE  /\ \A i \in DOMAIN channel : channel[i] \in Requests /\ Standing(channel[i]) = "open"
         /\ \A i \in DOMAIN immediates :
              immediates[i][1] \in Requests /\ Standing(immediates[i][1]) = "open"
         /\ pending # 0 => pending \in Requests /\ Standing(pending) = "open"
         /\ \A r \in Requests : Unresolved(r) => Standing(r) = "open"
<1> USE DEF PlaceInv, FutureBlank, ChannelBlank, ScheduledFates, Standing
<1>1. published \in Nat /\ \A r \in Requests : r \in Nat
  BY RequestNumbers DEF TypeOK
<1>2. \A i \in DOMAIN channel : channel[i] \in Requests
  BY SeqDomain DEF TypeOK
<1>3. \A i \in DOMAIN immediates : immediates[i][1] \in Requests
  BY SeqDomain DEF TypeOK
<1>4. pending # 0 => pending \in Requests /\ fate[pending] = "queued"
  BY CommandAssumption DEF TypeOK, Requests
<1>5. \A r \in Requests : fate[r] \in {"queued", "scheduled"} => Standing(r) = "open"
  BY <1>1
<1>6. \A i \in DOMAIN channel : Standing(channel[i]) = "open"
  BY <1>1, <1>2
<1> QED BY <1>2, <1>3, <1>4, <1>5, <1>6 DEF Unresolved

\* A step that leaves the requests' fates alone is no step of the delivery.
LEMMA DeliveryStutters ==
  ASSUME UNCHANGED <<published, fate, log, overtaken>>
  PROVE  UNCHANGED Delivery!vars
BY DEF Delivery!vars, Standings, Standing

\* Dropping requests that are open.
LEMMA Drops ==
  ASSUME NEW D, D \subseteq {r \in Requests : Standing(r) = "open"},
         UNCHANGED <<published, log, overtaken>>,
         \A r \in Requests : Standing(r)' = IF r \in D THEN "dropped" ELSE Standing(r)
  PROVE  Delivery!Drop
<1>1. D \in SUBSET Delivery!Open
  BY DEF Delivery!Open, Standings
<1>2. Standings' = [r \in Requests |-> IF r \in D THEN "dropped" ELSE Standings[r]]
  BY DEF Standings
<1> QED BY <1>1, <1>2 DEF Delivery!Drop

\* dispatchCommand writes the command whose turn it is, or drops it.
LEMMA DispatchDelivers ==
  ASSUME TypeOK, NEW r \in Requests, NEW s \in Sockets, Dispatch(r, s), Standing(r) = "open",
         published' = published,
         NEW P, P \subseteq {q \in Requests : Standing(q) = "open" /\ q < r},
         overtaken' = overtaken \cup P,
         r \in overtaken \/ \A i \in DOMAIN log : log[i] < r
  PROVE  Delivery!Next
<1>1. Delivery!Turn(r)
  <2>1. P \in SUBSET {q \in Delivery!Open : q < r} /\ Standings[r] = "open"
    BY DEF Delivery!Open, Standings
  <2> QED BY <2>1 DEF Delivery!Turn
<1>2. ~(r > published) /\ fate \in [Requests -> Fates]
  BY DEF Standing, TypeOK
<1>3. \/ log' = log /\ fate'[r] \in {"refused", "void"}
      \/ log' = Append(log, r) /\ fate'[r] \in {"written", "garbled"}
  BY DispatchTypes
<1>4. \A q \in Requests \ {r} : Standing(q)' = Standing(q)
  BY DispatchTypes DEF Standing
<1>5. CASE log' = log /\ fate'[r] \in {"refused", "void"}
  <2>1. Standing(r)' = "dropped"
    BY <1>2, <1>5 DEF Standing
  <2>2. Delivery!Becomes(r, "dropped")
    BY <1>4, <2>1 DEF Delivery!Becomes, Standings
  <2> QED BY <1>1, <1>5, <2>2 DEF Delivery!Refuse, Delivery!Next
<1>6. CASE log' = Append(log, r) /\ fate'[r] \in {"written", "garbled"}
  <2>1. Standing(r)' = "delivered"
    BY <1>2, <1>6 DEF Standing
  <2>2. Delivery!Becomes(r, "delivered")
    BY <1>4, <2>1 DEF Delivery!Becomes, Standings
  <2> QED BY <1>1, <1>6, <2>2 DEF Delivery!Deliver, Delivery!Next
<1> QED BY <1>3, <1>5, <1>6

\* The HTTP handler issues the next request.
LEMMA PublishIssues ==
  ASSUME TypeOK, PlaceInv, Publish
  PROVE  Delivery!Next
<1>0. published + 1 \in Requests /\ published \in Nat
  BY CommandAssumption DEF Publish, TypeOK, Requests
<1>r. PICK r \in Requests : r = published + 1
  BY <1>0
<1>1. published \in Nat /\ published' = r /\ \A q \in Requests : q \in Nat
  BY <1>0, <1>r, RequestNumbers DEF Publish
<1>2. fate \in [Requests -> Fates] /\ fate[r] = "none" /\ UNCHANGED <<log, overtaken>>
  BY <1>r, <1>1 DEF Publish, TypeOK, PlaceInv, FutureBlank
<1>3. \A q \in Requests \ {r} : fate'[q] = fate[q]
  BY <1>r, <1>2 DEF Publish
<1>4. fate'[r] \in {"none", "lost"}
  BY <1>r, <1>1, <1>2 DEF Publish
<1>5. Standing(r) = "new" /\ Standing(r)' \in {"open", "dropped"}
  BY <1>r, <1>1, <1>4 DEF Standing
<1>6. \A q \in Requests \ {r} : Standing(q)' = Standing(q)
  BY <1>r, <1>1, <1>3 DEF Standing
<1>7. \A q \in Requests : q < r => Standing(q) # "new"
  BY <1>r, <1>1 DEF Standing
<1>8. Delivery!Becomes(r, "open") \/ Delivery!Becomes(r, "dropped")
  BY <1>1, <1>5, <1>6 DEF Delivery!Becomes, Standings
<1>9. Delivery!Issue(r)
  BY <1>1, <1>2, <1>5, <1>7, <1>8 DEF Delivery!Issue, Standings
<1> QED BY <1>1, <1>9 DEF Delivery!Next

\* The Redis handler delivers the command, or parks it and drops the one parked
\* before it.
LEMMA ReceiveDelivers ==
  ASSUME TypeOK, PlaceInv, OrderInv, Receive
  PROVE  Delivery!Next
<1> DEFINE r == Head(channel)
<1>1. /\ channel # <<>> /\ 1 \in DOMAIN channel /\ r = channel[1] /\ r \in Requests
      /\ Standing(r) = "open"
  BY TailFacts, OpenPlaces DEF Receive, TypeOK
<1>2. published' = published /\ fate \in [Requests -> Fates] /\ published \in Nat
  BY DEF Receive, apiVars, TypeOK
<1>3. CASE ~Live(registry) /\ Park(r) /\ UNCHANGED <<log, overtaken>>
  <2> DEFINE D == IF pending = 0 THEN {} ELSE {pending}
  <2>1. pending # r /\ \A q \in Requests : q \in Nat \ {0}
    BY <1>1, RequestNumbers DEF OrderInv, ChannelNewest, TypeOK
  <2>2. D \subseteq {q \in Requests : Standing(q) = "open"}
    BY OpenPlaces
  <2>3. \A q \in Requests : Standing(q)' = IF q \in D THEN "dropped" ELSE Standing(q)
    <3> SUFFICES ASSUME NEW q \in Requests
                 PROVE  Standing(q)' = IF q \in D THEN "dropped" ELSE Standing(q)
      OBVIOUS
    <3>1. CASE q = r
      BY <1>1, <1>2, <1>3, <2>1, <3>1 DEF Park, Standing
    <3>2. CASE q # r /\ q = pending
      BY <1>2, <1>3, <2>1, <2>2, <3>2 DEF Park, Standing
    <3>3. CASE q # r /\ q # pending
      BY <1>2, <1>3, <3>3 DEF Park, Standing
    <3> QED BY <3>1, <3>2, <3>3
  <2>4. UNCHANGED <<published, log, overtaken>>
    BY <1>2, <1>3
  <2> HIDE DEF D
  <2>5. Delivery!Drop
    BY <2>2, <2>3, <2>4, Drops
  <2> QED BY <2>5 DEF Delivery!Next
<1>4. CASE Live(registry) /\ Dispatch(r, registry)
           /\ overtaken' = overtaken \cup {immediates[i][1] : i \in DOMAIN immediates}
  <2> DEFINE P == {immediates[i][1] : i \in DOMAIN immediates}
  <2>1. registry \in Sockets
    BY <1>4 DEF Live, TypeOK
  <2>2. Newest(r)
    BY <1>1 DEF OrderInv, ChannelNewest
  <2>3. P \subseteq {q \in Requests : Standing(q) = "open" /\ q < r}
    BY <2>2, OpenPlaces DEF Newest
  <2>4. \A i \in DOMAIN log : log[i] < r
    BY <2>2 DEF Newest
  <2> HIDE DEF P, r
  <2> QED BY <1>1, <1>2, <1>4, <2>1, <2>3, <2>4, DispatchDelivers DEF P
<1> QED BY <1>3, <1>4 DEF Receive

\* A setImmediate callback delivers its command.
LEMMA ImmediateDelivers ==
  ASSUME TypeOK, PlaceInv, OrderInv, RunImmediate
  PROVE  Delivery!Next
<1> DEFINE r == Head(immediates)[1]
           s == Head(immediates)[2]
<1>1. /\ 1 \in DOMAIN immediates /\ Head(immediates) = immediates[1]
      /\ Head(immediates) \in Requests \X Sockets
  BY TailFacts DEF RunImmediate, TypeOK
<1>2. r \in Requests /\ s \in Sockets /\ Standing(r) = "open"
  BY <1>1, OpenPlaces
<1>3. r \in overtaken \/ \A i \in DOMAIN log : log[i] < r
  BY <1>1 DEF OrderInv, ScheduledNewer
<1>4. Dispatch(r, s) /\ published' = published /\ overtaken' = overtaken \cup {}
  BY DEF RunImmediate, apiVars
<1> HIDE DEF r, s
<1> QED BY <1>2, <1>3, <1>4, DispatchDelivers

\* A registration drops the parked command if it is too old, and else leaves it open.
LEMMA FirstPacketDrops ==
  ASSUME TypeOK, PlaceInv, NEW s \in Sockets, FirstPacket(s)
  PROVE  Delivery!Next \/ UNCHANGED Delivery!vars
<1>1. UNCHANGED <<published, log, overtaken>> /\ fate \in [Requests -> Fates]
  BY DEF FirstPacket, apiVars, TypeOK
<1>2. pending # 0 => pending \in Requests /\ Standing(pending) = "open"
  BY OpenPlaces
<1>3. CASE pending = 0
  <2>1. fate' = fate
    BY <1>3 DEF FirstPacket, RegisterDeviceSocket
  <2> QED BY <1>1, <2>1, DeliveryStutters
<1>4. CASE pending # 0 /\ aged
  <2>1. fate' = [fate EXCEPT ![pending] = "expired"]
    BY <1>4 DEF FirstPacket, RegisterDeviceSocket
  <2>2. {pending} \subseteq {r \in Requests : Standing(r) = "open"}
    BY <1>2, <1>4
  <2>3. \A r \in Requests : Standing(r)' = IF r \in {pending} THEN "dropped" ELSE Standing(r)
    BY <1>1, <1>2, <1>4, <2>1 DEF Standing
  <2> QED BY <1>1, <2>2, <2>3, Drops DEF Delivery!Next
<1>5. CASE pending # 0 /\ ~aged
  <2>1. fate' = [fate EXCEPT ![pending] = "scheduled"]
    BY <1>5 DEF FirstPacket, RegisterDeviceSocket
  <2>2. \A r \in Requests : Standing(r)' = Standing(r)
    BY <1>1, <1>2, <1>5, <2>1 DEF Standing
  <2> QED BY <1>1, <2>2 DEF Delivery!vars, Standings
<1> QED BY <1>3, <1>4, <1>5

\* With the process go the commands it had not written.
LEMMA StopDrops ==
  ASSUME TypeOK, PlaceInv, Stop
  PROVE  Delivery!Next
<1>1. /\ UNCHANGED <<published, log, overtaken>>
      /\ fate' = [r \in Requests |-> IF Unresolved(r) THEN "lost" ELSE fate[r]]
  BY DEF Stop, apiVars
<1> DEFINE D == {r \in Requests : Unresolved(r)}
<1>2. D \subseteq {r \in Requests : Standing(r) = "open"}
  BY OpenPlaces
<1>3. \A r \in Requests : Standing(r)' = IF r \in D THEN "dropped" ELSE Standing(r)
  BY <1>1, <1>2 DEF Standing
<1> HIDE DEF D
<1> QED BY <1>1, <1>2, <1>3, Drops DEF Delivery!Next

\* The downlink implements CommandDelivery on every kind of port, for any number of
\* requests, connections, restarts and failed UPDATEs (server.js:183-209, 376-390).
THEOREM DownlinkImplementsDelivery == Spec => Implements
<1>1. Init => Delivery!Init
  BY CommandAssumption DEF Init, Delivery!Init, Standings, Standing, Requests
<1>2. CommandInv /\ [Next]_vars => [Delivery!Next]_(Delivery!vars)
  <2> SUFFICES ASSUME CommandInv, [Next]_vars
               PROVE  Delivery!Next \/ UNCHANGED Delivery!vars
    OBVIOUS
  <2> USE DEF CommandInv
  <2>1. \/ Publish \/ Receive \/ RunImmediate \/ Stop
        \/ \E s \in Sockets : FirstPacket(s)
        \/ UNCHANGED <<published, fate, log, overtaken>>
    BY DEF Next, TtlElapses, Start, RecordState, RecordFails, Connect, LinkLost, IdleTimeout, Close,
       LaterPacket, FrameArrives, FrameContinues, Ec08Heartbeat, Ec08Location, vars, apiVars, histVars
  <2> QED BY <2>1, PublishIssues, ReceiveDelivers, ImmediateDelivers, FirstPacketDrops, StopDrops,
          DeliveryStutters
<1> QED BY <1>1, <1>2, CommandInvariant, PTL DEF Spec, Implements, Delivery!Spec
=============================================================================
