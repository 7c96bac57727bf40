--------------------------- MODULE DeviceCommands ---------------------------
(***************************************************************************)
(* The immobilizer downlink of one device: the HTTP handler that publishes *)
(* IMMOBILIZE/MOBILIZE on the Redis channel device_commands and records it *)
(* (backend vehicleController.toggleImmobilizer), and the TCP server that  *)
(* writes it to the device's socket or parks it until the device comes     *)
(* back (tcp-server/server.js).                                            *)
(*                                                                         *)
(* Requests are numbered in the order they are published.  One event-loop  *)
(* callback of the TCP server is one step.  The values of protocol stand   *)
(* for the ways a port serves its device: AIS140 for the delimiter ports,  *)
(* which use registerDeviceSocket; CONCOX and PT06, which publish a raw    *)
(* log first and then set the registry directly; EC08, which sets it       *)
(* directly.  They also differ in what dispatchCommand makes of a command. *)
(***************************************************************************)
EXTENDS Integers, Sequences, FiniteSets

CONSTANTS
  Protocols,    \* the ports the device may be of
  Sockets,      \* bound: connections of the device the server still knows of
  NoSocket,
  NumRequests,  \* bound: HTTP requests in a behaviour
  MaxRestarts,  \* bound: restarts of the TCP server
  MaxDbErrors   \* bound: failed UPDATEs in the HTTP handler

ASSUME CommandAssumption ==
  /\ Protocols \subseteq {"AIS140", "CONCOX", "PT06", "EC08"}
  /\ NoSocket \notin Sockets
  /\ NumRequests \in Nat /\ MaxRestarts \in Nat /\ MaxDbErrors \in Nat

Requests == 1..NumRequests

VARIABLES
  protocol,  \* the port the device reports to, fixed
  published, \* requests whose PUBLISH was executed
  stage,     \* of each request: the handler's progress
  recorded,  \* request whose action vehicle_latest_state shows, 0 for none
  channel,   \* messages on their way to the TCP server
  up,        \* the TCP server is running and subscribed
  restarts,
  dbErrors,
  conn,      \* each connection as the server's socket and the device see it
  session,   \* sessionImei is set in the connection's closure
  awaiting,  \* a frame of the connection is suspended in publishRawMessage
  registry,  \* connectedDevices.get(imei).socket
  holder,    \* connection whose clientId the entry has, on the binary ports
  pending,   \* pendingCommands.get(imei), 0 for none
  aged,      \* the pending command is older than PENDING_CMD_TTL_MS
  immediates, \* setImmediate callbacks: <<request, socket>>
  log,       \* history: requests written to a live connection, in order
  fate,      \* history: what became of each request
  overtaken, \* history: requests passed by a newer one while in immediates
  split      \* history: two handlers overlapped, or one failed half-way

apiVars    == <<published, stage, recorded, dbErrors, split>>
socketVars == <<conn, session, awaiting>>
cmdVars    == <<pending, aged, immediates>>
histVars   == <<log, fate, overtaken>>
vars == <<protocol, apiVars, channel, up, restarts, socketVars, registry, holder,
          cmdVars, histVars>>

\* "half": the device is gone and the server does not know; "destroyed":
\* socket.destroyed holds and the close event has not run yet.
ConnStates == {"open", "half", "destroyed", "closed"}
Fates == {"none", "lost", "queued", "superseded", "expired", "scheduled",
          "written", "void", "refused", "garbled"}

Init ==
  /\ protocol \in Protocols
  /\ published = 0 /\ recorded = 0 /\ dbErrors = 0 /\ split = FALSE
  /\ stage = [r \in Requests |-> "new"]
  /\ channel = <<>> /\ up = TRUE /\ restarts = 0
  /\ conn = [s \in Sockets |-> "closed"]
  /\ session = [s \in Sockets |-> FALSE]
  /\ awaiting = [s \in Sockets |-> FALSE]
  /\ registry = NoSocket /\ holder = NoSocket
  /\ pending = 0 /\ aged = FALSE /\ immediates = <<>>
  /\ log = <<>> /\ overtaken = {}
  /\ fate = [r \in Requests |-> "none"]

\* socket is not destroyed, as far as the server can tell
Live(s) == s # NoSocket /\ conn[s] \in {"open", "half"}

DeviceOnline == \E s \in Sockets : conn[s] = "open"

\* commandAdapters has an entry, and a sentinel entry has a branch that builds
\* the binary frame; without one the sentinel itself goes out
HasAdapter  == protocol # "EC08"
BuildsFrame == protocol # "PT06"

\* the port calls registerDeviceSocket; the port awaits before it registers
AutoFires == protocol = "AIS140"
Suspends  == protocol \in {"CONCOX", "PT06"}

(***************************************************************************)
(* The HTTP handler: publish, then update the row.                         *)
(***************************************************************************)
Publish ==
  LET r == published + 1 IN
  /\ published < NumRequests
  /\ published' = r
  /\ stage' = [stage EXCEPT ![r] = "published"]
  /\ split' = (split \/ \E q \in Requests : stage[q] = "published")
  /\ IF up THEN channel' = Append(channel, r) /\ UNCHANGED fate
           ELSE fate' = [fate EXCEPT ![r] = "lost"] /\ UNCHANGED channel
  /\ UNCHANGED <<recorded, dbErrors, up, protocol, restarts, socketVars, registry, holder,
                 cmdVars, log, overtaken>>

FaultyRecordState(r) ==
  /\ stage[r] = "published"
  /\ stage' = [stage EXCEPT ![r] = "done"]
  /\ recorded' = r - 1
  /\ UNCHANGED <<published, dbErrors, split, channel, up, protocol, restarts, socketVars,
                 registry, holder, cmdVars, histVars>>

RecordState(r) ==
  /\ stage[r] = "published"
  /\ stage' = [stage EXCEPT ![r] = "done"]
  /\ recorded' = r
  /\ UNCHANGED <<published, dbErrors, split, channel, up, protocol, restarts, socketVars,
                 registry, holder, cmdVars, histVars>>

\* The UPDATE throws: the caller gets an error although the command is out.
RecordFails(r) ==
  /\ stage[r] = "published" /\ dbErrors < MaxDbErrors
  /\ stage' = [stage EXCEPT ![r] = "done"]
  /\ dbErrors' = dbErrors + 1 /\ split' = TRUE
  /\ UNCHANGED <<published, recorded, channel, up, protocol, restarts, socketVars,
                 registry, holder, cmdVars, histVars>>

(***************************************************************************)
(* dispatchCommand up to its first await.                                  *)
(***************************************************************************)
Dispatch(r, s) ==
  IF ~HasAdapter
    THEN fate' = [fate EXCEPT ![r] = "refused"] /\ UNCHANGED log
  ELSE IF conn[s] = "open"
    THEN /\ fate' = [fate EXCEPT ![r] = IF BuildsFrame THEN "written" ELSE "garbled"]
         /\ log' = Append(log, r)
    ELSE fate' = [fate EXCEPT ![r] = "void"] /\ UNCHANGED log

\* pendingCommands.set: the previous entry is overwritten.
Park(r) ==
  /\ pending' = r /\ aged' = FALSE
  /\ fate' = [q \in Requests |-> IF q = r THEN "queued"
                                 ELSE IF q = pending THEN "superseded" ELSE fate[q]]

\* The Redis message handler.
Receive ==
  /\ up /\ channel # <<>>
  /\ channel' = Tail(channel)
  /\ LET r == Head(channel) IN
     \/ /\ ~Live(registry)
        /\ Park(r)
        /\ UNCHANGED <<log, overtaken>>
     \/ /\ Live(registry)
        /\ Dispatch(r, registry)
        /\ overtaken' = overtaken \cup {immediates[i][1] : i \in DOMAIN immediates}
        /\ UNCHANGED <<pending, aged>>
  /\ UNCHANGED <<apiVars, up, protocol, restarts, socketVars, registry, holder, immediates>>

\* The check phase of the event loop runs the oldest setImmediate callback.
RunImmediate ==
  /\ up /\ immediates # <<>>
  /\ immediates' = Tail(immediates)
  /\ Dispatch(Head(immediates)[1], Head(immediates)[2])
  /\ UNCHANGED <<apiVars, channel, up, protocol, restarts, socketVars, registry, holder,
                 pending, aged, overtaken>>

TtlElapses ==
  /\ pending # 0 /\ ~aged
  /\ aged' = TRUE
  /\ UNCHANGED <<apiVars, channel, up, protocol, restarts, socketVars, registry, holder, pending,
                 immediates, histVars>>

(***************************************************************************)
(* Registration.                                                           *)
(***************************************************************************)
\* Destroying the socket the registry held for this device before.
Evict(s) == IF registry # NoSocket /\ registry # s /\ Live(registry)
              THEN [conn EXCEPT ![registry] = "destroyed"] ELSE conn

\* The pending command after a registration: deleted, fired or not.
FaultyAfterFire == pending
AfterFire == 0

RegisterDeviceSocket(s) ==
  /\ conn' = Evict(s)
  /\ registry' = s
  /\ pending' = AfterFire
  /\ aged' = IF AfterFire = 0 THEN FALSE ELSE aged
  /\ IF pending = 0 THEN UNCHANGED <<fate, immediates>>
     ELSE IF aged
       THEN fate' = [fate EXCEPT ![pending] = "expired"] /\ UNCHANGED immediates
       ELSE /\ fate' = [fate EXCEPT ![pending] = "scheduled"]
            /\ immediates' = Append(immediates, <<pending, s>>)

\* First packet of a connection that carries the IMEI.
FirstPacket(s) ==
  /\ up /\ AutoFires /\ conn[s] = "open" /\ ~session[s]
  /\ session' = [session EXCEPT ![s] = TRUE]
  /\ RegisterDeviceSocket(s)
  /\ UNCHANGED <<apiVars, channel, up, protocol, restarts, holder, awaiting, log, overtaken>>

\* Later packets set the entry again without looking at pendingCommands.
LaterPacket(s) ==
  /\ up /\ AutoFires /\ conn[s] = "open" /\ session[s]
  /\ registry' = s
  /\ UNCHANGED <<apiVars, channel, up, protocol, restarts, holder, socketVars, cmdVars, histVars>>

\* A binary frame: the raw log is published first, the registry is set when
\* that await returns, whatever has happened to the connection meanwhile.  A login
\* or a heartbeat makes a new entry; a location or an alarm replaces the socket of
\* the one that is there, which keeps the clientId of another connection.
FrameArrives(s) ==
  /\ up /\ Suspends /\ conn[s] = "open" /\ ~awaiting[s]
  /\ awaiting' = [awaiting EXCEPT ![s] = TRUE]
  /\ UNCHANGED <<apiVars, channel, up, protocol, restarts, conn, session, registry, holder,
                 cmdVars, histVars>>

FaultyTakeOver(s) == IF registry = NoSocket THEN s ELSE registry
TakeOver(s) == s

FrameContinues(s) ==
  /\ up /\ awaiting[s]
  /\ awaiting' = [awaiting EXCEPT ![s] = FALSE]
  /\ session' = [session EXCEPT ![s] = TRUE]
  /\ registry' = TakeOver(s)
  /\ holder' \in IF session[s] THEN {s, holder} ELSE {s}
  /\ UNCHANGED <<apiVars, channel, up, protocol, restarts, conn, cmdVars, histVars>>

\* EC08: login and heartbeat set the entry, a location only if there is none.
Ec08Heartbeat(s) ==
  /\ up /\ protocol = "EC08" /\ conn[s] = "open"
  /\ session' = [session EXCEPT ![s] = TRUE]
  /\ registry' = TakeOver(s)
  /\ UNCHANGED <<apiVars, channel, up, protocol, restarts, holder, conn, awaiting,
                 cmdVars, histVars>>

Ec08Location(s) ==
  /\ up /\ protocol = "EC08" /\ conn[s] = "open" /\ session[s]
  /\ registry' = IF registry = NoSocket THEN s ELSE registry
  /\ UNCHANGED session
  /\ UNCHANGED <<apiVars, channel, up, protocol, restarts, holder, conn, awaiting,
                 cmdVars, histVars>>

(***************************************************************************)
(* Connections.                                                            *)
(***************************************************************************)
\* The server still refers to a closed connection.
Referenced(s) == \/ s \in {registry, holder} \/ awaiting[s]
                 \/ \E i \in DOMAIN immediates : immediates[i][2] = s

Connect(s) ==
  /\ up /\ conn[s] = "closed" /\ ~Referenced(s) /\ ~DeviceOnline
  /\ conn' = [conn EXCEPT ![s] = "open"]
  /\ session' = [session EXCEPT ![s] = FALSE]
  /\ UNCHANGED <<apiVars, channel, up, protocol, restarts, awaiting, registry, holder,
                 cmdVars, histVars>>

\* The device vanishes without a FIN; or it hangs up.
LinkLost(s) ==
  /\ conn[s] = "open"
  /\ \E c \in {"half", "destroyed"} : conn' = [conn EXCEPT ![s] = c]
  /\ UNCHANGED <<apiVars, channel, up, protocol, restarts, session, awaiting, registry, holder,
                 cmdVars, histVars>>

\* Five minutes without data.
IdleTimeout(s) ==
  /\ up /\ conn[s] \in {"open", "half"}
  /\ conn' = [conn EXCEPT ![s] = "destroyed"]
  /\ UNCHANGED <<apiVars, channel, up, protocol, restarts, session, awaiting, registry, holder,
                 cmdVars, histVars>>

\* The close handler deletes the entry only if it is still this connection's, by its
\* socket or by its clientId.
FaultyOnClose(s) == NoSocket
OnClose(s) == IF s \in {registry, holder} THEN NoSocket ELSE registry

Close(s) ==
  /\ up /\ conn[s] = "destroyed"
  /\ conn' = [conn EXCEPT ![s] = "closed"]
  /\ registry' = OnClose(s)
  /\ holder' = IF s \in {registry, holder} THEN NoSocket ELSE holder
  /\ UNCHANGED <<apiVars, channel, up, protocol, restarts, session, awaiting, cmdVars, histVars>>

(***************************************************************************)
(* The TCP process stops: everything it holds is in memory, and messages   *)
(* published meanwhile have no subscriber.                                 *)
(***************************************************************************)
Unresolved(r) == fate[r] \in {"queued", "scheduled"} \/ \E i \in DOMAIN channel : channel[i] = r

Stop ==
  /\ up /\ restarts < MaxRestarts
  /\ up' = FALSE /\ restarts' = restarts + 1
  /\ conn' = [s \in Sockets |-> "closed"]
  /\ session' = [s \in Sockets |-> FALSE]
  /\ awaiting' = [s \in Sockets |-> FALSE]
  /\ registry' = NoSocket /\ holder' = NoSocket
  /\ channel' = <<>> /\ pending' = 0 /\ aged' = FALSE /\ immediates' = <<>>
  /\ fate' = [r \in Requests |-> IF Unresolved(r) THEN "lost" ELSE fate[r]]
  /\ UNCHANGED <<protocol, apiVars, log, overtaken>>

Start ==
  /\ ~up /\ up' = TRUE
  /\ UNCHANGED <<protocol, apiVars, channel, restarts, socketVars, registry, holder,
                 cmdVars, histVars>>

Next ==
  \/ Publish \/ Receive \/ RunImmediate \/ TtlElapses \/ Stop \/ Start
  \/ \E r \in Requests : RecordState(r) \/ RecordFails(r)
  \/ \E s \in Sockets : \/ Connect(s) \/ LinkLost(s) \/ IdleTimeout(s) \/ Close(s)
                        \/ FirstPacket(s) \/ LaterPacket(s)
                        \/ FrameArrives(s) \/ FrameContinues(s)
                        \/ Ec08Heartbeat(s) \/ Ec08Location(s)

Spec == Init /\ [][Next]_vars

(***************************************************************************)
(* A connected device keeps reporting and awaited publishes return; links, *)
(* timeouts, operators and restarts owe nothing.                           *)
(***************************************************************************)
Fairness == \A s \in Sockets : /\ WF_vars(FirstPacket(s) \/ LaterPacket(s))
                               /\ WF_vars(FrameArrives(s) \/ FrameContinues(s))
                               /\ WF_vars(Ec08Heartbeat(s))

FairSpec == Spec /\ Fairness

(***************************************************************************)
(* Properties.                                                             *)
(***************************************************************************)
\* Every variable has its type; what is parked is a queued command, which only
\* then grows old.
TypeOK ==
  /\ protocol \in Protocols
  /\ published \in 0..NumRequests /\ recorded \in 0..NumRequests
  /\ dbErrors \in Nat /\ split \in BOOLEAN
  /\ stage \in [Requests -> {"new", "published", "done"}]
  /\ channel \in Seq(Requests) /\ up \in BOOLEAN /\ restarts \in Nat
  /\ conn \in [Sockets -> ConnStates]
  /\ session \in [Sockets -> BOOLEAN] /\ awaiting \in [Sockets -> BOOLEAN]
  /\ {registry, holder} \subseteq Sockets \cup {NoSocket}
  /\ pending \in 0..NumRequests /\ aged \in BOOLEAN
  /\ IF pending = 0 THEN ~aged ELSE fate[pending] = "queued"
  /\ immediates \in Seq(Requests \X Sockets)
  /\ log \in Seq(Requests) /\ overtaken \subseteq Requests
  /\ fate \in [Requests -> Fates]

\* A command is parked only while the server has no usable socket for the
\* device: as soon as one is registered the command has been fired or dropped.
PendingMeansOffline == pending # 0 => ~Live(registry)

\* Every connection that identified itself and is still usable is the one the
\* registry would dispatch to, and the registry keeps none whose close event has
\* run: a reconnect leaves no usable zombie behind, and a late close of the old
\* connection does not unregister the new one.
RegistryTracksSession ==
  /\ \A s \in Sockets : session[s] /\ Live(s) => registry = s
  /\ registry # NoSocket => conn[registry] # "closed"

\* No command reaches the device twice, over any sequence of reconnects.
WrittenOnce ==
  \A i, j \in DOMAIN log : i # j => log[i] # log[j]

\* Commands reach the device in the order they were published, so that the last
\* one wins, except for one overtaken between setImmediate and its callback.
CommandOrder ==
  \A i, j \in DOMAIN log : i < j => log[i] < log[j] \/ log[j] \in overtaken

\* The dashboard's row and the device agree: once no handler is half-way and the
\* last command published was written to the device, the row shows the command
\* the device obeyed last -- unless two handlers overlapped, one failed between
\* its two effects, or that command overtook another in setImmediate.
RowMatchesDevice ==
  /\ published > 0 /\ fate[published] = "written"
  /\ ~split /\ (\A r \in Requests : stage[r] # "published")
  => recorded = log[Len(log)] \/ log[Len(log)] \in overtaken

\* The downlink implements CommandDelivery: over any reconnects, restarts and
\* interleavings of setImmediate with the Redis handler no command is delivered
\* twice, after it was dropped, or behind a newer one that did not pass it there.
\* A frame that PT06 garbles counts as delivered: the device was sent it.
Standing(r) == IF r > published THEN "new"
               ELSE IF fate[r] \in {"written", "garbled"} THEN "delivered"
               ELSE IF fate[r] \in {"none", "queued", "scheduled"} THEN "open"
               ELSE "dropped"

Standings == [r \in Requests |-> Standing(r)]

Delivery == INSTANCE CommandDelivery
              WITH standing <- Standings, received <- log, late <- overtaken

Implements == Delivery!Spec

\* A device that stays connected ends up as the registered connection for good,
\* whatever zombies and suspended frames of its older connections are still
\* around: a stale registration is never the last word.
RegistryConverges ==
  \A s \in Sockets : <>[](conn[s] = "open" /\ up) => <>[](registry = s)
=============================================================================
