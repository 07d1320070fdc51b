-------------------------------- MODULE Hub --------------------------------
(***************************************************************************)
(* The WebSocket layer: the hub goroutine, one goroutine per room, and for *)
(* each connection its HTTP handler, ReadPump and WritePump.               *)
(*                                                                         *)
(* Every command channel is unbuffered, so a command is one step in which  *)
(* sender and receiver meet.  A room carries out a command without waiting *)
(* for anyone.  The hub sends a room commands of its own while it serves   *)
(* one: where it and its caller wait for the room's answer that is still   *)
(* one step, unless the room's goroutine has returned and the hub waits    *)
(* for ever; a broadcast, whose caller does not wait, takes two.  A room   *)
(* goroutine is named by the client whose Join created it.                 *)
(*                                                                         *)
(* A send buffer is the number of payloads in it; what they say is the     *)
(* business of the services.  The peer may vanish at any moment.           *)
(***************************************************************************)
EXTENDS Naturals, Sequences, FiniteSets

CONSTANTS None,
          Clients,      \* connections: each a handler, two pumps, a buffer
          Rooms,        \* room identifiers
          RoomOf,       \* the room each connection's token is scoped to
          BufferSize,   \* ClientConfig.SendBuffer
          Talkers,      \* bound: connections whose peer sends messages
          MaxInputs     \* bound: inbound messages and timers' broadcasts

ASSUME HubAssumption ==
  /\ None \notin Clients \cup Rooms
  /\ RoomOf \in [Clients -> Rooms]
  /\ BufferSize \in Nat \ {0}
  /\ Talkers \subseteq Clients
  /\ MaxInputs \in Nat

VARIABLES
  registry,  \* Hub.run's map: the room goroutine of a room, or None
  hub,       \* the command the hub goroutine is carrying out
  empties,   \* empties[m]: notifyEmpty goroutines waiting to tell the hub
  stopped,   \* Hub.Shutdown has been called
  running,   \* room goroutines that have not returned (done is open)
  members,   \* members[o]: the clients map of room goroutine o
  at,        \* where a connection's handler or ReadPump is
  room,      \* the *Room that Hub.Join returned to it
  queued,    \* payloads in its send buffer
  closed,    \* why its send channel was closed, once per close
  heard,     \* broadcasts put into a member's buffer, modulo 2
  ended,     \* connections that are closed, by either side
  inputs     \* messages and timers' broadcasts so far

hubVars == <<registry, hub, empties, stopped>>
roomVars == <<running, members, closed, heard>>
pumps == <<at, room, ended>>
vars == <<hubVars, roomVars, queued, pumps, inputs>>

Idle == [op |-> "idle", room |-> None]
Command(op, o) == [op |-> op, room |-> o]

Init ==
  /\ registry = [m \in Rooms |-> None]
  /\ hub = Idle
  /\ empties = [m \in Rooms |-> 0]
  /\ stopped = FALSE
  /\ running = {}
  /\ members = [o \in Clients |-> {}]
  /\ at = [c \in Clients |-> "new"]
  /\ room = [c \in Clients |-> None]
  /\ queued = [c \in Clients |-> 0]
  /\ closed = [c \in Clients |-> << >>]
  /\ heard = [c \in Clients |-> 0]
  /\ ended = {}
  /\ inputs = 0

\* A panic in a pump ends the process; net/http recovers one in a handler.
Crashed == \E c \in Clients : at[c] = "crashed"

-----------------------------------------------------------------------------
(* Rooms *)

\* The clients leave the map and their channels are closed; what is still in
\* a closed channel concerns nobody but its WritePump.
Remove(o, gone, why) ==
  /\ members' = [members EXCEPT ![o] = @ \ gone]
  /\ closed' = [c \in Clients |->
                 IF c \in gone THEN Append(closed[c], why) ELSE closed[c]]

Without(f, gone) == [c \in Clients |-> IF c \in gone THEN 0 ELSE f[c]]

Notify(o, gone) ==
  empties' = [empties EXCEPT ![RoomOf[o]] =
               IF gone # {} /\ members[o] = gone THEN @ + 1 ELSE @]

\* Mutant: only Leave starts the notification, an eviction does not.
DeliverQuietly(o) ==
  LET full == {c \in members[o] : queued[c] >= BufferSize}
      Given(f) == [c \in Clients |-> IF c \in members[o] THEN f[c] + 1 ELSE f[c]]
  IN /\ queued' = Without(Given(queued), full)
     /\ heard' = Without([c \in Clients |-> Given(heard)[c] % 2], full)
     /\ Remove(o, full, "cut")
     /\ UNCHANGED empties

\* broadcastCmd: a full buffer gets its client evicted, not skipped.
Deliver(o) ==
  LET full == {c \in members[o] : queued[c] >= BufferSize}
      Given(f) == [c \in Clients |-> IF c \in members[o] THEN f[c] + 1 ELSE f[c]]
  IN /\ queued' = Without(Given(queued), full)
     /\ heard' = Without([c \in Clients |-> Given(heard)[c] % 2], full)
     /\ Remove(o, full, "cut")
     /\ Notify(o, full)

\* Room.Broadcast gives up on a room whose goroutine has returned.
RoomBroadcast(o) ==
  IF o \in running THEN Deliver(o)
  ELSE UNCHANGED <<queued, heard, members, closed, empties>>

\* Mutant: the channel is closed without looking for its client in the map.
RoomLeaveUnchecked(o, c) ==
  IF o \in running
  THEN /\ Remove(o, {c}, "left")
       /\ Notify(o, {c})
       /\ queued' = Without(queued, {c})
       /\ heard' = Without(heard, {c})
  ELSE UNCHANGED <<queued, heard, members, closed, empties>>

\* Room.Leave gives up in the same way, and removeAndNotify leaves a client
\* alone that is no member.
RoomLeave(o, c) ==
  IF o \in running /\ c \in members[o]
  THEN /\ Remove(o, {c}, "left")
       /\ Notify(o, {c})
       /\ queued' = Without(queued, {c})
       /\ heard' = Without(heard, {c})
  ELSE UNCHANGED <<queued, heard, members, closed, empties>>

-----------------------------------------------------------------------------
(* The hub *)

HubIdle == ~Crashed /\ hub = Idle

\* The hub waits for room goroutine o to answer a command.
HubAsks(o) == hub' = IF o \in running' THEN Idle ELSE Command("waiting", o)

\* Hub.Join: the handshake is done and the hub gets or creates the room.
HubJoins(c) ==
  LET m == RoomOf[c]
      o == IF registry[m] = None THEN c ELSE registry[m]
  IN /\ HubIdle
     /\ at[c] = "new"
     /\ registry' = [registry EXCEPT ![m] = o]
     /\ running' = IF registry[m] = None THEN running \cup {c} ELSE running
     /\ HubAsks(o)
     /\ IF o \in running'
        THEN /\ members' = [members EXCEPT ![o] = @ \cup {c}]
             /\ room' = [room EXCEPT ![c] = o]
             /\ at' = [at EXCEPT ![c] = "greeting"]
        ELSE at' = [at EXCEPT ![c] = "joining"] /\ UNCHANGED <<members, room>>
     /\ UNCHANGED <<empties, stopped, closed, heard, queued, ended, inputs>>

\* Hub.Broadcast: a missing room is a silent no-op.
HubTakesBroadcast(m) ==
  /\ HubIdle
  /\ hub' = IF registry[m] = None THEN Idle ELSE Command("broadcast", registry[m])
  /\ UNCHANGED <<registry, stopped>>

\* Hub.Broadcast by a round's timer.
NewsComes(m) ==
  /\ inputs < MaxInputs
  /\ inputs' = inputs + 1
  /\ HubTakesBroadcast(m)
  /\ UNCHANGED <<empties, roomVars, queued, pumps>>

RoomBroadcasts ==
  /\ ~Crashed
  /\ hub.op = "broadcast"
  /\ RoomBroadcast(hub.room)
  /\ hub' = Idle
  /\ UNCHANGED <<registry, stopped, running, pumps, inputs>>

\* Mutant: the registry forgets a room that refused to close.
HubReapsRegardless(m) ==
  LET o == registry[m] IN
  /\ HubIdle
  /\ empties[m] > 0
  /\ empties' = [empties EXCEPT ![m] = @ - 1]
  /\ registry' = [registry EXCEPT ![m] = None]
  /\ running' = IF o # None /\ members[o] = {} THEN running \ {o} ELSE running
  /\ UNCHANGED <<hub, stopped, members, closed, heard, queued, pumps, inputs>>

\* notifyEmpty reaches the hub, which asks the room to close; a room that
\* somebody joined since refuses.
HubReaps(m) ==
  LET o == registry[m] IN
  /\ HubIdle
  /\ empties[m] > 0
  /\ empties' = [empties EXCEPT ![m] = @ - 1]
  /\ IF o # None /\ o \in running /\ members[o] = {}
     THEN /\ running' = running \ {o}
          /\ registry' = [registry EXCEPT ![m] = None]
          /\ UNCHANGED hub
     ELSE /\ UNCHANGED <<running, registry>>
          /\ IF o = None THEN UNCHANGED hub ELSE HubAsks(o)
  /\ UNCHANGED <<stopped, members, closed, heard, queued, pumps, inputs>>

HubShutsDown ==
  /\ HubIdle
  /\ ~stopped
  /\ stopped' = TRUE
  /\ hub' = Command("shutdown", None)
  /\ UNCHANGED <<registry, empties, roomVars, queued, pumps, inputs>>

\* Room.shutdown closes every member's channel and ends the room.
RoomShutsDown(o) ==
  /\ ~Crashed
  /\ hub.op = "shutdown"
  /\ \E m \in Rooms : registry[m] = o
  /\ o \in running
  /\ running' = running \ {o}
  /\ Remove(o, members[o], "cut")
  /\ queued' = Without(queued, members[o])
  /\ heard' = Without(heard, members[o])
  /\ UNCHANGED <<hubVars, pumps, inputs>>

HubEndsShutdown ==
  /\ ~Crashed
  /\ hub.op = "shutdown"
  /\ \A m \in Rooms : registry[m] \notin running
  /\ registry' = [m \in Rooms |-> None]
  /\ hub' = Idle
  /\ UNCHANGED <<empties, stopped, roomVars, queued, pumps, inputs>>

-----------------------------------------------------------------------------
(* A connection: first its handler, then its ReadPump *)

Runs(c, p) == ~Crashed /\ at[c] = p
Goes(c, p) == at' = [at EXCEPT ![c] = p]

\* Client.Send, n times over, drops what does not fit and panics on a closed
\* channel.
Send(c, n, next, panic) ==
  IF closed[c] # << >>
  THEN Goes(c, panic) /\ UNCHANGED queued
  ELSE /\ Goes(c, next)
       /\ queued' = [queued EXCEPT ![c] =
                      IF @ + n > BufferSize THEN BufferSize ELSE @ + n]

\* The connected event, and one player_joined for each other member: to the
\* rest of the system one step, for nobody drains the buffer yet.
Greets(c) ==
  /\ Runs(c, "greeting")
  /\ Send(c, 1 + Cardinality(members[room[c]] \ {c}), "announcing", "abandoned")
  /\ UNCHANGED <<hubVars, roomVars, room, ended, inputs>>

\* The room hears of the newcomer, and the pumps start.
Announces(c) ==
  /\ Runs(c, "announcing")
  /\ RoomBroadcast(room[c])
  /\ Goes(c, "reading")
  /\ UNCHANGED <<registry, hub, stopped, running, room, ended, inputs>>

\* Whatever a message asks for, it ends in a reply, a broadcast, or both.
Reads(c) ==
  /\ Runs(c, "reading")
  /\ c \notin ended
  /\ c \in Talkers /\ inputs < MaxInputs
  /\ inputs' = inputs + 1
  /\ \E p \in {"replying", "naming", "broadcasting"} : Goes(c, p)
  /\ UNCHANGED <<hubVars, roomVars, queued, room, ended>>

\* Hub.Names, before a settlement is announced.
AsksNames(c) ==
  LET o == registry[RoomOf[c]] IN
  /\ Runs(c, "naming")
  /\ HubIdle
  /\ Goes(c, "broadcasting")
  /\ IF o = None THEN UNCHANGED hub ELSE UNCHANGED running /\ HubAsks(o)
  /\ UNCHANGED <<registry, empties, stopped, roomVars, queued, room, ended, inputs>>

\* Hub.Broadcast returns once the hub has taken the command.
Broadcasts(c) ==
  /\ Runs(c, "broadcasting")
  /\ HubTakesBroadcast(RoomOf[c])
  /\ \E p \in {"replying", "reading"} : Goes(c, p)
  /\ UNCHANGED <<empties, roomVars, queued, room, ended, inputs>>

\* wager_accepted, or an error.
Replies(c) ==
  /\ Runs(c, "replying")
  /\ Send(c, 1, "reading", "crashed")
  /\ UNCHANGED <<hubVars, roomVars, room, ended, inputs>>

ReadFails(c) ==
  /\ Runs(c, "reading")
  /\ c \in ended
  /\ Goes(c, "leaving")
  /\ UNCHANGED <<hubVars, roomVars, queued, room, ended, inputs>>

\* Mutant: Leave without its case for a room that has returned.
LeavesUnguarded(c) ==
  /\ Runs(c, "leaving")
  /\ room[c] \in running
  /\ RoomLeave(room[c], c)
  /\ Goes(c, "parting")
  /\ UNCHANGED <<registry, hub, stopped, running, room, ended, inputs>>

Leaves(c) ==
  /\ Runs(c, "leaving")
  /\ RoomLeave(room[c], c)
  /\ Goes(c, "parting")
  /\ UNCHANGED <<registry, hub, stopped, running, room, ended, inputs>>

\* Mutant: onClose says goodbye to a client that has left.
PartsWithGoodbye(c) ==
  /\ Runs(c, "parting")
  /\ Send(c, 1, "gone", "crashed")
  /\ room' = [room EXCEPT ![c] = None]
  /\ UNCHANGED <<hubVars, roomVars, ended, inputs>>

\* player_left, and the session's grace period begins.
Parts(c) ==
  /\ Runs(c, "parting")
  /\ RoomBroadcast(room[c])
  /\ Goes(c, "gone")
  /\ room' = [room EXCEPT ![c] = None]
  /\ UNCHANGED <<registry, hub, stopped, running, ended, inputs>>

-----------------------------------------------------------------------------
(* WritePump and the network *)

\* The pumps run from the end of the handler to the end of the connection.
Pumping(c) ==
  /\ ~Crashed
  /\ at[c] \notin {"new", "joining", "greeting", "announcing", "abandoned"}
  /\ c \notin ended

Writes(c) ==
  /\ Pumping(c)
  /\ queued[c] > 0
  /\ queued' = [queued EXCEPT ![c] = @ - 1]
  /\ UNCHANGED <<hubVars, roomVars, pumps, inputs>>

\* The channel is closed: WritePump writes what is left in it and hangs up.
WriterHangsUp(c) ==
  /\ Pumping(c)
  /\ closed[c] # << >>
  /\ ended' = ended \cup {c}
  /\ UNCHANGED <<hubVars, roomVars, queued, at, room, inputs>>

\* The peer hangs up, misses its pongs, or stops reading for WriteWait, and
\* ReadMessage fails the next time it is called.
PeerDrops(c) ==
  /\ Runs(c, "reading")
  /\ c \notin ended
  /\ ended' = ended \cup {c}
  /\ UNCHANGED <<hubVars, roomVars, queued, at, room, inputs>>

-----------------------------------------------------------------------------
HubStep ==
  \/ RoomBroadcasts \/ HubEndsShutdown
  \/ \E o \in Clients : RoomShutsDown(o)

HandlerStep(c) ==
  Greets(c) \/ Announces(c)

ReadPump(c) ==
  AsksNames(c) \/ Broadcasts(c) \/ Replies(c) \/ ReadFails(c) \/ Leaves(c) \/ Parts(c)

WritePump(c) == Writes(c) \/ WriterHangsUp(c)

\* Nothing is left to do: every connection is over, or the process is.
Over ==
  \/ Crashed
  \/ /\ HubIdle /\ stopped
     /\ \A c \in Clients : at[c] \in {"gone", "abandoned"}
     /\ \A m \in Rooms : empties[m] = 0

Next ==
  \/ HubStep \/ HubShutsDown
  \/ \E m \in Rooms : NewsComes(m) \/ HubReaps(m)
  \/ \E c \in Clients :
       HubJoins(c) \/ HandlerStep(c) \/ Reads(c) \/ ReadPump(c) \/ WritePump(c)
         \/ PeerDrops(c)
  \/ Over /\ UNCHANGED vars

\* The goroutines never all stop while one of them can run.  That is enough,
\* and assumes nothing of the hub's select: what they do between two inputs is
\* finite, so each gets its turn.  New connections, messages, timers, the
\* shutdown and the peer's failures owe nobody anything.
Fairness ==
  WF_vars(\/ HubStep
          \/ \E m \in Rooms : HubReaps(m)
          \/ \E c \in Clients : HandlerStep(c) \/ ReadPump(c) \/ WritePump(c))

Spec == Init /\ [][Next]_vars

FairSpec == Spec /\ Fairness
=============================================================================
