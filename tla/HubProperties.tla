--------------------------- MODULE HubProperties ---------------------------
(***************************************************************************)
(* What the WebSocket layer owes its rooms and its connections.            *)
(***************************************************************************)
EXTENDS Hub

InRoom(c) == \E o \in Clients : c \in members[o]

\* A room the registry names has a goroutine to answer the hub, which would
\* otherwise block on Room.Join or Room.close for ever and take every room
\* with it; and an empty room has somebody on the way to tell the hub, or it
\* would stay registered for ever (hub.go run, room.go removeAndNotify).
RegisteredRoomsAnswer ==
  /\ hub.op # "waiting"
  /\ hub.op # "shutdown" =>
       \A m \in Rooms : registry[m] # None =>
         /\ registry[m] \in running
         /\ members[registry[m]] = {} => empties[m] > 0
  /\ \A o \in running : registry[RoomOf[o]] = o

\* Closing a channel twice panics.  Eviction, Leave, shutdown and the reaping
\* of the room all want to end a client; its channel is closed exactly when
\* it stops being a member, by whichever comes first (room.go
\* removeAndNotify, shutdownCmd).
ChannelClosedOnce ==
  \A c \in Clients :
    /\ Len(closed[c]) <= 1
    /\ at[c] \notin {"new", "joining"} => (closed[c] = << >> <=> InRoom(c))

\* A connection's own handler and ReadPump finish every reply before they
\* ask the room to let the client go: a Send meets a closed channel only
\* when the room evicted the client or the process is shutting down
\* (client.go Send, ReadPump; handler.go onClose).
RepliesPrecedeLeave ==
  \A c \in Clients :
    at[c] \in {"crashed", "abandoned"} => closed[c] = <<"cut">>

\* The registry, two kinds of broadcast, evictions and reaping together are
\* one audience per room: no announcement splits it, skips one of it or
\* reaches a connection that was removed (hub.go, room.go).
Rostered(m) == UNION {members[o] : o \in {x \in running : RoomOf[x] = m}}

Roster == INSTANCE Audience WITH
  audience <- [m \in Rooms |-> Rostered(m)],
  departed <- {c \in Clients : closed[c] # << >>},
  heard <- heard

ImplementsAudience == Roster!Spec

\* Whatever the hub and the rooms are doing, a connection that is over is
\* taken out of its room and its ReadPump ends, so that the grace period of
\* its session begins; nothing waits for a goroutine that has returned
\* (handler.go onClose, Room.Leave, Room.Broadcast).
Handled(c) == at[c] \in {"gone", "abandoned"} /\ ~InRoom(c)

DisconnectHandled == []<>(Crashed \/ \A c \in ended : Handled(c))
=============================================================================
