----------------------------- MODULE HubProofs -----------------------------
(***************************************************************************)
(* Theorems about Hub, for any number of connections, rooms and messages   *)
(* and any size of the send buffers.                                       *)
(*                                                                         *)
(* The inductive invariant says who is in a room: the registry names the   *)
(* one running goroutine of a room, only a running goroutine has members,  *)
(* and a connection is a member from its join until its channel is closed, *)
(* all the while at a step between the handler's greeting and Leave.       *)
(***************************************************************************)
EXTENDS HubProperties, TLAPS

\* Where a connection is while nobody has yet asked its room to let it go.
Staying ==
  {"greeting", "announcing", "reading", "naming", "broadcasting", "replying", "leaving"}

\* Where it is afterwards, and where a Send on a closed channel puts it.
Leaving == {"parting", "gone"}

Panicked == {"crashed", "abandoned"}

\* Why a channel was closed: by the room, or by the connection's own Leave.
Cut == <<"cut">>
Left == <<"left">>

\* The hub never waits for a room, and no channel is closed twice.
TypeOK ==
  /\ registry \in [Rooms -> Clients \cup {None}]
  /\ hub \in [op : {"idle", "broadcast", "shutdown"}, room : Clients \cup {None}]
  /\ empties \in [Rooms -> Nat]
  /\ running \subseteq Clients
  /\ members \in [Clients -> SUBSET Clients]
  /\ at \in [Clients -> {"new"} \cup Staying \cup Leaving \cup Panicked]
  /\ room \in [Clients -> Clients \cup {None}]
  /\ closed \in [Clients -> {<< >>, Cut, Left}]
  /\ heard \in [Clients -> {0, 1}]

\* The registry names the running goroutine of each room, and somebody is on
\* the way to reap an empty one.
RegistryOK ==
  /\ \A m \in Rooms : registry[m] # None => RoomOf[registry[m]] = m
  /\ hub.op # "shutdown" =>
       \A m \in Rooms : registry[m] # None =>
         /\ registry[m] \in running
         /\ members[registry[m]] = {} => empties[m] > 0
  /\ \A o \in running : registry[RoomOf[o]] = o

\* A member of a room is open, still talking, and knows its room goroutine.
MembersOK ==
  \A o \in Clients : \A c \in members[o] :
    /\ o \in running
    /\ room[c] = o
    /\ RoomOf[c] = RoomOf[o]
    /\ closed[c] = << >>
    /\ at[c] \in Staying

\* An open connection is a member; a closed one left or was cut, and only one
\* that was cut can have panicked.
ChannelsOK ==
  \A c \in Clients :
    /\ at[c] = "new" => closed[c] = << >>
    /\ at[c] # "new" /\ closed[c] = << >> => room[c] \in Clients /\ c \in members[room[c]]
    /\ closed[c] = Left => at[c] \in Leaving
    /\ at[c] \in Panicked => closed[c] = Cut

\* The four support each other.
HubInv == TypeOK /\ RegistryOK /\ MembersOK /\ ChannelsOK

USE HubAssumption

\* With no room and no connection begun, there is nothing to keep.
LEMMA HubInit == Init => HubInv
<1>. SUFFICES ASSUME Init  PROVE HubInv
  OBVIOUS
<1>1. TypeOK
  BY DEF Init, TypeOK, Idle
<1>2. RegistryOK /\ MembersOK
  BY DEF Init, RegistryOK, MembersOK
<1>3. ChannelsOK
  BY DEF Init, ChannelsOK, Left, Panicked
<1>. QED
  BY <1>1, <1>2, <1>3 DEF HubInv

-----------------------------------------------------------------------------
(***************************************************************************)
(* What every step but a join does to the rooms: goroutine o takes gone    *)
(* out of its map and closes their channels; if it becomes empty, somebody *)
(* is sent to the hub; and the connections move on among the places where  *)
(* the invariant wants them.                                               *)
(***************************************************************************)
Sheds(o, gone, why) ==
  /\ why \in {"cut", "left"}
  /\ gone \subseteq Clients
  /\ \A c \in gone : o \in running /\ c \in members[o]
  /\ members' = [x \in Clients |-> IF x = o THEN members[x] \ gone ELSE members[x]]
  /\ closed' = [c \in Clients |-> IF c \in gone THEN <<why>> ELSE closed[c]]

Reports(o, gone) ==
  /\ empties' \in [Rooms -> Nat]
  /\ \A m \in Rooms : empties'[m] >= empties[m]
  /\ gone # {} /\ members[o] = gone => empties'[RoomOf[o]] > 0

Moves(gone, why) ==
  /\ at' \in [Clients -> {"new"} \cup Staying \cup Leaving \cup Panicked]
  /\ room' \in [Clients -> Clients \cup {None}]
  /\ \A c \in Clients :
       /\ at'[c] = "new" <=> at[c] = "new"
       /\ at[c] \in Staying /\ closed[c] = << >> /\ c \notin gone =>
            at'[c] \in Staying /\ room'[c] = room[c]
       /\ at[c] \in Leaving => at'[c] \in Leaving
       /\ at'[c] \in Panicked => closed[c] = Cut
       /\ c \in gone /\ why = "left" => at'[c] \in Leaving

\* Whoever is removed loses membership and channel together.
LEMMA RemovalKeepsMembers ==
  ASSUME HubInv, NEW o, NEW gone, NEW why, Sheds(o, gone, why), Moves(gone, why),
         \A x \in running : members'[x] # {} => x \in running'
  PROVE  MembersOK' /\ ChannelsOK'
<1>1. ASSUME NEW x \in Clients, NEW c \in members'[x]
      PROVE  /\ x \in running'
             /\ room'[c] = x
             /\ RoomOf[c] = RoomOf[x]
             /\ closed'[c] = << >>
             /\ at'[c] \in Staying
  <2>1. c \in members[x] /\ c \in Clients
    BY <1>1 DEF Sheds, HubInv, TypeOK
  <2>2. /\ x \in running
        /\ room[c] = x
        /\ RoomOf[c] = RoomOf[x]
        /\ closed[c] = << >>
        /\ at[c] \in Staying
    BY <2>1 DEF HubInv, MembersOK
  <2>3. c \notin gone
    <3>1. SUFFICES ASSUME c \in gone  PROVE FALSE
      OBVIOUS
    <3>2. o \in Clients /\ c \in members[o]
      BY <3>1 DEF Sheds, HubInv, TypeOK
    <3>3. room[c] = o
      BY <3>2 DEF HubInv, MembersOK
    <3>. QED
      BY <1>1, <2>2, <3>1, <3>3 DEF Sheds
  <2>. QED
    BY <1>1, <2>1, <2>2, <2>3 DEF Sheds, Moves
<1>2. MembersOK'
  BY <1>1 DEF MembersOK
<1>3. ASSUME NEW c \in Clients
      PROVE  /\ at'[c] = "new" => closed'[c] = << >>
             /\ at'[c] # "new" /\ closed'[c] = << >> =>
                  room'[c] \in Clients /\ c \in members'[room'[c]]
             /\ closed'[c] = Left => at'[c] \in Leaving
             /\ at'[c] \in Panicked => closed'[c] = Cut
  <2>1. CASE c \in gone
    <3>1. o \in Clients /\ c \in members[o] /\ closed'[c] = <<why>>
      BY <2>1 DEF Sheds, HubInv, TypeOK
    <3>2. closed[c] = << >> /\ at[c] \in Staying
      BY <3>1 DEF HubInv, MembersOK
    <3>3. at[c] # "new"
      BY <3>2 DEF Staying
    <3>. QED
      BY <2>1, <3>1, <3>2, <3>3 DEF Sheds, Moves, Cut, Left
  <2>2. CASE c \notin gone
    <3>1. closed'[c] = closed[c]
      BY <2>2 DEF Sheds
    <3>2. CASE closed[c] = << >> /\ at[c] # "new"
      <4>1. room[c] \in Clients /\ c \in members[room[c]]
        BY <3>2 DEF HubInv, ChannelsOK
      <4>2. at[c] \in Staying
        BY <4>1 DEF HubInv, MembersOK
      <4>3. at'[c] \in Staying /\ room'[c] = room[c]
        BY <2>2, <3>2, <4>2 DEF Moves
      <4>4. c \in members'[room[c]]
        BY <2>2, <4>1 DEF Sheds
      <4>. QED
        BY <3>1, <3>2, <4>1, <4>3, <4>4 DEF Moves, Cut, Left
    <3>3. CASE closed[c] = << >> /\ at[c] = "new"
      BY <3>1, <3>3 DEF Moves, Cut, Left
    <3>4. CASE closed[c] # << >>
      <4>1. at[c] # "new" /\ (closed[c] = Left => at[c] \in Leaving)
        BY <3>4 DEF HubInv, ChannelsOK
      <4>. QED
        BY <3>1, <3>4, <4>1 DEF Moves
    <3>. QED
      BY <3>2, <3>3, <3>4
  <2>. QED
    BY <2>1, <2>2
<1>4. ChannelsOK'
  BY <1>3 DEF ChannelsOK
<1>. QED
  BY <1>2, <1>4

\* A room that becomes empty is reported, so it can still be reaped.
LEMMA RemovalKeepsRegistry ==
  ASSUME HubInv, NEW o, NEW gone, NEW why, Sheds(o, gone, why), Reports(o, gone),
         UNCHANGED <<registry, running>>,
         hub'.op # "shutdown" => hub.op # "shutdown"
  PROVE  RegistryOK'
<1>1. ASSUME NEW m \in Rooms, registry[m] # None, hub'.op # "shutdown",
             members'[registry[m]] = {}
      PROVE  empties'[m] > 0
  <2>1. registry[m] \in running /\ RoomOf[registry[m]] = m /\ registry[m] \in Clients
    BY <1>1 DEF HubInv, RegistryOK, TypeOK
  <2>2. CASE members[registry[m]] = {}
    <3>1. empties[m] > 0
      BY <1>1, <2>2 DEF HubInv, RegistryOK
    <3>2. empties[m] \in Nat /\ empties'[m] \in Nat /\ empties'[m] >= empties[m]
      BY DEF HubInv, TypeOK, Reports
    <3>. QED
      BY <3>1, <3>2
  <2>3. CASE members[registry[m]] # {}
    <3>1. registry[m] = o
      BY <1>1, <2>1, <2>3 DEF Sheds
    <3>2. members[o] \ gone = {} /\ gone \subseteq members[o]
      BY <1>1, <2>1, <3>1 DEF Sheds
    <3>. QED
      BY <2>1, <2>3, <3>1, <3>2 DEF Reports
  <2>. QED
    BY <2>2, <2>3
<1>. QED
  BY <1>1 DEF HubInv, RegistryOK

\* Nothing is removed when maps and channels stay as they are.
LEMMA NothingRemoved ==
  ASSUME HubInv, UNCHANGED <<members, closed>>
  PROVE  Sheds(None, {}, "cut")
BY DEF HubInv, TypeOK, Sheds

\* Nothing is reported when nobody is removed.
LEMMA NothingReported ==
  ASSUME HubInv, UNCHANGED empties
  PROVE  Reports(None, {})
BY DEF HubInv, TypeOK, Reports

\* A step that removes, reports and moves like this keeps the invariant.
LEMMA ShedKeepsInv ==
  ASSUME HubInv, NEW o, NEW gone, NEW why,
         Sheds(o, gone, why), Reports(o, gone), Moves(gone, why),
         UNCHANGED <<registry, running>>,
         hub' \in [op : {"idle", "broadcast", "shutdown"}, room : Clients \cup {None}],
         hub'.op # "shutdown" => hub.op # "shutdown",
         heard' \in [Clients -> {0, 1}]
  PROVE  HubInv'
<1>1. TypeOK'
  BY DEF HubInv, TypeOK, Sheds, Reports, Moves, Cut, Left
<1>2. RegistryOK'
  BY RemovalKeepsRegistry
<1>3. \A x \in running : members'[x] # {} => x \in running'
  OBVIOUS
<1>4. MembersOK' /\ ChannelsOK'
  BY <1>3, RemovalKeepsMembers
<1>. QED
  BY <1>1, <1>2, <1>4 DEF HubInv

-----------------------------------------------------------------------------
(* The room operations are such removals *)

\* An open channel has been closed once after it is closed.
LEMMA ClosesOnce ==
  ASSUME NEW why  PROVE Append(<< >>, why) = <<why>>
OBVIOUS

\* Removing members of a running room is such a removal.
LEMMA RemoveSheds ==
  ASSUME HubInv, NEW o \in running, NEW gone \in SUBSET members[o],
         NEW why \in {"cut", "left"}, Remove(o, gone, why)
  PROVE  Sheds(o, gone, why)
<1>1. o \in Clients /\ members[o] \subseteq Clients
  BY DEF HubInv, TypeOK
<1>2. \A c \in gone : closed[c] = << >>
  BY <1>1 DEF HubInv, MembersOK
<1>3. \A c \in gone : Append(closed[c], why) = <<why>>
  BY <1>2, ClosesOnce
<1>4. members' = [x \in Clients |-> IF x = o THEN members[x] \ gone ELSE members[x]]
  BY <1>1 DEF Remove, HubInv, TypeOK
<1>. QED
  BY <1>1, <1>3, <1>4 DEF Remove, Sheds

\* removeAndNotify tells the hub of a room that it has just emptied.
LEMMA NotifyReports ==
  ASSUME HubInv, NEW o \in running, NEW gone, Notify(o, gone)
  PROVE  Reports(o, gone)
<1>1. RoomOf[o] \in Rooms
  BY DEF HubInv, TypeOK
<1>. QED
  BY <1>1 DEF Notify, Reports, HubInv, TypeOK

\* Those a broadcast takes out.
Full(o) == IF o \in running THEN {c \in members[o] : queued[c] >= BufferSize} ELSE {}

\* A broadcast takes those whose buffer is full out of the room.
LEMMA BroadcastSheds ==
  ASSUME HubInv, NEW o, RoomBroadcast(o)
  PROVE  /\ Sheds(o, Full(o), "cut")
         /\ Reports(o, Full(o))
         /\ heard' \in [Clients -> {0, 1}]
         /\ o \in running =>
              heard' = [c \in Clients |->
                         IF c \in Full(o) THEN 0
                         ELSE (IF c \in members[o] THEN heard[c] + 1 ELSE heard[c]) % 2]
<1>1. CASE o \in running
  <2>1. /\ Remove(o, Full(o), "cut")
        /\ Notify(o, Full(o))
    BY <1>1 DEF RoomBroadcast, Deliver, Full
  <2>2. Full(o) \in SUBSET members[o]
    BY <1>1 DEF Full
  <2>3. heard' = [c \in Clients |->
                    IF c \in Full(o) THEN 0
                    ELSE (IF c \in members[o] THEN heard[c] + 1 ELSE heard[c]) % 2]
    BY <1>1 DEF RoomBroadcast, Deliver, Without, Full
  <2>4. \A c \in Clients : heard[c] = 0 \/ heard[c] = 1
    BY DEF HubInv, TypeOK
  <2>5. (0 + 1) % 2 = 1 /\ (1 + 1) % 2 = 0 /\ 0 % 2 = 0 /\ 1 % 2 = 1
    OBVIOUS
  <2>6. \A c \in Clients : heard'[c] \in {0, 1}
    BY <2>3, <2>4, <2>5
  <2>7. heard' \in [Clients -> {0, 1}]
    BY <2>3, <2>6
  <2>. QED
    BY <1>1, <2>1, <2>2, <2>3, <2>7, RemoveSheds, NotifyReports
<1>2. CASE o \notin running
  <2>1. Full(o) = {} /\ UNCHANGED <<heard, members, closed, empties>>
    BY <1>2 DEF Full, RoomBroadcast
  <2>. QED
    BY <1>2, <2>1 DEF Sheds, Reports, HubInv, TypeOK
<1>. QED
  BY <1>1, <1>2

\* Those Leave takes out: the caller or nobody.
Quits(o, c) == IF o \in running /\ c \in members[o] THEN {c} ELSE {}

\* Leave takes its caller out, if it is still a member.
LEMMA LeaveSheds ==
  ASSUME HubInv, NEW o, NEW c \in Clients, RoomLeave(o, c)
  PROVE  /\ Sheds(o, Quits(o, c), "left")
         /\ Reports(o, Quits(o, c))
         /\ heard' \in [Clients -> {0, 1}]
<1>1. CASE o \in running /\ c \in members[o]
  <2>1. Remove(o, {c}, "left") /\ Notify(o, {c}) /\ Quits(o, c) = {c}
    BY <1>1 DEF RoomLeave, Quits
  <2>2. heard' \in [Clients -> {0, 1}]
    BY <1>1 DEF RoomLeave, Without, HubInv, TypeOK
  <2>. QED
    BY <1>1, <2>1, <2>2, RemoveSheds, NotifyReports
<1>2. CASE ~(o \in running /\ c \in members[o])
  <2>1. Quits(o, c) = {} /\ UNCHANGED <<heard, members, closed, empties>>
    BY <1>2 DEF Quits, RoomLeave
  <2>. QED
    BY <2>1 DEF Sheds, Reports, HubInv, TypeOK
<1>. QED
  BY <1>1, <1>2

-----------------------------------------------------------------------------
(* The connections only move where they may *)

\* A step that moves no connection moves them only where they may.
LEMMA StayingPut ==
  ASSUME HubInv, NEW gone, UNCHANGED <<at, room>>
  PROVE  Moves(gone, "cut")
BY DEF HubInv, TypeOK, ChannelsOK, Moves

\* A connection that has not asked to leave may take any step short of it.
LEMMA GoingOn ==
  ASSUME HubInv, NEW gone, NEW c \in Clients, at[c] \in Staying,
         NEW p \in Staying, Goes(c, p), UNCHANGED room
  PROVE  Moves(gone, "cut")
BY DEF HubInv, TypeOK, ChannelsOK, Moves, Goes, Staying, Leaving, Panicked

\* A connection that is still talking meets a closed channel only when the
\* room cut it off.
LEMMA Sending ==
  ASSUME HubInv, NEW c \in Clients, at[c] \in Staying, NEW n,
         NEW next \in Staying, NEW panic \in Panicked, Send(c, n, next, panic),
         UNCHANGED room
  PROVE  Moves({}, "cut")
<1>1. CASE closed[c] = << >>
  BY <1>1, GoingOn DEF Send
<1>2. CASE closed[c] # << >>
  <2>1. closed[c] \in {<< >>, Cut, Left} /\ (closed[c] = Left => at[c] \in Leaving)
    BY DEF HubInv, TypeOK, ChannelsOK
  <2>2. at[c] \notin Leaving /\ at[c] # "new"
    BY DEF Staying, Leaving
  <2>3. closed[c] = Cut
    BY <1>2, <2>1, <2>2
  <2>4. Goes(c, panic)
    BY <1>2 DEF Send
  <2>. QED
    BY <1>2, <2>2, <2>3, <2>4
    DEF HubInv, TypeOK, ChannelsOK, Moves, Goes, Staying, Leaving, Panicked
<1>. QED
  BY <1>1, <1>2

-----------------------------------------------------------------------------
(* The steps of the hub *)

\* An idle hub asks only rooms that answer, so it is never left waiting.
LEMMA IdleHub ==
  ASSUME HubInv, HubIdle, NEW m \in Rooms, registry[m] # None
  PROVE  /\ registry[m] \in Clients
         /\ registry[m] \in running
         /\ RoomOf[registry[m]] = m
         /\ members[registry[m]] = {} => empties[m] > 0
<1>1. hub.op # "shutdown"
  BY DEF HubIdle, Idle
<1>. QED
  BY <1>1 DEF HubInv, TypeOK, RegistryOK

\* Taking a broadcast leaves an idle hub idle, or about to reach the room.
LEMMA HubTakesBroadcastOK ==
  ASSUME HubInv, NEW m \in Rooms, HubTakesBroadcast(m)
  PROVE  /\ UNCHANGED registry
         /\ hub' \in [op : {"idle", "broadcast", "shutdown"}, room : Clients \cup {None}]
         /\ hub'.op # "shutdown"
         /\ hub.op = "idle"
BY DEF HubInv, TypeOK, HubTakesBroadcast, HubIdle, Idle, Command

\* A timer's broadcast changes no room.
LEMMA NewsComesInv ==
  ASSUME HubInv, NEW m \in Rooms, NewsComes(m)
  PROVE  HubInv'
<1>1. HubTakesBroadcast(m) /\ UNCHANGED <<empties, running, members, closed, heard, at, room>>
  BY DEF NewsComes, roomVars, pumps
<1>2. heard' \in [Clients -> {0, 1}]
  BY <1>1 DEF HubInv, TypeOK
<1>. QED
  BY <1>1, <1>2, HubTakesBroadcastOK, NothingRemoved, NothingReported, StayingPut,
     ShedKeepsInv

\* The hub is idle again once the room has broadcast.
LEMMA RoomBroadcastsInv ==
  ASSUME HubInv, RoomBroadcasts
  PROVE  HubInv'
<1>1. /\ RoomBroadcast(hub.room)
      /\ hub' = Idle
      /\ UNCHANGED <<registry, running, at, room>>
  BY DEF RoomBroadcasts, pumps
<1>2. /\ hub' \in [op : {"idle", "broadcast", "shutdown"}, room : Clients \cup {None}]
      /\ hub.op # "shutdown"
  BY <1>1 DEF RoomBroadcasts, Idle
<1>. QED
  BY <1>1, <1>2, BroadcastSheds, StayingPut, ShedKeepsInv

\* The start of a shutdown changes no room.
LEMMA HubShutsDownInv ==
  ASSUME HubInv, HubShutsDown
  PROVE  HubInv'
<1>1. /\ UNCHANGED <<registry, empties, running, members, closed, heard, at, room>>
      /\ hub' = Command("shutdown", None)
  BY DEF HubShutsDown, roomVars, pumps
<1>2. /\ hub' \in [op : {"idle", "broadcast", "shutdown"}, room : Clients \cup {None}]
      /\ hub'.op = "shutdown"
      /\ heard' \in [Clients -> {0, 1}]
  BY <1>1 DEF Command, HubInv, TypeOK
<1>. QED
  BY <1>1, <1>2, NothingRemoved, NothingReported, StayingPut, ShedKeepsInv

\* A refused reaping leaves the registry alone because the room has members
\* again; one that is carried out ends the goroutine and its entry together.
LEMMA HubReapsInv ==
  ASSUME HubInv, NEW m \in Rooms, HubReaps(m)
  PROVE  HubInv'
<1>1. /\ HubIdle
      /\ empties[m] > 0
      /\ empties' = [empties EXCEPT ![m] = @ - 1]
      /\ UNCHANGED <<members, closed, heard, at, room>>
  BY DEF HubReaps, pumps
<1>2. empties' \in [Rooms -> Nat] /\ \A x \in Rooms : x # m => empties'[x] = empties[x]
  BY <1>1 DEF HubInv, TypeOK
<1>3. hub.op # "shutdown"
  BY <1>1 DEF HubIdle, Idle
<1>4. CASE registry[m] # None /\ registry[m] \in running /\ members[registry[m]] = {}
  <2>1. /\ running' = running \ {registry[m]}
        /\ registry' = [registry EXCEPT ![m] = None]
        /\ hub' = hub
    BY <1>4 DEF HubReaps
  <2>2. TypeOK'
    BY <1>1, <1>2, <2>1 DEF HubInv, TypeOK
  <2>3. RegistryOK'
    <3>1. ASSUME NEW x \in Rooms, registry'[x] # None
          PROVE  /\ RoomOf[registry'[x]] = x
                 /\ registry'[x] \in running'
                 /\ members'[registry'[x]] = {} => empties'[x] > 0
      <4>1. x # m /\ registry'[x] = registry[x]
        BY <2>1, <3>1 DEF HubInv, TypeOK
      <4>2. registry[x] # registry[m]
        BY <1>4, <3>1, <4>1 DEF HubInv, RegistryOK
      <4>. QED
        BY <1>1, <1>2, <2>1, <3>1, <4>1, <4>2, IdleHub
    <3>2. ASSUME NEW o \in running'  PROVE registry'[RoomOf[o]] = o
      <4>1. o \in running /\ o # registry[m] /\ registry[RoomOf[o]] = o
        BY <2>1 DEF HubInv, RegistryOK
      <4>2. RoomOf[o] # m /\ RoomOf[o] \in Rooms
        BY <4>1 DEF HubInv, TypeOK
      <4>. QED
        BY <2>1, <4>1, <4>2 DEF HubInv, TypeOK
    <3>. QED
      BY <3>1, <3>2 DEF RegistryOK
  <2>4. \A x \in running : members'[x] # {} => x \in running'
    BY <1>1, <1>4, <2>1
  <2>5. MembersOK' /\ ChannelsOK'
    BY <1>1, <2>4, NothingRemoved, StayingPut, RemovalKeepsMembers
  <2>. QED
    BY <2>2, <2>3, <2>5 DEF HubInv
<1>5. CASE ~(registry[m] # None /\ registry[m] \in running /\ members[registry[m]] = {})
  <2>1. UNCHANGED <<running, registry>>
    BY <1>5 DEF HubReaps
  <2>2. registry[m] # None => registry[m] \in running /\ members[registry[m]] # {}
    BY <1>1, <1>5, IdleHub
  <2>3. hub' = hub
    BY <1>1, <1>5, <2>1, <2>2 DEF HubReaps, HubAsks, HubIdle
  <2>4. TypeOK'
    BY <1>1, <1>2, <2>1, <2>3 DEF HubInv, TypeOK
  <2>5. RegistryOK'
    BY <1>1, <1>2, <2>1, <2>2, <2>3 DEF HubInv, RegistryOK
  <2>6. MembersOK' /\ ChannelsOK'
    BY <1>1, <2>1, NothingRemoved, StayingPut, RemovalKeepsMembers
  <2>. QED
    BY <2>4, <2>5, <2>6 DEF HubInv
<1>. QED
  BY <1>4, <1>5

\* The room's goroutine ends, and with it all of its connections' channels.
LEMMA RoomShutsDownInv ==
  ASSUME HubInv, NEW o \in Clients, RoomShutsDown(o)
  PROVE  HubInv'
<1>1. /\ hub.op = "shutdown"
      /\ o \in running
      /\ running' = running \ {o}
      /\ Remove(o, members[o], "cut")
      /\ heard' = Without(heard, members[o])
      /\ UNCHANGED <<registry, hub, empties, at, room>>
  BY DEF RoomShutsDown, hubVars, pumps
<1>2. Sheds(o, members[o], "cut")
  BY <1>1, RemoveSheds
<1>3. TypeOK'
  BY <1>1, <1>2 DEF HubInv, TypeOK, Without, Sheds, Cut
<1>4. RegistryOK'
  BY <1>1 DEF HubInv, RegistryOK
<1>5. \A x \in running : members'[x] # {} => x \in running'
  BY <1>1, <1>2 DEF Sheds, HubInv, TypeOK
<1>6. MembersOK' /\ ChannelsOK'
  BY <1>1, <1>2, <1>5, StayingPut, RemovalKeepsMembers
<1>. QED
  BY <1>3, <1>4, <1>6 DEF HubInv

\* By then no room goroutine is left.
LEMMA HubEndsShutdownInv ==
  ASSUME HubInv, HubEndsShutdown
  PROVE  HubInv'
<1>1. /\ \A m \in Rooms : registry[m] \notin running
      /\ registry' = [m \in Rooms |-> None]
      /\ hub' = Idle
      /\ UNCHANGED <<empties, running, members, closed, heard, at, room>>
  BY DEF HubEndsShutdown, roomVars, pumps
<1>2. running = {}
  BY <1>1 DEF HubInv, TypeOK, RegistryOK
<1>3. TypeOK'
  BY <1>1 DEF HubInv, TypeOK, Idle
<1>4. RegistryOK'
  BY <1>1, <1>2 DEF RegistryOK
<1>5. MembersOK' /\ ChannelsOK'
  BY <1>1, NothingRemoved, StayingPut, RemovalKeepsMembers
<1>. QED
  BY <1>3, <1>4, <1>5 DEF HubInv

\* A connection enters the room goroutine the registry names, or the one that
\* the hub creates for it.
Joined(c) == IF registry[RoomOf[c]] = None THEN c ELSE registry[RoomOf[c]]

\* What Hub.Join does when the hub is not waiting for anyone.
LEMMA JoinedRoom ==
  ASSUME HubInv, NEW c \in Clients, HubJoins(c)
  PROVE  /\ Joined(c) \in Clients
         /\ RoomOf[Joined(c)] = RoomOf[c]
         /\ running' = running \cup {Joined(c)}
         /\ registry[RoomOf[c]] = None => \A o \in running : RoomOf[o] # RoomOf[c]
         /\ registry' = [registry EXCEPT ![RoomOf[c]] = Joined(c)]
         /\ hub' = Idle
         /\ members' = [members EXCEPT ![Joined(c)] = @ \cup {c}]
         /\ room' = [room EXCEPT ![c] = Joined(c)]
         /\ at[c] = "new"
         /\ at' = [at EXCEPT ![c] = "greeting"]
         /\ UNCHANGED <<empties, closed, heard>>
<1>1. HubIdle /\ RoomOf[c] \in Rooms
  BY DEF HubJoins
<1>2. registry[RoomOf[c]] # None =>
        /\ registry[RoomOf[c]] \in Clients
        /\ registry[RoomOf[c]] \in running
        /\ RoomOf[registry[RoomOf[c]]] = RoomOf[c]
  BY <1>1, IdleHub
<1>3. running' = running \cup {Joined(c)}
  BY <1>2 DEF HubJoins, Joined
<1>4. Joined(c) \in Clients /\ RoomOf[Joined(c)] = RoomOf[c] /\ Joined(c) \in running'
  BY <1>2, <1>3 DEF Joined
<1>5. registry[RoomOf[c]] = None => \A o \in running : RoomOf[o] # RoomOf[c]
  BY DEF HubInv, TypeOK, RegistryOK
<1>. QED
  BY <1>3, <1>4, <1>5 DEF HubJoins, HubAsks, Joined

\* The newcomer is a member of the room its registry entry names.
LEMMA HubJoinsInv ==
  ASSUME HubInv, NEW c \in Clients, HubJoins(c)
  PROVE  HubInv'
<1>. DEFINE o == Joined(c)
<1>1. /\ o \in Clients
      /\ RoomOf[o] = RoomOf[c]
      /\ RoomOf[c] \in Rooms
      /\ running' = running \cup {o}
      /\ registry' = [registry EXCEPT ![RoomOf[c]] = o]
      /\ hub' = Idle
      /\ members' = [members EXCEPT ![o] = @ \cup {c}]
      /\ room' = [room EXCEPT ![c] = o]
      /\ at[c] = "new"
      /\ at' = [at EXCEPT ![c] = "greeting"]
      /\ UNCHANGED <<empties, closed, heard>>
  BY JoinedRoom
<1>. HIDE DEF o
<1>2. closed[c] = << >>
  BY <1>1 DEF HubInv, ChannelsOK
<1>3. HubIdle /\ hub.op # "shutdown"
  BY DEF HubJoins, HubIdle, Idle
<1>4. TypeOK'
  BY <1>1 DEF HubInv, TypeOK, Idle, Staying
<1>5. RegistryOK'
  <2>1. ASSUME NEW m \in Rooms, registry'[m] # None
        PROVE  /\ RoomOf[registry'[m]] = m
               /\ registry'[m] \in running'
               /\ members'[registry'[m]] = {} => empties'[m] > 0
    <3>1. CASE m = RoomOf[c]
      <4>1. registry'[m] = o /\ c \in members'[o]
        BY <1>1, <3>1 DEF HubInv, TypeOK
      <4>. QED
        BY <1>1, <3>1, <4>1
    <3>2. CASE m # RoomOf[c]
      <4>1. registry'[m] = registry[m]
        BY <1>1, <3>2 DEF HubInv, TypeOK
      <4>2. /\ registry[m] \in Clients
            /\ registry[m] \in running
            /\ RoomOf[registry[m]] = m
            /\ members[registry[m]] = {} => empties[m] > 0
        BY <1>3, <2>1, <4>1, IdleHub
      <4>3. members'[registry[m]] = members[registry[m]]
        BY <1>1, <3>2, <4>2 DEF HubInv, TypeOK
      <4>. QED
        BY <1>1, <4>1, <4>2, <4>3
    <3>. QED
      BY <3>1, <3>2
  <2>2. ASSUME NEW x \in running'  PROVE registry'[RoomOf[x]] = x
    <3>1. CASE x = o
      BY <1>1, <3>1 DEF HubInv, TypeOK
    <3>2. CASE x # o
      <4>1. x \in running /\ x \in Clients /\ RoomOf[x] \in Rooms
        BY <1>1, <3>2 DEF HubInv, TypeOK
      <4>2. registry[RoomOf[x]] = x /\ x # None
        BY <4>1 DEF HubInv, RegistryOK
      <4>3. RoomOf[x] # RoomOf[c]
        BY <3>2, <4>1, <4>2, JoinedRoom DEF o, Joined
      <4>. QED
        BY <1>1, <4>1, <4>2, <4>3 DEF HubInv, TypeOK
    <3>. QED
      BY <3>1, <3>2
  <2>. QED
    BY <2>1, <2>2 DEF RegistryOK
<1>6. MembersOK'
  <2>1. ASSUME NEW x \in Clients, NEW d \in members'[x]
        PROVE  /\ x \in running'
               /\ room'[d] = x
               /\ RoomOf[d] = RoomOf[x]
               /\ closed'[d] = << >>
               /\ at'[d] \in Staying
    <3>1. CASE d \in members[x]
      <4>1. /\ x \in running
            /\ room[d] = x
            /\ RoomOf[d] = RoomOf[x]
            /\ closed[d] = << >>
            /\ at[d] \in Staying
            /\ d \in Clients
        BY <3>1 DEF HubInv, MembersOK, TypeOK
      <4>2. d # c
        BY <1>1, <4>1 DEF Staying
      <4>. QED
        BY <1>1, <4>1, <4>2 DEF HubInv, TypeOK
    <3>2. CASE d \notin members[x]
      <4>1. x = o /\ d = c
        BY <1>1, <2>1, <3>2 DEF HubInv, TypeOK
      <4>. QED
        BY <1>1, <1>2, <4>1 DEF HubInv, TypeOK, Staying
    <3>. QED
      BY <3>1, <3>2
  <2>. QED
    BY <2>1 DEF MembersOK
<1>7. ChannelsOK'
  <2>1. ASSUME NEW d \in Clients
        PROVE  /\ at'[d] = "new" => closed'[d] = << >>
               /\ at'[d] # "new" /\ closed'[d] = << >> =>
                    room'[d] \in Clients /\ d \in members'[room'[d]]
               /\ closed'[d] = Left => at'[d] \in Leaving
               /\ at'[d] \in Panicked => closed'[d] = Cut
    <3>1. CASE d = c
      BY <1>1, <1>2, <3>1 DEF HubInv, TypeOK, Left, Panicked
    <3>2. CASE d # c
      BY <1>1, <3>2 DEF HubInv, TypeOK, ChannelsOK
    <3>. QED
      BY <3>1, <3>2
  <2>. QED
    BY <2>1 DEF ChannelsOK
<1>. QED
  BY <1>4, <1>5, <1>6, <1>7 DEF HubInv

-----------------------------------------------------------------------------
(* The steps of a connection *)

\* A step of the connection's own that touches neither hub nor rooms.
LEMMA OwnStepInv ==
  ASSUME HubInv, Moves({}, "cut"),
         UNCHANGED <<registry, hub, empties, running, members, closed, heard>>
  PROVE  HubInv'
<1>1. /\ hub' \in [op : {"idle", "broadcast", "shutdown"}, room : Clients \cup {None}]
      /\ heard' \in [Clients -> {0, 1}]
  BY DEF HubInv, TypeOK
<1>. QED
  BY <1>1, NothingRemoved, NothingReported, ShedKeepsInv

\* Greeting a newcomer fails only if the room has already cut it off.
LEMMA GreetsInv ==
  ASSUME HubInv, NEW c \in Clients, Greets(c)
  PROVE  HubInv'
<1>1. /\ at[c] \in Staying /\ "announcing" \in Staying /\ "abandoned" \in Panicked
      /\ UNCHANGED <<registry, hub, empties, running, members, closed, heard, room>>
  BY DEF Greets, Runs, Staying, Panicked, hubVars, roomVars
<1>2. PICK n : Send(c, n, "announcing", "abandoned")
  BY DEF Greets
<1>3. Moves({}, "cut")
  BY <1>1, <1>2, Sending
<1>. QED
  BY <1>1, <1>3, OwnStepInv

\* A reply fails only if the room has cut the connection off.
LEMMA RepliesInv ==
  ASSUME HubInv, NEW c \in Clients, Replies(c)
  PROVE  HubInv'
<1>1. /\ at[c] \in Staying /\ "reading" \in Staying /\ "crashed" \in Panicked
      /\ Send(c, 1, "reading", "crashed")
      /\ UNCHANGED <<registry, hub, empties, running, members, closed, heard, room>>
  BY DEF Replies, Runs, Staying, Panicked, hubVars, roomVars
<1>2. Moves({}, "cut")
  BY <1>1, Sending
<1>. QED
  BY <1>1, <1>2, OwnStepInv

\* Announcing a newcomer may evict anyone, the newcomer included.
LEMMA AnnouncesInv ==
  ASSUME HubInv, NEW c \in Clients, Announces(c)
  PROVE  HubInv'
<1>1. /\ at[c] \in Staying /\ "reading" \in Staying
      /\ Goes(c, "reading")
      /\ RoomBroadcast(room[c])
      /\ UNCHANGED <<registry, hub, running, room>>
  BY DEF Announces, Runs, Staying
<1>2. hub' \in [op : {"idle", "broadcast", "shutdown"}, room : Clients \cup {None}]
  BY <1>1 DEF HubInv, TypeOK
<1>3. Moves(Full(room[c]), "cut")
  BY <1>1, GoingOn
<1>. QED
  BY <1>1, <1>2, <1>3, BroadcastSheds, ShedKeepsInv

\* By the time player_left is broadcast its subject is no member.
LEMMA PartsInv ==
  ASSUME HubInv, NEW c \in Clients, Parts(c)
  PROVE  HubInv'
<1>1. /\ at[c] = "parting"
      /\ Goes(c, "gone")
      /\ RoomBroadcast(room[c])
      /\ room' = [room EXCEPT ![c] = None]
      /\ UNCHANGED <<registry, hub, running>>
  BY DEF Parts, Runs
<1>2. hub' \in [op : {"idle", "broadcast", "shutdown"}, room : Clients \cup {None}]
  BY <1>1 DEF HubInv, TypeOK
<1>3. Moves(Full(room[c]), "cut")
  BY <1>1 DEF HubInv, TypeOK, ChannelsOK, Moves, Goes, Staying, Leaving, Panicked
<1>. QED
  BY <1>1, <1>2, <1>3, BroadcastSheds, ShedKeepsInv

\* A client that asks to leave is out, or was out already.
LEMMA LeavesInv ==
  ASSUME HubInv, NEW c \in Clients, Leaves(c)
  PROVE  HubInv'
<1>. DEFINE out == Quits(room[c], c)
<1>1. /\ at[c] = "leaving"
      /\ Goes(c, "parting")
      /\ RoomLeave(room[c], c)
      /\ UNCHANGED <<registry, hub, running, room>>
  BY DEF Leaves, Runs
<1>2. hub' \in [op : {"idle", "broadcast", "shutdown"}, room : Clients \cup {None}]
  BY <1>1 DEF HubInv, TypeOK
<1>3. closed[c] = << >> => c \in out
  <2>1. SUFFICES ASSUME closed[c] = << >>  PROVE c \in out
    OBVIOUS
  <2>2. room[c] \in Clients /\ c \in members[room[c]]
    BY <1>1, <2>1 DEF HubInv, ChannelsOK
  <2>3. room[c] \in running
    BY <2>2 DEF HubInv, MembersOK
  <2>. QED
    BY <2>2, <2>3 DEF Quits
<1>4. Moves(out, "left")
  <2>1. \A d \in out : d = c
    BY DEF Quits
  <2>. HIDE DEF out
  <2>. QED
    BY <1>1, <1>3, <2>1
    DEF HubInv, TypeOK, ChannelsOK, Moves, Goes, Staying, Leaving, Panicked
<1>. QED
  BY <1>1, <1>2, <1>4, LeaveSheds, ShedKeepsInv

\* Steps that only move on among the places where a connection is still in
\* its room's hands.
LEMMA ReadsInv ==
  ASSUME HubInv, NEW c \in Clients, Reads(c) \/ ReadFails(c)
  PROVE  HubInv'
<1>1. PICK p \in Staying : Goes(c, p)
  BY DEF Reads, ReadFails, Staying
<1>2. /\ at[c] \in Staying
      /\ UNCHANGED <<registry, hub, empties, running, members, closed, heard, room>>
  BY DEF Reads, ReadFails, Runs, Staying, hubVars, roomVars
<1>3. Moves({}, "cut")
  BY <1>1, <1>2, GoingOn
<1>. QED
  BY <1>2, <1>3, OwnStepInv

\* Handing a broadcast to the hub changes no room.
LEMMA BroadcastsInv ==
  ASSUME HubInv, NEW c \in Clients, Broadcasts(c)
  PROVE  HubInv'
<1>1. PICK p \in Staying : Goes(c, p)
  BY DEF Broadcasts, Staying
<1>2. /\ at[c] \in Staying
      /\ HubTakesBroadcast(RoomOf[c])
      /\ RoomOf[c] \in Rooms
      /\ UNCHANGED <<empties, running, members, closed, heard, room>>
  BY DEF Broadcasts, Runs, Staying, roomVars
<1>3. Moves({}, "cut")
  BY <1>1, <1>2, GoingOn
<1>4. heard' \in [Clients -> {0, 1}]
  BY <1>2 DEF HubInv, TypeOK
<1>. QED
  BY <1>2, <1>3, <1>4, HubTakesBroadcastOK, NothingRemoved, NothingReported, ShedKeepsInv

\* The room that is asked for names answers at once.
LEMMA AsksNamesInv ==
  ASSUME HubInv, NEW c \in Clients, AsksNames(c)
  PROVE  HubInv'
<1>1. /\ at[c] \in Staying /\ "broadcasting" \in Staying
      /\ Goes(c, "broadcasting")
      /\ HubIdle
      /\ RoomOf[c] \in Rooms
      /\ UNCHANGED <<registry, empties, running, members, closed, heard, room>>
  BY DEF AsksNames, Runs, Staying, roomVars
<1>2. hub' = hub
  BY <1>1, IdleHub DEF AsksNames, HubAsks, HubIdle
<1>3. Moves({}, "cut")
  BY <1>1, GoingOn
<1>. QED
  BY <1>1, <1>2, <1>3, OwnStepInv

\* Writing to a connection, or losing it, changes no room.
LEMMA PumpInv ==
  ASSUME HubInv, NEW c \in Clients, WritePump(c) \/ PeerDrops(c)
  PROVE  HubInv'
<1>1. UNCHANGED <<registry, hub, empties, running, members, closed, heard, at, room>>
  BY DEF WritePump, Writes, WriterHangsUp, PeerDrops, hubVars, roomVars, pumps
<1>. QED
  BY <1>1, StayingPut, OwnStepInv

\* Every step of the layer keeps the invariant.
LEMMA HubStepInv == HubInv /\ [Next]_vars => HubInv'
<1>. SUFFICES ASSUME HubInv, [Next]_vars  PROVE HubInv'
  OBVIOUS
<1>1. CASE HubStep \/ HubShutsDown
  BY <1>1, RoomBroadcastsInv, HubEndsShutdownInv, RoomShutsDownInv, HubShutsDownInv
  DEF HubStep
<1>2. CASE \E m \in Rooms : NewsComes(m) \/ HubReaps(m)
  BY <1>2, NewsComesInv, HubReapsInv
<1>3. ASSUME NEW c \in Clients, HubJoins(c) \/ HandlerStep(c) \/ Reads(c)
      PROVE  HubInv'
  BY <1>3, HubJoinsInv, GreetsInv, AnnouncesInv, ReadsInv DEF HandlerStep
<1>4. ASSUME NEW c \in Clients, ReadPump(c)
      PROVE  HubInv'
  BY <1>4, AsksNamesInv, BroadcastsInv, RepliesInv, ReadsInv, LeavesInv, PartsInv
  DEF ReadPump
<1>5. ASSUME NEW c \in Clients, WritePump(c) \/ PeerDrops(c)
      PROVE  HubInv'
  BY <1>5, PumpInv
<1>6. CASE UNCHANGED vars
  BY <1>6, StayingPut, OwnStepInv DEF vars, hubVars, roomVars, pumps
<1>. QED
  BY <1>1, <1>2, <1>3, <1>4, <1>5, <1>6 DEF Next

\* The registry, the rooms' maps, the channels and the goroutines of the
\* connections stay in step, whatever the number of rooms and connections.
THEOREM HubInvariant == Spec => []HubInv
BY HubInit, HubStepInv, PTL DEF Spec

-----------------------------------------------------------------------------
(* What the invariant shows *)

\* The hub never asks a room whose goroutine has returned, and an empty room
\* always has somebody on the way to have it reaped.
THEOREM AnswersCorrect == Spec => []RegisteredRoomsAnswer
<1>1. HubInv => RegisteredRoomsAnswer
  <2>. SUFFICES ASSUME HubInv  PROVE RegisteredRoomsAnswer
    OBVIOUS
  <2>1. hub.op # "waiting"
    BY DEF HubInv, TypeOK
  <2>. QED
    BY <2>1 DEF HubInv, RegistryOK, RegisteredRoomsAnswer
<1>. QED
  BY <1>1, HubInvariant, PTL

\* A channel that is not closed belongs to a member, and one that is was closed once.
LEMMA InvClosedOnce == HubInv => ChannelClosedOnce
<1>. SUFFICES ASSUME HubInv, NEW c \in Clients
              PROVE  /\ Len(closed[c]) <= 1
                     /\ at[c] \notin {"new", "joining"} => (closed[c] = << >> <=> InRoom(c))
  BY DEF ChannelClosedOnce
<1>1. Len(closed[c]) <= 1
  <2>1. closed[c] = << >> \/ closed[c] = <<"cut">> \/ closed[c] = <<"left">>
    BY DEF HubInv, TypeOK, Cut, Left
  <2>2. Len(<< >>) <= 1 /\ Len(<<"cut">>) <= 1 /\ Len(<<"left">>) <= 1
    OBVIOUS
  <2>. QED
    BY <2>1, <2>2
<1>2. InRoom(c) => closed[c] = << >>
  BY DEF InRoom, HubInv, MembersOK
<1>3. at[c] # "new" /\ closed[c] = << >> => InRoom(c)
  BY DEF InRoom, HubInv, ChannelsOK
<1>. QED
  BY <1>1, <1>2, <1>3

\* No channel is ever closed twice, and a channel is open exactly as long as
\* its connection is in a room.
THEOREM ClosedOnceCorrect == Spec => []ChannelClosedOnce
BY InvClosedOnce, HubInvariant, PTL

\* Only a connection that its room cut off meets a closed channel.
THEOREM RepliesCorrect == Spec => []RepliesPrecedeLeave
<1>1. HubInv => RepliesPrecedeLeave
  BY DEF HubInv, ChannelsOK, RepliesPrecedeLeave, Panicked, Cut
<1>. QED
  BY <1>1, HubInvariant, PTL

-----------------------------------------------------------------------------
(***************************************************************************)
(* One audience per room.  By the invariant the audience of a room is the  *)
(* set of its connections that are in some goroutine's map.                *)
(***************************************************************************)
Present(m) == {c \in Clients : RoomOf[c] = m /\ InRoom(c)}

\* A room's audience is the connections for it that are in a map, now ...
LEMMA RosterIsPresent ==
  ASSUME HubInv, NEW m \in Rooms
  PROVE  Rostered(m) = Present(m)
BY DEF HubInv, TypeOK, MembersOK, Rostered, Present, InRoom

\* ... and after the step.
LEMMA NextRosterIsPresent ==
  ASSUME HubInv', NEW m \in Rooms
  PROVE  Rostered(m)' = Present(m)'
BY DEF HubInv, TypeOK, MembersOK, Rostered, Present, InRoom

\* A member is in one goroutine's map only, that of its room.
LEMMA OneGoroutine ==
  ASSUME HubInv, NEW o \in running
  PROVE  Present(RoomOf[o]) = members[o]
<1>1. o \in Clients /\ RoomOf[o] \in Rooms
  BY DEF HubInv, TypeOK
<1>2. ASSUME NEW x \in Clients, NEW c \in members[x], RoomOf[c] = RoomOf[o]
      PROVE  x = o
  BY <1>2 DEF HubInv, MembersOK, RegistryOK
<1>. QED
  BY <1>1, <1>2 DEF HubInv, TypeOK, MembersOK, Present, InRoom

\* At first every audience is empty.
LEMMA AudienceInit == Init => Roster!Init
<1>. SUFFICES ASSUME Init  PROVE Roster!Init
  OBVIOUS
<1>1. \A m \in Rooms : Rostered(m) = {}
  BY DEF Init, Rostered
<1>. QED
  BY <1>1 DEF Init, Roster!Init

\* The variables of the abstract layer, as the refinement maps them.
rosterVars ==
  <<[m \in Rooms |-> Rostered(m)], {c \in Clients : closed[c] # << >>}, heard>>

\* What a removal does to the audience and to the departed.
LEMMA ShedAudience ==
  ASSUME HubInv, HubInv', NEW o \in running, NEW gone, NEW why, Sheds(o, gone, why)
  PROVE  /\ RoomOf[o] \in Rooms
         /\ Rostered(RoomOf[o]) = members[o]
         /\ gone \subseteq members[o]
         /\ [m \in Rooms |-> Rostered(m)]' =
              [[m \in Rooms |-> Rostered(m)] EXCEPT ![RoomOf[o]] = @ \ gone]
         /\ {c \in Clients : closed[c] # << >>}' =
              {c \in Clients : closed[c] # << >>} \cup gone
<1>1. o \in Clients /\ RoomOf[o] \in Rooms
  BY DEF HubInv, TypeOK
<1>2. Rostered(RoomOf[o]) = members[o]
  BY <1>1, OneGoroutine, RosterIsPresent
<1>3. gone \subseteq members[o]
  BY DEF Sheds
<1>4. ASSUME NEW m \in Rooms
      PROVE  Rostered(m)' = IF m = RoomOf[o] THEN Rostered(m) \ gone ELSE Rostered(m)
  <2>1. ASSUME NEW c \in Clients
        PROVE  InRoom(c)' <=> InRoom(c) /\ c \notin gone
    <3>1. ASSUME NEW x \in Clients, c \in members[x], c \in gone  PROVE x = o
      <4>1. c \in members[o] /\ room[c] = o /\ room[c] = x
        BY <1>1, <1>3, <3>1 DEF HubInv, MembersOK
      <4>. QED
        BY <4>1
    <3>. QED
      BY <1>1, <3>1 DEF InRoom, Sheds
  <2>2. Present(m)' = Present(m) \ gone
    BY <2>1 DEF Present
  <2>3. \A c \in gone : RoomOf[c] = RoomOf[o]
    BY <1>1, <1>3 DEF HubInv, MembersOK
  <2>4. m # RoomOf[o] => Present(m) \ gone = Present(m)
    BY <2>3 DEF Present
  <2>. QED
    BY <2>2, <2>4, RosterIsPresent, NextRosterIsPresent
<1>5. [m \in Rooms |-> Rostered(m)]' =
        [[m \in Rooms |-> Rostered(m)] EXCEPT ![RoomOf[o]] = @ \ gone]
  BY <1>1, <1>4
<1>6. {c \in Clients : closed[c] # << >>}' = {c \in Clients : closed[c] # << >>} \cup gone
  BY DEF Sheds
<1>. QED
  BY <1>1, <1>2, <1>3, <1>5, <1>6

\* The audience is the same as long as the maps and the channels are.
LEMMA SameAudience ==
  ASSUME HubInv, HubInv', UNCHANGED <<members, closed, heard>>
  PROVE  UNCHANGED rosterVars
<1>1. \A m \in Rooms : Rostered(m)' = Rostered(m)
  <2>1. \A m \in Rooms : Present(m)' = Present(m)
    BY DEF Present, InRoom
  <2>. QED
    BY <2>1, RosterIsPresent, NextRosterIsPresent
<1>. QED
  BY <1>1 DEF rosterVars

\* A step of Audience.
AudienceStep == [Roster!Next]_rosterVars

\* So a step that changes none of them is a stutter of the abstract layer.
LEMMA SameStep ==
  ASSUME HubInv, HubInv', UNCHANGED <<members, closed, heard>>
  PROVE  AudienceStep
BY SameAudience DEF AudienceStep

\* A count modulo 2 is its own remainder.
LEMMA Parity ==
  ASSUME HubInv, NEW c \in Clients
  PROVE  heard[c] % 2 = heard[c] /\ (heard[c] + 0) % 2 = heard[c]
<1>1. heard[c] = 0 \/ heard[c] = 1
  BY DEF HubInv, TypeOK
<1>. QED
  BY <1>1

\* A broadcast in a room is one announcement: everyone in its audience who is
\* not dropped for good hears it, and nobody else does.
LEMMA BroadcastAnnounces ==
  ASSUME HubInv, HubInv', NEW o, RoomBroadcast(o)
  PROVE  AudienceStep
<1>1. CASE o \in running
  <2>. DEFINE out == Full(o)
              m == RoomOf[o]
  <2>1. /\ m \in Rooms
        /\ Rostered(m) = members[o]
        /\ out \subseteq members[o]
        /\ [x \in Rooms |-> Rostered(x)]' =
             [[x \in Rooms |-> Rostered(x)] EXCEPT ![m] = @ \ out]
        /\ {c \in Clients : closed[c] # << >>}' = {c \in Clients : closed[c] # << >>} \cup out
    BY <1>1, BroadcastSheds, ShedAudience
  <2>2. heard' = [c \in Clients |->
                   IF c \in out THEN 0
                   ELSE (IF c \in members[o] THEN heard[c] + 1 ELSE heard[c]) % 2]
    BY <1>1, BroadcastSheds
  <2>. HIDE DEF out, m
  <2>3. heard' = [c \in Clients |->
                   CASE c \in out -> 0
                     [] c \in [x \in Rooms |-> Rostered(x)][m] \ out -> (heard[c] + 1) % 2
                     [] OTHER -> heard[c]]
    BY <2>1, <2>2, Parity
  <2>4. Roster!Announce(m, out)
    BY <2>1, <2>3 DEF Roster!Announce, Roster!Remove
  <2>5. out \in SUBSET [x \in Rooms |-> Rostered(x)][m]
    BY <2>1
  <2>. QED
    BY <2>1, <2>4, <2>5 DEF AudienceStep, Roster!Next
<1>2. CASE o \notin running
  BY <1>2, SameStep DEF RoomBroadcast
<1>. QED
  BY <1>1, <1>2

\* Leave is the departure of one connection, or nothing.
LEMMA LeaveDeparts ==
  ASSUME HubInv, HubInv', NEW o, NEW c \in Clients, RoomLeave(o, c)
  PROVE  AudienceStep
<1>1. CASE o \in running /\ c \in members[o]
  <2>. DEFINE m == RoomOf[o]
  <2>1. Sheds(o, {c}, "left")
    BY <1>1, LeaveSheds DEF Quits
  <2>2. /\ m \in Rooms
        /\ Rostered(m) = members[o]
        /\ [x \in Rooms |-> Rostered(x)]' =
             [[x \in Rooms |-> Rostered(x)] EXCEPT ![m] = @ \ {c}]
        /\ {d \in Clients : closed[d] # << >>}' = {d \in Clients : closed[d] # << >>} \cup {c}
    BY <1>1, <2>1, ShedAudience
  <2>3. heard' = [d \in Clients |-> IF d \in {c} THEN 0 ELSE heard[d]]
    BY <1>1 DEF RoomLeave, Without
  <2>. HIDE DEF m
  <2>4. heard' = [d \in Clients |->
                   CASE d \in {c} -> 0
                     [] d \in [x \in Rooms |-> Rostered(x)][m] \ {c} -> (heard[d] + 0) % 2
                     [] OTHER -> heard[d]]
    BY <2>3, Parity
  <2>5. Roster!Depart(m, {c})
    BY <2>2, <2>4 DEF Roster!Depart, Roster!Remove
  <2>6. c \in [x \in Rooms |-> Rostered(x)][m]
    BY <1>1, <2>2
  <2>. QED
    BY <2>2, <2>5, <2>6 DEF AudienceStep, Roster!Next
<1>2. CASE ~(o \in running /\ c \in members[o])
  BY <1>2, SameStep DEF RoomLeave
<1>. QED
  BY <1>1, <1>2

\* Room.shutdown is the departure of a whole audience.
LEMMA ShutdownDeparts ==
  ASSUME HubInv, HubInv', NEW o \in Clients, RoomShutsDown(o)
  PROVE  AudienceStep
<1>. DEFINE m == RoomOf[o]
            all == [x \in Rooms |-> Rostered(x)][m]
<1>1. o \in running /\ Remove(o, members[o], "cut")
  BY DEF RoomShutsDown
<1>2. Sheds(o, members[o], "cut")
  BY <1>1, RemoveSheds
<1>3. /\ m \in Rooms
      /\ Rostered(m) = members[o]
      /\ [x \in Rooms |-> Rostered(x)]' =
           [[x \in Rooms |-> Rostered(x)] EXCEPT ![m] = @ \ members[o]]
      /\ {c \in Clients : closed[c] # << >>}' =
           {c \in Clients : closed[c] # << >>} \cup members[o]
  BY <1>1, <1>2, ShedAudience
<1>4. all = members[o]
  BY <1>3
<1>5. heard' = [c \in Clients |-> IF c \in all THEN 0 ELSE heard[c]]
  BY <1>4 DEF RoomShutsDown, Without
<1>. HIDE DEF m
<1>6. heard' = [c \in Clients |->
                 CASE c \in all -> 0
                   [] c \in all \ all -> (heard[c] + 0) % 2
                   [] OTHER -> heard[c]]
  BY <1>5
<1>7. Roster!Depart(m, all)
  BY <1>3, <1>4, <1>6 DEF Roster!Depart, Roster!Remove
<1>. QED
  BY <1>3, <1>7 DEF AudienceStep, Roster!Next

\* Hub.Join lets a connection into the one audience of its room, once.
LEMMA JoinEnters ==
  ASSUME HubInv, HubInv', NEW c \in Clients, HubJoins(c)
  PROVE  AudienceStep
<1>. DEFINE o == Joined(c)
            m == RoomOf[c]
<1>1. /\ o \in Clients
      /\ RoomOf[o] = m
      /\ m \in Rooms
      /\ members' = [members EXCEPT ![o] = @ \cup {c}]
      /\ at[c] = "new"
      /\ UNCHANGED <<closed, heard>>
  BY JoinedRoom
<1>. HIDE DEF o
<1>2. closed[c] = << >> /\ ~InRoom(c)
  BY <1>1 DEF HubInv, ChannelsOK, MembersOK, InRoom, Staying
<1>3. ASSUME NEW d \in Clients  PROVE InRoom(d)' <=> InRoom(d) \/ d = c
  BY <1>1 DEF InRoom, HubInv, TypeOK
<1>4. ASSUME NEW x \in Rooms
      PROVE  Rostered(x)' = IF x = m THEN Rostered(x) \cup {c} ELSE Rostered(x)
  <2>1. Present(x)' = IF x = m THEN Present(x) \cup {c} ELSE Present(x)
    BY <1>3 DEF Present
  <2>. QED
    BY <2>1, RosterIsPresent, NextRosterIsPresent
<1>5. c \notin {d \in Clients : closed[d] # << >>} \cup [x \in Rooms |-> Rostered(x)][m]
  BY <1>1, <1>2, RosterIsPresent DEF Present
<1>6. [x \in Rooms |-> Rostered(x)]' = [[x \in Rooms |-> Rostered(x)] EXCEPT ![m] = @ \cup {c}]
  BY <1>1, <1>4
<1>7. Roster!Enter(c)
  BY <1>1, <1>5, <1>6 DEF Roster!Enter
<1>. QED
  BY <1>7 DEF AudienceStep, Roster!Next

\* Every step of the layer is a step of the abstract one, or a stutter.
LEMMA NextAudience == HubInv /\ HubInv' /\ [Next]_vars => AudienceStep
<1>. SUFFICES ASSUME HubInv, HubInv', [Next]_vars  PROVE AudienceStep
  OBVIOUS
<1>1. CASE HubStep \/ HubShutsDown
  <2>1. CASE RoomBroadcasts
    BY <2>1, BroadcastAnnounces DEF RoomBroadcasts
  <2>2. CASE HubEndsShutdown \/ HubShutsDown
    BY <2>2, SameStep DEF HubEndsShutdown, HubShutsDown, roomVars
  <2>. QED
    BY <1>1, <2>1, <2>2, ShutdownDeparts DEF HubStep
<1>2. CASE \E m \in Rooms : NewsComes(m) \/ HubReaps(m)
  BY <1>2, SameStep DEF NewsComes, HubReaps, roomVars
<1>3. ASSUME NEW c \in Clients, HubJoins(c) \/ HandlerStep(c) \/ Reads(c) \/ PeerDrops(c)
      PROVE  AudienceStep
  <2>1. CASE Announces(c)
    BY <2>1, BroadcastAnnounces DEF Announces
  <2>2. CASE Greets(c) \/ Reads(c) \/ PeerDrops(c)
    BY <2>2, SameStep DEF Greets, Reads, PeerDrops, roomVars
  <2>. QED
    BY <1>3, <2>1, <2>2, JoinEnters DEF HandlerStep
<1>4. ASSUME NEW c \in Clients, ReadPump(c) \/ WritePump(c)
      PROVE  AudienceStep
  <2>1. CASE Leaves(c)
    BY <2>1, LeaveDeparts DEF Leaves
  <2>2. CASE Parts(c)
    BY <2>2, BroadcastAnnounces DEF Parts
  <2>3. CASE AsksNames(c) \/ Broadcasts(c) \/ Replies(c) \/ ReadFails(c) \/ WritePump(c)
    BY <2>3, SameStep
    DEF AsksNames, Broadcasts, Replies, ReadFails, WritePump, Writes, WriterHangsUp, roomVars
  <2>. QED
    BY <1>4, <2>1, <2>2, <2>3 DEF ReadPump
<1>5. CASE UNCHANGED vars
  BY <1>5, SameStep DEF vars, roomVars
<1>. QED
  BY <1>1, <1>2, <1>3, <1>4, <1>5 DEF Next

\* Registry, goroutines, buffers, evictions and reaping together are one
\* audience per room: nobody in it misses an announcement and stays.
THEOREM AudienceCorrect == Spec => ImplementsAudience
BY AudienceInit, NextAudience, HubInvariant, PTL
DEF Spec, ImplementsAudience, Roster!Spec, AudienceStep, rosterVars, Roster!vars
=============================================================================
