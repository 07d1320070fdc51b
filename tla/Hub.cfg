SPECIFICATION FairSpec
CONSTANTS
  None = None
  m1 = m1
  Clients = {c1, c2, c3}
  Rooms = {m1}
  RoomOf <- OneRoom
  BufferSize = 3
  Talkers = {c1}
  MaxInputs = 1
INVARIANTS
  RegisteredRoomsAnswer
  ChannelClosedOnce
  RepliesPrecedeLeave
PROPERTIES
  ImplementsAudience
  DisconnectHandled
