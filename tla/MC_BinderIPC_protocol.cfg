\* One client making two calls: every interleaving of a oneway transaction
\* with the next call, both proxies on both objects, server death.
CONSTANTS
  c1 = c1
  c2 = c2
  mp1 = mp1
  s1 = s1
  h1 = h1
  Clients <- MC_Clients1
  MediaPlayers <- MC_MediaPlayers
  Surfaces <- MC_Surfaces
  Heaps <- MC_Heaps
  MaxCalls = 2
  ArgOrders <- MC_LeftToRight
  ImplStatus <- MC_ImplStatus
  MetadataReservesSlot = TRUE
SPECIFICATION Spec
\* A client stops after MaxCalls calls, and nothing runs once the server died.
CHECK_DEADLOCK FALSE
INVARIANTS
  TypeOK
  InvocationFidelity
  ArgsRoundTrip
  ReplyRoundTrip
