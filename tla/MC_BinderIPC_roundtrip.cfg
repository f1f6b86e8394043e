\* Spec 8 round trip under what the code leaves open: a build that evaluates
\* arguments right to left, and a getMetadata that reserves no status slot.
CONSTANTS
  c1 = c1
  c2 = c2
  mp1 = mp1
  s1 = s1
  h1 = h1
  Clients <- MC_Clients1
  MediaPlayers <- MC_MediaPlayers
  Surfaces <- MC_Surfaces
  Heaps <- MC_Heaps
  MaxCalls = 1
  ArgOrders <- MC_AnyOrder
  ImplStatus <- MC_ImplStatus
  MetadataReservesSlot = FALSE
SPECIFICATION Spec
CHECK_DEADLOCK FALSE
INVARIANT
  RoundTrip
