\* Object references crossing the boundary: the capability the receiving method
\* expects, and an empty GraphicBuffer for a refused requestBuffer.
CONSTANTS
  c1 = c1
  c2 = c2
  mp1 = mp1
  s1 = s1
  h1 = h1
  Clients <- MC_Clients1
  MediaPlayers <- MC_MediaPlayers
  Surfaces <- MC_Surfaces
  Heaps <- MC_Heaps
  MaxCalls = 1
  ArgOrders <- MC_LeftToRight
  ImplStatus <- MC_ImplStatus
  MetadataReservesSlot = TRUE
SPECIFICATION Spec
CHECK_DEADLOCK FALSE
INVARIANT
  ReferencesUsable
