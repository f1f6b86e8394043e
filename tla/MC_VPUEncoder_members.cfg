\* The members start and the destructor use: a constructor that returns early,
\* a start never made and a start after stop each reach one left unset or closed.
CONSTANTS
  Mimes <- MC_Mimes
  HwOutcomes <- MC_HwOk
  IsMX27 = TRUE
  MaxReads = 1
  MaxTs = 2
  AllocOutcomes <- MC_AllocOk
  MinFrameBuffers = 1
SPECIFICATION Spec
\* The encoder's life ends in its destructor, and a client may stop calling.
CHECK_DEADLOCK FALSE
INVARIANTS
  MembersValidWhenUsed
