\* With hardware that never fails, every read returns.
CONSTANTS
  Mimes <- MC_Mimes
  HwOutcomes <- MC_HwOk
  IsMX27 = TRUE
  MaxReads = 4
  MaxTs = 2
  AllocOutcomes <- MC_AllocOk
  MinFrameBuffers = 1
SPECIFICATION Spec
\* The encoder's life ends in its destructor, and a client may stop calling.
CHECK_DEADLOCK FALSE
PROPERTIES
  ReadReturns
