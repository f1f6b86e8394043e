\* A failing encode step keeps the one output buffer: the next read blocks.
CONSTANTS
  Mimes <- MC_Mimes
  HwOutcomes <- MC_HwAll
  IsMX27 = TRUE
  MaxReads = 3
  MaxTs = 2
  AllocOutcomes <- MC_AllocOk
  MinFrameBuffers = 1
SPECIFICATION Spec
\* The encoder's life ends in its destructor, and a client may stop calling.
CHECK_DEADLOCK FALSE
PROPERTIES
  ReadReturns
