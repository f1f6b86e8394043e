\* Every outcome of IOGetPhyMem and IOGetVirtMem for the bitstream buffer and
\* the two frame buffers of one start, one read: enough to reach each use.
CONSTANTS
  Mimes <- MC_Mimes
  HwOutcomes <- MC_HwOk
  IsMX27 = TRUE
  MaxReads = 2
  MaxTs = 2
  AllocOutcomes <- MC_AllocAll
  MinFrameBuffers = 1
SPECIFICATION Spec
\* The encoder's life ends in its destructor, and a client may stop calling.
CHECK_DEADLOCK FALSE
INVARIANT
  HardwareGivenReadyBuffers
