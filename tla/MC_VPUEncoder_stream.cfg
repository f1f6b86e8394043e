\* Every constructor and start outcome, failing and working hardware, four
\* reads with timestamps 0..2: enough for the headers, two frames, a repeat
\* of each and a failing source read in one session.
CONSTANTS
  Mimes <- MC_Mimes
  HwOutcomes <- MC_HwAll
  IsMX27 = TRUE
  MaxReads = 4
  MaxTs = 2
  AllocOutcomes <- MC_AllocAll
  MinFrameBuffers = 1
SPECIFICATION Spec
\* The encoder's life ends in its destructor, and a client may stop calling.
CHECK_DEADLOCK FALSE
INVARIANTS
  TypeOK
  OutputStreamWellFormed
  CheckHolds
  MemoryReturned
