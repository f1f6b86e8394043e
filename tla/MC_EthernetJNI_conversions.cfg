\* Every native method with every driver status and every reply up to the
\* size of its buffer.
CONSTANTS
  BufLen = 6
  StatusBufLen = 4
  WordTokens <- MC_WordTokens
  MacChars <- MC_MacChars
  DriverStatus <- MC_DriverStatus
  MaxCalls = 1
SPECIFICATION Spec
INVARIANTS
  TypeOK
  ReplyTerminatorInBuffer
  BooleanCommandResult
  MacAddressResult
\* Java stops calling after MaxCalls native calls.
CHECK_DEADLOCK FALSE
