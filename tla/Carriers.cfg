CONSTANTS
  MaxBytes = 6
  MaxChunkSize = 5
  AddrSize = 1
  LenFieldSize = 1
  FixedHeaderSize = 2
  MaxPaddingLen = 2
  ReadSizes = {1, 2}
  FirstPaddings = 3
  MaxOriginalPayloadSize = 2
  MaxPaddingSize = 1
  MaxEmptyFrames = 1
  PaddedReadSizes = {1, 3}
SPECIFICATION CarrierSpec
INVARIANTS
  CarrierTypeOK
  FramingInStep
PROPERTY ImplementsByteStream
CHECK_DEADLOCK FALSE
