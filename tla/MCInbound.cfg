CONSTANTS
  Setups <- MCSetups
  CarrierSetups <- MCCarrierSetups
  MaxBytes = 2
  Preloaded = 1
  Capacity = 1
  AuthInfos <- MCAuthInfos
  Credentials <- MCCredentials
  Hosts <- MCHosts
SPECIFICATION InboundSpec
INVARIANTS
  EndAfterAllBytes
PROPERTIES
  ForwardedAsNegotiated
  NegotiatedBytesReachOtherSide
  EndReachesOtherSide
  FinishedIsClosed
  LoopEnds
CHECK_DEADLOCK FALSE
