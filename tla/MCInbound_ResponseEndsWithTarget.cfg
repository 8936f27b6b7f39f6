CONSTANTS
  Setups <- MCSetups
  CarrierSetups <- MCCarrierSetups
  MaxBytes = 2
  Preloaded = 1
  Capacity = 1
  AuthInfos <- MCAuthInfos
  Credentials <- MCCredentials
  Hosts <- MCHosts
SPECIFICATION InboundSpec
PROPERTIES
  ResponseEndsWithTarget
CHECK_DEADLOCK FALSE
