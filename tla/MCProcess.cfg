SPECIFICATION Spec
CONSTANTS
  Configs <- MCConfigs
  MaxRelease = 3
  MaxStarts = 2
INVARIANTS
  SomeWholeBinary
  UnsetOnce
  ProxyNotForgotten
PROPERTIES
  ListenersStopTogether
  EndsWhenAsked
CHECK_DEADLOCK FALSE
