CONSTANTS
  MaxConns = 2
  MaxFrames = 2
SPECIFICATION Spec
CHECK_DEADLOCK FALSE
INVARIANTS
  TypeOK
  AnsweredOnItsConnection
  OneConnectionUntilLost
PROPERTIES
  TunnelGoesOn
