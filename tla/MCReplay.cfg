CONSTANTS
  ClientHeaders <- MCClientHeaders
  Providers = {"slack"}
  MaxCalls = 3
  MaxRestarts = 1
  MaxTime = 1
SPECIFICATION Spec
CHECK_DEADLOCK FALSE
INVARIANTS
  TypeOK
  OneTrace
  ParentIsTheCaller
  SignedAnew
