CONSTANTS
  MaxTickets = 3
  Socket = {s1, s2}
  Limit = 2
  TTL = 2
  MaxTime = 3
  RawPaths <- MCRawPaths
  Request = {q1}
  MaxRules = 3
  MaxToggles = 2
SPECIFICATION TablesSpec
CHECK_DEADLOCK FALSE
INVARIANTS
  TypeOK
  AdmitsOnceInTime
  RulesTypeOK
  MockedByTheRuleInForce
