CONSTANTS
  Request = {r1, r2}
  Path = {p}
  Stripped = p
  Target = {t1, t2}
  Strips = {t2}
  NoTarget = NoTarget
  Rules <- TwoRules
  Threshold = 2
  Enforce = TRUE
  BadURLs = TRUE
SPECIFICATION Spec
SYMMETRY TwoCallers
INVARIANTS
  TypeOK
  EventTellsTheAnswer
PROPERTIES
  OnlyAdmittedRequestsCount
