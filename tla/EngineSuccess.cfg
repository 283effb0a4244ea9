CONSTANTS
  Request = {r1}
  Path = {p}
  Stripped = sp
  Target = {t1, t2}
  Strips = {t2}
  NoTarget = NoTarget
  Rules <- FallbackRule
  Threshold = 2
  Enforce = TRUE
  BadURLs = FALSE
SPECIFICATION Spec
INVARIANTS
  SuccessIsAResponse
