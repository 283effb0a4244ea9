CONSTANTS
  c1 = c1
  c2 = c2
  a = a
  b = b
  d = d
  Container = {c1, c2}
  Prefix = {a, b, d}
  NoPrefix = NoPrefix
  Port = {80, 81}
  Mode = "opt_in"
  InfosOf <- Distinct
  StaticTable <- NoStatic
  NoTarget = NoTarget
  Outages = TRUE
  MaxEvents = 1
  MaxStreams <- TwoForC2
SPECIFICATION Spec
INVARIANTS
  TypeOK
  RouterAgrees
  LogEntryIsLive
PROPERTIES
  ListingReconciles
