CONSTANTS
  Event = {e1, e2, e3}
  NoEvent = NoEvent
  RequestedSize = 0
  DefaultSize = 3
  Readers = {r1, r2}
  Seg = {"a", "b", "c"}
  Prefixes <- SomePrefixes
  Paths <- SomePaths
  Target = {t1}
  NilTarget = NilTarget
  Version = 2
  NoNode = NoNode
  Reader = {l1}
SPECIFICATION StoresSpec
SYMMETRY Symmetry
INVARIANTS
  TypeOK
  CopyIsPrefixOfLog
  WindowHoldsTheEvents
  TrieTypeOK
  NoDeadBranch
PROPERTIES
  PublishedIsFrozen
  ImplementsTraceLog
  ImplementsRouteTable
