CONSTANTS
  Emitter = {e1, e2}
  Client = {c1}
  NoClient = NoClient
  Policy = "block"
  MaxEvents = 2
  RingSize = 1
  EventCap = 1
  BroadcastCap = 1
  SendCap = 1
SPECIFICATION Spec
CHECK_DEADLOCK FALSE
INVARIANTS
  TypeOK
  NoSilentGap
  StatsAddUp
  RegisteredIsOpen
PROPERTIES
  EmitterNeverStuck
  ReleasedIsClosed
