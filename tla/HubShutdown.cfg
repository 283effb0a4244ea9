CONSTANTS
  Emitter = {e1}
  Client = {c1}
  NoClient = NoClient
  Policy = "block"
  MaxEvents = 1
  RingSize = 1
  EventCap = 1
  BroadcastCap = 1
  SendCap = 1
SPECIFICATION Spec
CHECK_DEADLOCK FALSE
PROPERTIES
  ShutdownClosesConnections
