SPECIFICATION ChannelSpec
CONSTANTS
  Push = {p1, p2}
  Quiet = {p2}
  Conn = {c1, c2, c3}
  NoConn = NoConn
PROPERTIES
  DeliveryImplemented
  PushesEnd
CHECK_DEADLOCK FALSE
