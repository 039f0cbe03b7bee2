CONSTANTS
  MaxIn = 1
  MaxOut = 1
  MaxLen = 1
  ReadSize = 2
  SendCap = 1
  Script = {"loop"}
SPECIFICATION SockFairSpec
PROPERTIES CloseNoticed
CHECK_DEADLOCK FALSE
