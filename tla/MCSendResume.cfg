CONSTANTS
  MaxIn = 1
  MaxOut = 3
  MaxLen = 3
  ReadSize = 2
  SendCap = 2
  Script = {"calls"}
SPECIFICATION SockFairSpec
PROPERTIES SendGoesOn
CHECK_DEADLOCK FALSE
