CONSTANTS
  NULL = NULL
  Connection = {c1, c2, c3}
  n = 2
  PairCap = 1
  AcceptFails = TRUE
  MaxFaults = 2
  MaxIn = 3
  MaxOut = 4
  MaxLen = 3
  ReadSize = 2
  SendCap = 2
  Script = {"calls", "loop"}
  Sender = {s1, s2}
  Cap = 2
  MaxChunk = 3
  MaxDelay = 5
  Client = {g1, g2, g3}
  Conn = {k1, k2, k3}
  size = 2
SPECIFICATION Spec
INVARIANTS RoundRobin NoLostEdge
INVARIANTS InStream OutStream
INVARIANTS BytesInOrder HeardToTheEnd
INVARIANTS ConnExclusive NoConnLeak
PROPERTIES AllServed InputServed EofCloses GoroutinesEnd CallsReturn
CHECK_DEADLOCK FALSE
