SPECIFICATION Spec
CONSTANTS
  Thread = {t1, t2}
  Res = {r1, r2}
  cfd = cfd
  NULL = NULL
  JUNK = JUNK
  MaxEvents = 3
  AddOutcome = {TRUE, FALSE}
  EvMask <- McEvMask
  MaxDangling = 1
  MaxLost = 1
  SingleMode = TRUE
SYMMETRY Symmetry
INVARIANTS
  TypeOK
  EventsOwned
  ThreadReachableOnce
  PoolPointerValid
  StopQueueSound
  ResListSound
  OpenFdOwned
  ConnectionHeld
  UserdataOwnerLive
  ResumeCodeFits
  NothingLeftAtExit
