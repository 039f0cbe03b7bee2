SPECIFICATION Spec
CONSTANTS
  Thread = {t1, t2}
  Res = {r1, r2, r3}
  cfd = cfd
  NULL = NULL
  JUNK = JUNK
  MaxEvents = 2
  AddOutcome = {TRUE}
  EvMask <- McEvMask
  MaxDangling = 0
  MaxLost = 0
  SingleMode = FALSE
SYMMETRY Symmetry
INVARIANT WokenByAwaited
