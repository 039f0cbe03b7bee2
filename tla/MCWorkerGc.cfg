SPECIFICATION SpecGc
CONSTANTS
  Thread = {t1, t2}
  Res = {r1, r2}
  cfd = cfd
  NULL = NULL
  JUNK = JUNK
  MaxEvents = 2
  AddOutcome = {TRUE, FALSE}
  EvMask <- McEvMask
  MaxDangling = 1
  MaxLost = 0
  SingleMode = FALSE
SYMMETRY Symmetry
INVARIANT ConnectionHeld
