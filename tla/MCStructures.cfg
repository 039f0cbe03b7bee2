CONSTANTS
  Block = {b1, b2, b3}
  NULL = NULL
  FSize <- McFSize
  MaxSize = 8
  logn = 3
  SlotBytes = 2
  MaxHeld = 3
  Node = {x1, x2, x3, x4}
  List = {l1, l2}
  Thread = {t1, t2}
  Coroutine = {co1, co2, co3}
  MaxTid = 3
  Id = {a, b}
  Record = {r1, r2}
  Keeper = {k1, k2}
  LogCap = 1
  MaxLogger = 2
SPECIFICATION Spec
INVARIANTS FreeListsSound BestFit
INVARIANTS BlocksDisjoint PromiseKept
INVARIANTS FlagsExact OnlyHolesRefused
INVARIANTS ListIsSequence Anchored LoggedEverywhere
CHECK_DEADLOCK FALSE
