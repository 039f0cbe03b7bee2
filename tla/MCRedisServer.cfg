CONSTANTS
  Byte <- McByte
  Queries <- McQuery
  Piped <- McPiped
  Window = 2
  MaxQuery = 3
  MaxPiped = 3
SPECIFICATION RedisSpec
INVARIANTS UnderstoodInOrder QueriesAnswered
CHECK_DEADLOCK FALSE
