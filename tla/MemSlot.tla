------------------------------- MODULE MemSlot -------------------------------
(***************************************************************************)
(* mem_slot.c: a first-fit allocator over a bitmap of s->n bytes.  A byte is  *)
(* the set of its bits that are 1, numbered 0 .. 7 from the most           *)
(* significant one, which is also the order of the units they stand for.   *)
(***************************************************************************)
EXTENDS Integers, FiniteSets

CONSTANTS
  SlotBytes, \* s->n, bytes of the map
  MaxHeld    \* bound: blocks held at a time

ASSUME MemSlotAssumption == SlotBytes \in 1 .. 255 /\ MaxHeld \in Nat \ {0}

VARIABLES
  flag,      \* s->flag
  granted,   \* offset |-> size, of the blocks not freed yet
  result     \* <<size, what slot_alloc returned>> of the last call, or <<0, 0>>

slotVars == <<flag, granted, result>>

SLOT_SIZE == SlotBytes * 8
Bit == 0 .. 7
Value(byte) ==
  LET bit(k) == IF k \in byte THEN 1 ELSE 0
  IN  128 * bit(0) + 64 * bit(1) + 32 * bit(2) + 16 * bit(3)
        + 8 * bit(4) + 4 * bit(5) + 2 * bit(6) + bit(7)

\* The counts of leading and trailing zeros, by halving as in the code; the
\* code calls them for a byte that is not 0.
bits_cl0_u8(x) ==
  LET a == IF x \div 16 # 0 THEN 4 ELSE 0
      x1 == x \div 2^a
      b == IF (x1 \div 4) % 4 # 0 THEN 2 ELSE 0
      x2 == x1 \div 2^b
  IN  7 - a - b - (IF (x2 \div 2) % 2 # 0 THEN 1 ELSE 0)

bits_ct0_u8(x) ==
  LET a == IF x % 16 = 0 THEN 4 ELSE 0
      x1 == x \div 2^a
      b == IF x1 % 4 = 0 THEN 2 ELSE 0
      x2 == x1 \div 2^b
  IN  a + b + (IF x2 % 2 = 0 THEN 1 ELSE 0)

\* faulty variant: the last byte is left out
MaskNoTail(j, offset, len) ==
  LET i == offset \div 8
      from == {k \in Bit : k >= offset % 8}
      upto == {k \in Bit : k < (offset + len) % 8}
  IN  IF j # i THEN {} ELSE IF (offset + len) \div 8 = i THEN from \cap upto ELSE from

\* the bits of byte j that mark_used_flag sets and mark_free_flag clears: 0xff >>
\* keeps the low end of a byte, 0xff << the high end
Mask(j, offset, len) ==
  LET offset0 == offset + len
      i == offset \div 8
      i0 == offset0 \div 8
      from == {k \in Bit : k >= offset % 8}
      upto == {k \in Bit : k < offset0 % 8}
  IN  CASE j = i /\ i = i0 -> from \cap upto
        [] j = i /\ i < i0 -> from
        [] j = i0 /\ i < i0 -> upto
        [] i < j /\ j < i0 -> Bit
        [] OTHER -> {}

mark_used_flag(f, offset, len) == [j \in DOMAIN f |-> f[j] \cup Mask(j, offset, len)]
mark_free_flag(f, offset, len) == [j \in DOMAIN f |-> f[j] \ Mask(j, offset, len)]

\* faulty variant: the leading zeros are not added
LookNoLeading(size, at) ==
  IF at.i = SlotBytes \/ at.empty >= size THEN at
  ELSE IF flag[at.i] = {} THEN [i |-> at.i + 1, offset |-> at.offset, empty |-> at.empty + 8]
  ELSE LET t == bits_ct0_u8(Value(flag[at.i]))
       IN  [i |-> at.i + 1, offset |-> at.i * 8 + 8 - t, empty |-> t]

\* one turn of the loop of slot_alloc, at byte at.i with the run of at.empty free
\* units that starts at at.offset; where the loop has ended, nothing changes
Look(size, at) ==
  IF at.i = SlotBytes \/ at.empty >= size THEN at
  ELSE IF flag[at.i] = {} THEN [i |-> at.i + 1, offset |-> at.offset, empty |-> at.empty + 8]
  ELSE LET l == bits_cl0_u8(Value(flag[at.i]))
           t == bits_ct0_u8(Value(flag[at.i]))
       IN  IF at.empty + l >= size
           THEN [i |-> at.i + 1, offset |-> at.offset, empty |-> at.empty + l]
           ELSE [i |-> at.i + 1, offset |-> at.i * 8 + 8 - t, empty |-> t]

\* the loop: the run of free units that is long enough, or the last
Scan(size) ==
  LET at[k \in Nat] == IF k = 0 THEN [i |-> 0, offset |-> 0, empty |-> 0]
                       ELSE Look(size, at[k - 1])
  IN  at[SlotBytes]

-----------------------------------------------------------------------------
slot_new == flag = [i \in 0 .. SlotBytes - 1 |-> {}] /\ granted = <<>> /\ result = <<0, 0>>

slot_alloc(size) ==
  LET run == Scan(size) IN
  /\ Cardinality(DOMAIN granted) < MaxHeld
  /\ IF run.empty >= size
     THEN /\ flag' = mark_used_flag(flag, run.offset, size)
          /\ granted' = [o \in DOMAIN granted \cup {run.offset} |->
                           IF o = run.offset THEN size ELSE granted[o]]
          /\ result' = <<size, run.offset>>
     ELSE result' = <<size, -1>> /\ UNCHANGED <<flag, granted>>

slot_free(offset) ==
  /\ offset \in DOMAIN granted
  /\ flag' = mark_free_flag(flag, offset, granted[offset])
  /\ granted' = [o \in DOMAIN granted \ {offset} |-> granted[o]]
  /\ result' = <<0, 0>>

SlotNext ==
  \/ \E size \in 1 .. SLOT_SIZE : slot_alloc(size)
  \/ \E offset \in 0 .. SLOT_SIZE - 1 : slot_free(offset)

SlotSpec == slot_new /\ [][SlotNext]_slotVars

-----------------------------------------------------------------------------
Used == {u \in 0 .. SLOT_SIZE - 1 : u % 8 \in flag[u \div 8]}
SlotsOf(o) == o .. o + granted[o] - 1

\* The blocks that callers hold are apart from each other, and the bitmap says
\* exactly which units they are: marking and clearing at any alignment, over one,
\* two or more bytes, touches no neighbour's bits.
FlagsExact ==
  /\ Used = UNION {SlotsOf(o) : o \in DOMAIN granted}
  /\ \A o, q \in DOMAIN granted : o < q => o + granted[o] <= q

\* When slot_alloc refuses a size, every free run of that size lies strictly
\* inside one byte: runs that touch or cross a byte boundary are always found.
OnlyHolesRefused ==
  result[2] = -1 =>
    \A o \in 0 .. SLOT_SIZE - result[1] :
      (o .. o + result[1] - 1) \cap Used = {} =>
        o % 8 > 0 /\ (o % 8) + result[1] < 8
=============================================================================
