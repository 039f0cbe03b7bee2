---------------------------- MODULE OffsetProofs -----------------------------
(***************************************************************************)
(* Theorems about the two allocators of offsets, the bitmap of MemSlot and *)
(* the tree of MemBuddy: what is handed out is never handed out again      *)
(* before it is freed, and a request is refused for want of room only.     *)
(***************************************************************************)
EXTENDS MemSlot, MemBuddy, SequenceFacts

-----------------------------------------------------------------------------
(* MemSlot                                                                 *)

\* bits_cl0_u8 finds the first bit of a byte.
LEMMA LeadingZeros ==
  ASSUME NEW y \in SUBSET Bit, y # {}
  PROVE  /\ bits_cl0_u8(Value(y)) \in y
         /\ \A k \in y : bits_cl0_u8(Value(y)) <= k
<1> DEFINE b(k) == IF k \in y THEN 1 ELSE 0
           hi == 8 * b(0) + 4 * b(1) + 2 * b(2) + b(3)
           lo == 8 * b(4) + 4 * b(5) + 2 * b(6) + b(7)
           low(x) == LET c == IF (x \div 4) % 4 # 0 THEN 2 ELSE 0
                         x2 == x \div 2^c
                     IN  3 - c - (IF (x2 \div 2) % 2 # 0 THEN 1 ELSE 0)
<1>1. Value(y) = 16 * hi + lo /\ hi \in 0 .. 15 /\ lo \in 0 .. 15
  BY DEF Value
<1>2. 2^0 = 1 /\ 2^2 = 4 /\ 2^4 = 16
  OBVIOUS
<1>3. ASSUME NEW h0 \in 0 .. 1, NEW h1 \in 0 .. 1, NEW h2 \in 0 .. 1, NEW h3 \in 0 .. 1
      PROVE  low(8 * h0 + 4 * h1 + 2 * h2 + h3) =
               IF h0 = 1 THEN 0 ELSE IF h1 = 1 THEN 1 ELSE IF h2 = 1 THEN 2 ELSE 3
  BY <1>2
<1>4. bits_cl0_u8(Value(y)) = IF hi # 0 THEN low(hi) ELSE 4 + low(lo)
  <2>1. CASE hi # 0
    <3>1. Value(y) \div 16 = hi
      BY <1>1
    <3> HIDE DEF hi, lo
    <3> QED  BY <1>1, <1>2, <2>1, <3>1 DEF bits_cl0_u8
  <2>2. CASE hi = 0
    <3>1. Value(y) \div 16 = 0 /\ Value(y) \div 1 = lo
      BY <1>1, <2>2
    <3> HIDE DEF hi, lo
    <3> QED  BY <1>1, <1>2, <2>2, <3>1 DEF bits_cl0_u8
  <2> QED  BY <2>1, <2>2
<1>5. low(hi) = IF 0 \in y THEN 0 ELSE IF 1 \in y THEN 1 ELSE IF 2 \in y THEN 2 ELSE 3
  <2> HIDE DEF low
  <2> QED  BY <1>3
<1>6. low(lo) = IF 4 \in y THEN 0 ELSE IF 5 \in y THEN 1 ELSE IF 6 \in y THEN 2 ELSE 3
  <2> HIDE DEF low
  <2> QED  BY <1>3
<1>7. hi # 0 <=> 0 \in y \/ 1 \in y \/ 2 \in y \/ 3 \in y
  OBVIOUS
<1> HIDE DEF hi, lo, low
<1>8. \A k : k \in y => k \in {0, 1, 2, 3, 4, 5, 6, 7}
  BY DEF Bit
<1>9. CASE hi # 0
  BY <1>4, <1>5, <1>7, <1>8, <1>9
<1>10. CASE hi = 0
  BY <1>4, <1>6, <1>7, <1>8, <1>10
<1> QED  BY <1>9, <1>10

\* bits_ct0_u8 finds how many bits there are after the last one.
LEMMA TrailingZeros ==
  ASSUME NEW y \in SUBSET Bit, y # {}
  PROVE  /\ 7 - bits_ct0_u8(Value(y)) \in y
         /\ \A k \in y : k <= 7 - bits_ct0_u8(Value(y))
<1> DEFINE b(k) == IF k \in y THEN 1 ELSE 0
           hi == 8 * b(0) + 4 * b(1) + 2 * b(2) + b(3)
           lo == 8 * b(4) + 4 * b(5) + 2 * b(6) + b(7)
           low(x) == LET c == IF x % 4 = 0 THEN 2 ELSE 0
                         x2 == x \div 2^c
                     IN  c + (IF x2 % 2 = 0 THEN 1 ELSE 0)
<1>1. Value(y) = 16 * hi + lo /\ hi \in 0 .. 15 /\ lo \in 0 .. 15
  BY DEF Value
<1>2. 2^0 = 1 /\ 2^2 = 4 /\ 2^4 = 16
  OBVIOUS
<1>3. ASSUME NEW h \in 0 .. 15,
             NEW h0 \in 0 .. 1, NEW h1 \in 0 .. 1, NEW h2 \in 0 .. 1, NEW h3 \in 0 .. 1
      PROVE  low(16 * h + 8 * h0 + 4 * h1 + 2 * h2 + h3) =
               IF h3 = 1 THEN 0 ELSE IF h2 = 1 THEN 1 ELSE IF h1 = 1 THEN 2 ELSE 3
  BY <1>2
<1>4. bits_ct0_u8(Value(y)) = IF lo # 0 THEN low(16 * hi + lo) ELSE 4 + low(hi)
  <2>1. CASE lo # 0
    <3>1. Value(y) % 16 # 0 /\ Value(y) \div 1 = 16 * hi + lo
      BY <1>1, <2>1
    <3> HIDE DEF hi, lo
    <3> QED  BY <1>1, <1>2, <2>1, <3>1 DEF bits_ct0_u8
  <2>2. CASE lo = 0
    <3>1. Value(y) % 16 = 0 /\ Value(y) \div 16 = hi
      BY <1>1, <2>2
    <3> HIDE DEF hi, lo
    <3> QED  BY <1>1, <1>2, <2>2, <3>1 DEF bits_ct0_u8
  <2> QED  BY <2>1, <2>2
<1>5. low(hi) = IF 3 \in y THEN 0 ELSE IF 2 \in y THEN 1 ELSE IF 1 \in y THEN 2 ELSE 3
  <2>1. hi = 16 * 0 + 8 * b(0) + 4 * b(1) + 2 * b(2) + b(3)
    OBVIOUS
  <2> HIDE DEF low
  <2> QED  BY <1>3, <2>1
<1>6. low(16 * hi + lo) = IF 7 \in y THEN 0 ELSE IF 6 \in y THEN 1 ELSE IF 5 \in y THEN 2 ELSE 3
  <2>1. 16 * hi + lo = 16 * hi + 8 * b(4) + 4 * b(5) + 2 * b(6) + b(7)
    OBVIOUS
  <2> HIDE DEF low, hi
  <2> QED  BY <1>1, <1>3, <2>1
<1>7. lo # 0 <=> 4 \in y \/ 5 \in y \/ 6 \in y \/ 7 \in y
  OBVIOUS
<1> HIDE DEF hi, lo, low
<1>8. \A k : k \in y => k \in {0, 1, 2, 3, 4, 5, 6, 7}
  BY DEF Bit
<1>9. CASE lo # 0
  BY <1>4, <1>6, <1>7, <1>8, <1>9
<1>10. CASE lo = 0
  BY <1>4, <1>5, <1>7, <1>8, <1>10
<1> QED  BY <1>9, <1>10

\* A unit and its byte.
LEMMA Divide8 ==
  ASSUME NEW u \in Nat
  PROVE  u = 8 * (u \div 8) + (u % 8) /\ u % 8 \in 0 .. 7 /\ u \div 8 \in Nat
<1>1. u % 8 \in 0 .. 7
  OBVIOUS
<1>2. u \div 8 \in Nat
  OBVIOUS
<1>3. u = 8 * (u \div 8) + (u % 8)
  OBVIOUS
<1> QED  BY <1>1, <1>2, <1>3

\* The mask covers the units of the block and no others.
LEMMA MaskUnits ==
  ASSUME NEW offset \in Nat, NEW len \in Nat \ {0}, NEW u \in Nat
  PROVE  u % 8 \in Mask(u \div 8, offset, len) <=> u \in offset .. offset + len - 1
<1> DEFINE e  == offset + len
           o8 == offset \div 8
           ob == offset % 8
           e8 == e \div 8
           eb == e % 8
           u8 == u \div 8
           ub == u % 8
<1>1. u = 8 * u8 + ub /\ ub \in 0 .. 7 /\ u8 \in Nat
  BY Divide8
<1>2. offset = 8 * o8 + ob /\ ob \in 0 .. 7 /\ o8 \in Nat
  BY Divide8
<1>3. e \in Nat /\ e > offset
  OBVIOUS
<1>4. e = 8 * e8 + eb /\ eb \in 0 .. 7 /\ e8 \in Nat
  BY <1>3, Divide8
<1>5. Mask(u8, offset, len) = CASE u8 = o8 /\ o8 = e8 -> {k \in Bit : k >= ob} \cap {k \in Bit : k < eb}
                                [] u8 = o8 /\ o8 < e8 -> {k \in Bit : k >= ob}
                                [] u8 = e8 /\ o8 < e8 -> {k \in Bit : k < eb}
                                [] o8 < u8 /\ u8 < e8 -> Bit
                                [] OTHER -> {}
  BY DEF Mask
<1>6. u \in offset .. offset + len - 1 <=> offset <= u /\ u < e
  OBVIOUS
<1> HIDE DEF e, o8, ob, e8, eb, u8, ub
<1>7. o8 <= e8
  BY <1>2, <1>3, <1>4
<1>8. ub \in Bit
  BY <1>1 DEF Bit
<1>9. CASE u8 = o8 /\ o8 = e8
  <2>1. ub \in Mask(u8, offset, len) <=> ub >= ob /\ ub < eb
    BY <1>1, <1>2, <1>4, <1>5, <1>8, <1>9
  <2> QED  BY <1>1, <1>2, <1>4, <1>6, <1>9, <2>1 DEF u8, ub
<1>10. CASE u8 = o8 /\ o8 < e8
  <2>1. ub \in Mask(u8, offset, len) <=> ub >= ob
    BY <1>2, <1>4, <1>5, <1>8, <1>10
  <2> QED  BY <1>1, <1>2, <1>4, <1>6, <1>10, <2>1 DEF u8, ub
<1>11. CASE u8 = e8 /\ o8 < e8
  <2>1. ub \in Mask(u8, offset, len) <=> ub < eb
    BY <1>2, <1>4, <1>5, <1>8, <1>11
  <2> QED  BY <1>1, <1>2, <1>4, <1>6, <1>11, <2>1 DEF u8, ub
<1>12. CASE o8 < u8 /\ u8 < e8
  <2>1. ub \in Mask(u8, offset, len)
    BY <1>1, <1>2, <1>4, <1>5, <1>8, <1>12
  <2> QED  BY <1>1, <1>2, <1>4, <1>6, <1>12, <2>1 DEF u8, ub
<1>13. CASE u8 < o8 \/ u8 > e8
  <2>1. ub \notin Mask(u8, offset, len)
    BY <1>1, <1>2, <1>4, <1>5, <1>7, <1>13
  <2> QED  BY <1>1, <1>2, <1>4, <1>6, <1>7, <1>13, <2>1 DEF u8, ub
<1> QED  BY <1>1, <1>2, <1>4, <1>7, <1>9, <1>10, <1>11, <1>12, <1>13

-----------------------------------------------------------------------------
(* The loop of slot_alloc.                                                 *)

Flags == flag \in [0 .. SlotBytes - 1 -> SUBSET Bit]

\* a free run that slot_alloc may overlook
Hole(o, size) == o % 8 > 0 /\ (o % 8) + size < 8

\* every free run of size below unit e is a hole
OnlyHoles(size, e) ==
  \A o \in 0 .. e - size : (o .. o + size - 1) \cap Used = {} => Hole(o, size)

\* what the loop knows at byte at.i
Run(size, at) ==
  /\ at \in [i : 0 .. SlotBytes, offset : Nat, empty : Nat]
  /\ at.offset + at.empty <= 8 * at.i
  /\ \A u \in at.offset .. at.offset + at.empty - 1 : u \notin Used
  /\ at.empty < size =>
       /\ at.offset + at.empty = 8 * at.i
       /\ at.offset > 0 => at.offset - 1 \in Used
       /\ OnlyHoles(size, 8 * at.i)

\* The bits of a byte are its units.
LEMMA UnitsOfByte ==
  ASSUME Flags, NEW i \in 0 .. SlotBytes - 1, NEW k \in 0 .. 7
  PROVE  8 * i + k \in Used <=> k \in flag[i]
<1>1. SlotBytes \in Nat
  BY MemSlotAssumption
<1>2. (8 * i + k) % 8 = k /\ (8 * i + k) \div 8 = i
  BY <1>1
<1>3. 8 * i + k \in 0 .. SLOT_SIZE - 1
  BY <1>1 DEF SLOT_SIZE
<1> QED  BY <1>2, <1>3 DEF Used

\* One turn.
LEMMA LookRuns ==
  ASSUME Flags, NEW size \in Nat \ {0}, NEW at, Run(size, at)
  PROVE  Run(size, Look(size, at))
<1>0. PICK i \in 0 .. SlotBytes, o \in Nat, e \in Nat : at = [i |-> i, offset |-> o, empty |-> e]
  BY DEF Run
<1>1. SlotBytes \in Nat /\ at.i = i /\ at.empty = e /\ at.offset = o
      /\ at = [i |-> i, offset |-> o, empty |-> e]
  BY <1>0, MemSlotAssumption
<1>2. CASE i = SlotBytes \/ e >= size
  BY <1>1, <1>2 DEF Look
<1>3. CASE i # SlotBytes /\ e < size
  <2>1. i \in 0 .. SlotBytes - 1 /\ i + 1 \in 0 .. SlotBytes
    BY <1>1, <1>3
  <2>2. /\ o + e = 8 * i /\ (o > 0 => o - 1 \in Used)
        /\ \A u \in o .. 8 * i - 1 : u \notin Used
        /\ OnlyHoles(size, 8 * i)
    BY <1>1, <1>3 DEF Run
  <2>3. ASSUME NEW r \in Nat, r < 8 * i, r + size > 8 * i, (r .. r + size - 1) \cap Used = {}
        PROVE  r >= o
    <3> SUFFICES ASSUME r < o PROVE FALSE
      BY <1>1
    <3>1. o - 1 \in r .. r + size - 1
      BY <1>1, <2>1, <2>2, <2>3
    <3> QED  BY <1>1, <2>2, <2>3, <3>1
  <2>4. CASE flag[i] = {}
    <3> DEFINE s == [i |-> i + 1, offset |-> o, empty |-> e + 8]
    <3>1. Look(size, at) = s
      BY <1>1, <1>3, <2>4 DEF Look
    <3>2. ASSUME NEW u \in o .. o + (e + 8) - 1 PROVE u \notin Used
      <4>1. CASE u < 8 * i
        BY <1>1, <2>2, <4>1
      <4>2. CASE u >= 8 * i
        <5>1. u - 8 * i \in 0 .. 7 /\ u = 8 * i + (u - 8 * i)
          BY <1>1, <2>1, <2>2, <4>2
        <5> QED  BY <2>1, <2>4, <5>1, UnitsOfByte
      <4> QED  BY <1>1, <2>1, <4>1, <4>2
    <3>3. ASSUME e + 8 < size PROVE OnlyHoles(size, 8 * (i + 1))
      <4> SUFFICES ASSUME NEW r \in 0 .. 8 * (i + 1) - size, (r .. r + size - 1) \cap Used = {}
                   PROVE  Hole(r, size)
        BY DEF OnlyHoles
      <4>1. CASE r + size <= 8 * i
        <5>1. r \in 0 .. 8 * i - size
          BY <1>1, <2>1, <4>1
        <5> QED  BY <2>2, <5>1 DEF OnlyHoles
      <4>2. CASE r + size > 8 * i
        BY <1>1, <2>1, <2>2, <2>3, <3>3, <4>2
      <4> QED  BY <1>1, <2>1, <4>1, <4>2
    <3>4. s \in [i : 0 .. SlotBytes, offset : Nat, empty : Nat]
      BY <1>1, <2>1
    <3>5. o + (e + 8) = 8 * (i + 1)
      BY <1>1, <2>1, <2>2
    <3> QED  BY <1>1, <2>1, <2>2, <3>1, <3>2, <3>3, <3>4, <3>5 DEF Run
  <2>5. CASE flag[i] # {}
    <3> DEFINE l == bits_cl0_u8(Value(flag[i]))
               t == bits_ct0_u8(Value(flag[i]))
    <3>1. flag[i] \in SUBSET Bit
      BY <2>1 DEF Flags
    <3>2. l \in flag[i] /\ l \in 0 .. 7 /\ \A k \in flag[i] : l <= k
      BY <2>5, <3>1, LeadingZeros DEF Bit
    <3>3. 7 - t \in flag[i] /\ 7 - t \in 0 .. 7 /\ \A k \in flag[i] : k <= 7 - t
      BY <2>5, <3>1, TrailingZeros DEF Bit
    <3>4. Look(size, at) = IF e + l >= size THEN [i |-> i + 1, offset |-> o, empty |-> e + l]
                           ELSE [i |-> i + 1, offset |-> i * 8 + 8 - t, empty |-> t]
      BY <1>1, <1>3, <2>5 DEF Look
    <3>5. t \in 0 .. 7
      BY <3>3 DEF bits_ct0_u8
    <3> HIDE DEF l, t
    <3>6. 8 * i + l \in Used /\ 8 * i + (7 - t) \in Used
      BY <2>1, <3>2, <3>3, UnitsOfByte
    <3>7. ASSUME NEW k \in 0 .. 7, k < l \/ k > 7 - t PROVE 8 * i + k \notin Used
      <4>1. k \notin flag[i]
        BY <3>2, <3>3, <3>5, <3>7
      <4> QED  BY <2>1, <4>1, UnitsOfByte
    <3>8. CASE e + l >= size
      <4> DEFINE s == [i |-> i + 1, offset |-> o, empty |-> e + l]
      <4>1. Look(size, at) = s
        BY <3>4, <3>8
      <4>2. ASSUME NEW u \in o .. o + (e + l) - 1 PROVE u \notin Used
        <5>1. CASE u < 8 * i
          BY <1>1, <2>2, <5>1
        <5>2. CASE u >= 8 * i
          <6>1. u - 8 * i \in 0 .. 7 /\ u = 8 * i + (u - 8 * i) /\ u - 8 * i < l
            BY <1>1, <2>1, <2>2, <3>2, <5>2
          <6> QED  BY <3>7, <6>1
        <5> QED  BY <1>1, <2>1, <3>2, <5>1, <5>2
      <4>3. s \in [i : 0 .. SlotBytes, offset : Nat, empty : Nat]
        BY <1>1, <2>1, <3>2
      <4>4. o + (e + l) <= 8 * (i + 1) /\ ~(e + l < size)
        BY <1>1, <2>1, <2>2, <3>2, <3>8
      <4> QED  BY <4>1, <4>2, <4>3, <4>4 DEF Run
    <3>9. CASE ~(e + l >= size)
      <4> DEFINE o1 == i * 8 + 8 - t
                 s == [i |-> i + 1, offset |-> o1, empty |-> t]
      <4>1. Look(size, at) = s
        BY <3>4, <3>9
      <4>2. o1 \in Nat /\ o1 + t = 8 * (i + 1) /\ o1 - 1 = 8 * i + (7 - t)
        BY <1>1, <2>1, <3>5
      <4>3. ASSUME NEW u \in o1 .. o1 + t - 1 PROVE u \notin Used
        <5>1. u - 8 * i \in 0 .. 7 /\ u = 8 * i + (u - 8 * i) /\ u - 8 * i > 7 - t
          BY <1>1, <2>1, <3>5
        <5> QED  BY <3>7, <5>1
      <4>4. ASSUME t < size PROVE OnlyHoles(size, 8 * (i + 1))
        <5> SUFFICES ASSUME NEW r \in 0 .. 8 * (i + 1) - size, (r .. r + size - 1) \cap Used = {}
                     PROVE  Hole(r, size)
          BY DEF OnlyHoles
        <5>1. CASE r + size <= 8 * i
          <6>1. r \in 0 .. 8 * i - size
            BY <1>1, <2>1, <5>1
          <6> QED  BY <2>2, <6>1 DEF OnlyHoles
        <5>2. CASE r + size > 8 * i /\ r <= 8 * i
          <6>1. 8 * i + l \notin r .. r + size - 1
            BY <3>6
          <6>2. r + size <= 8 * i + l
            BY <1>1, <2>1, <3>2, <5>2, <6>1
          <6>3. r >= o
            BY <1>1, <2>1, <2>2, <2>3, <5>2
          <6> QED  BY <1>1, <2>1, <2>2, <3>2, <3>9, <6>2, <6>3
        <5>3. CASE r > 8 * i
          <6>1. 8 * i + (7 - t) \notin r .. r + size - 1
            BY <3>6
          <6>2. r + size < 8 * i + 8
            BY <1>1, <2>1, <3>5, <4>4, <5>3, <6>1
          <6>3. r - 8 * i \in 1 .. 7 /\ r = 8 * i + (r - 8 * i)
            BY <1>1, <2>1, <5>3, <6>2
          <6>4. r % 8 = r - 8 * i
            BY <1>1, <2>1, <6>3
          <6> QED  BY <1>1, <2>1, <6>2, <6>3, <6>4 DEF Hole
        <5> QED  BY <1>1, <2>1, <5>1, <5>2, <5>3
      <4>5. s \in [i : 0 .. SlotBytes, offset : Nat, empty : Nat]
        BY <2>1, <3>5, <4>2
      <4> HIDE DEF o1
      <4> QED  BY <3>6, <4>1, <4>2, <4>3, <4>4, <4>5 DEF Run
    <3> QED  BY <3>8, <3>9
  <2> QED  BY <2>4, <2>5
<1> QED  BY <1>2, <1>3

\* What the loop leaves: a run that is free and long enough, or the knowledge that
\* only holes are.
LEMMA ScanRuns ==
  ASSUME Flags, NEW size \in Nat \ {0}
  PROVE  /\ Run(size, Scan(size))
         /\ Scan(size).empty < size => OnlyHoles(size, SLOT_SIZE)
<1> DEFINE S == {at \in [i : 0 .. SlotBytes, offset : Nat, empty : Nat] : Run(size, at)}
           s0 == [i |-> 0, offset |-> 0, empty |-> 0]
           g == [at \in S |-> Look(size, at)]
           P(f) == f = [k \in Nat |-> IF k = 0 THEN s0 ELSE Look(size, f[k - 1])]
           f0 == CHOOSE f : P(f)
<1>1. SlotBytes \in Nat
  BY MemSlotAssumption
<1>2. s0 \in S
  <2>1. OnlyHoles(size, 8 * 0)
    BY DEF OnlyHoles
  <2>2. s0 \in [i : 0 .. SlotBytes, offset : Nat, empty : Nat]
    BY <1>1
  <2>3. \A u \in 0 .. 0 + 0 - 1 : u \notin Used
    OBVIOUS
  <2> QED  BY <2>1, <2>2, <2>3 DEF Run
<1>3. g \in [S -> S] /\ \A at \in S : g[at] = Look(size, at)
  <2>1. ASSUME NEW at \in S PROVE Look(size, at) \in S
    <3>1. Run(size, Look(size, at))
      BY LookRuns
    <3> QED  BY <3>1 DEF Run
  <2> QED  BY <2>1
<1>4. Scan(size) = f0[SlotBytes]
  BY DEF Scan
<1> HIDE DEF S, s0, g
<1>5. PICK w \in [Nat -> S] : Iterates(g, s0, w)
  BY <1>2, <1>3, IterateExists
<1>6. P(w)
  <2>1. w[0] = s0 /\ \A k \in Nat : w[k + 1] = Look(size, w[k])
    BY <1>3, <1>5 DEF Iterates
  <2>2. ASSUME NEW k \in Nat
        PROVE  w[k] = IF k = 0 THEN s0 ELSE Look(size, w[k - 1])
    <3>1. CASE k = 0
      BY <2>1, <3>1
    <3>2. CASE k # 0
      <4>1. k - 1 \in Nat /\ (k - 1) + 1 = k
        BY <3>2
      <4> QED  BY <2>1, <3>2, <4>1
    <3> QED  BY <3>1, <3>2
  <2> QED  BY <2>2
<1>7. P(f0)
  <2> HIDE DEF P
  <2> QED  BY <1>6
<1> HIDE DEF f0
<1>8. f0[0] = s0 /\ \A k \in Nat : f0[k + 1] = Look(size, f0[k])
  <2>1. ASSUME NEW k \in Nat PROVE f0[k + 1] = Look(size, f0[k])
    <3>1. k + 1 \in Nat /\ (k + 1) - 1 = k /\ k + 1 # 0
      OBVIOUS
    <3> QED  BY <1>7, <3>1
  <2> QED  BY <1>7, <2>1
<1> DEFINE T == {k \in Nat : k <= SlotBytes => f0[k] \in S /\ (f0[k].i = k \/ f0[k].empty >= size)}
<1>9. 0 \in T
  BY <1>2, <1>8 DEF s0
<1>10. ASSUME NEW k \in Nat, k \in T PROVE k + 1 \in T
  <2> SUFFICES ASSUME k + 1 <= SlotBytes
               PROVE  f0[k + 1] \in S /\ (f0[k + 1].i = k + 1 \/ f0[k + 1].empty >= size)
    OBVIOUS
  <2>1. f0[k] \in S /\ (f0[k].i = k \/ f0[k].empty >= size)
    BY <1>1, <1>10
  <2>2. f0[k + 1] = Look(size, f0[k]) /\ f0[k + 1] \in S
    BY <1>3, <1>8, <2>1
  <2>3. CASE f0[k].empty >= size
    BY <2>2, <2>3 DEF Look
  <2>4. CASE f0[k].i = k /\ ~(f0[k].empty >= size)
    <3>1. f0[k].i # SlotBytes
      BY <1>1, <2>4
    <3>2. f0[k + 1].i = k + 1
      BY <2>2, <2>4, <3>1 DEF Look
    <3> QED  BY <2>2, <3>2
  <2> QED  BY <2>1, <2>3, <2>4
<1>11. Nat \subseteq T
  <2> HIDE DEF T
  <2> QED  BY <1>9, <1>10, SetInduction
<1>12. f0[SlotBytes] \in S /\ (f0[SlotBytes].i = SlotBytes \/ f0[SlotBytes].empty >= size)
  BY <1>1, <1>11
<1>13. Run(size, Scan(size))
  BY <1>4, <1>12 DEF S
<1>14. ASSUME Scan(size).empty < size PROVE OnlyHoles(size, SLOT_SIZE)
  <2>1. Scan(size).empty \in Nat /\ ~(Scan(size).empty >= size)
    BY <1>13, <1>14 DEF Run
  <2>2. Scan(size).i = SlotBytes
    BY <1>4, <1>12, <2>1
  <2>3. OnlyHoles(size, 8 * SlotBytes)
    BY <1>13, <1>14, <2>2 DEF Run
  <2>4. SLOT_SIZE = 8 * SlotBytes
    BY <1>1 DEF SLOT_SIZE
  <2> QED  BY <2>3, <2>4
<1> QED  BY <1>13, <1>14

-----------------------------------------------------------------------------
(* The invariant.                                                          *)

\* the blocks that callers hold lie inside the map
InMap ==
  \A o \in DOMAIN granted : o \in Nat /\ granted[o] \in Nat \ {0} /\ o + granted[o] <= SLOT_SIZE

SlotInv == Flags /\ InMap /\ FlagsExact /\ OnlyHolesRefused

\* The units in use after a mark.
LEMMA UsedAfter ==
  ASSUME Flags, NEW offset \in Nat, NEW len \in Nat \ {0},
         NEW f, f = mark_used_flag(flag, offset, len) \/ f = mark_free_flag(flag, offset, len)
  PROVE  /\ f \in [0 .. SlotBytes - 1 -> SUBSET Bit]
         /\ \A u \in 0 .. SLOT_SIZE - 1 :
              u % 8 \in f[u \div 8] <=>
                IF f = mark_used_flag(flag, offset, len)
                THEN u \in Used \/ u \in offset .. offset + len - 1
                ELSE u \in Used /\ u \notin offset .. offset + len - 1
<1>1. DOMAIN flag = 0 .. SlotBytes - 1 /\ \A j \in 0 .. SlotBytes - 1 : flag[j] \in SUBSET Bit
  BY DEF Flags
<1>2. \A j : Mask(j, offset, len) \subseteq Bit
  BY DEF Mask, Bit
<1>3. f \in [0 .. SlotBytes - 1 -> SUBSET Bit]
  BY <1>1, <1>2 DEF mark_used_flag, mark_free_flag
<1>4. ASSUME NEW u \in 0 .. SLOT_SIZE - 1
      PROVE  u % 8 \in f[u \div 8] <=>
                IF f = mark_used_flag(flag, offset, len)
                THEN u \in Used \/ u \in offset .. offset + len - 1
                ELSE u \in Used /\ u \notin offset .. offset + len - 1
  <2>1. u \in Nat /\ u \div 8 \in 0 .. SlotBytes - 1
    BY MemSlotAssumption, Divide8 DEF SLOT_SIZE
  <2>2. u \in Used <=> u % 8 \in flag[u \div 8]
    BY DEF Used
  <2>3. u % 8 \in Mask(u \div 8, offset, len) <=> u \in offset .. offset + len - 1
    BY <2>1, MaskUnits
  <2>4. CASE f = mark_used_flag(flag, offset, len)
    <3>1. f[u \div 8] = flag[u \div 8] \cup Mask(u \div 8, offset, len)
      BY <1>1, <2>1, <2>4 DEF mark_used_flag
    <3> QED  BY <2>2, <2>3, <2>4, <3>1
  <2>5. CASE f # mark_used_flag(flag, offset, len)
    <3>1. f[u \div 8] = flag[u \div 8] \ Mask(u \div 8, offset, len)
      BY <1>1, <2>1, <2>5 DEF mark_free_flag
    <3> QED  BY <2>2, <2>3, <2>5, <3>1
  <2> QED  BY <2>4, <2>5
<1> QED  BY <1>3, <1>4

\* slot_alloc hands out units that are free, marks them and no others; when it
\* fails, every free run that is long enough is one it cannot see.
LEMMA SlotAlloc ==
  ASSUME SlotInv, NEW size \in 1 .. SLOT_SIZE, slot_alloc(size)
  PROVE  SlotInv'
<1> DEFINE run == Scan(size)
           b == run.offset
<1>1. SlotBytes \in Nat /\ SLOT_SIZE \in Nat /\ SLOT_SIZE = 8 * SlotBytes /\ size \in Nat \ {0}
  BY MemSlotAssumption DEF SLOT_SIZE
<1>2. Flags /\ InMap /\ FlagsExact /\ OnlyHolesRefused
  BY DEF SlotInv
<1>3. Run(size, run) /\ (run.empty < size => OnlyHoles(size, SLOT_SIZE))
  BY <1>1, <1>2, ScanRuns
<1>4. run.i \in 0 .. SlotBytes /\ b \in Nat /\ run.empty \in Nat
      /\ b + run.empty <= 8 * run.i /\ \A u \in b .. b + run.empty - 1 : u \notin Used
  BY <1>3 DEF Run
<1>5. slot_alloc(size) =
        /\ Cardinality(DOMAIN granted) < MaxHeld
        /\ IF run.empty >= size
           THEN /\ flag' = mark_used_flag(flag, b, size)
                /\ granted' = [o \in DOMAIN granted \cup {b} |->
                                 IF o = b THEN size ELSE granted[o]]
                /\ result' = <<size, b>>
           ELSE result' = <<size, -1>> /\ UNCHANGED <<flag, granted>>
  BY DEF slot_alloc
<1> HIDE DEF run, b
<1>6. CASE run.empty >= size
  <2>1. /\ flag' = mark_used_flag(flag, b, size)
        /\ granted' = [o \in DOMAIN granted \cup {b} |-> IF o = b THEN size ELSE granted[o]]
        /\ result' = <<size, b>>
    BY <1>5, <1>6
  <2>2. b + size <= SLOT_SIZE /\ \A u \in b .. b + size - 1 : u \notin Used
    BY <1>1, <1>4, <1>6
  <2>3. DOMAIN granted' = DOMAIN granted \cup {b} /\ granted'[b] = size
        /\ \A o \in DOMAIN granted : o # b => granted'[o] = granted[o]
    BY <2>1
  <2>4. \A u \in 0 .. SLOT_SIZE - 1 : u \in Used <=> \E o \in DOMAIN granted : u \in SlotsOf(o)
    BY <1>2 DEF FlagsExact
  <2>5. ASSUME NEW o \in DOMAIN granted
        PROVE  o # b /\ o \in Nat /\ granted[o] \in Nat \ {0} /\ o + granted[o] <= SLOT_SIZE
               /\ (o + granted[o] <= b \/ b + size <= o)
    <3>1. o \in Nat /\ granted[o] \in Nat \ {0} /\ o + granted[o] <= SLOT_SIZE
      BY <1>2 DEF InMap
    <3>2. \A u \in o .. o + granted[o] - 1 : u \in Used
      <4> SUFFICES ASSUME NEW u \in o .. o + granted[o] - 1 PROVE u \in Used
        OBVIOUS
      <4>1. u \in 0 .. SLOT_SIZE - 1 /\ u \in SlotsOf(o)
        BY <1>1, <3>1 DEF SlotsOf
      <4> QED  BY <2>4, <4>1
    <3>3. o \notin b .. b + size - 1 /\ b \notin o .. o + granted[o] - 1
      BY <1>1, <1>4, <2>2, <3>1, <3>2
    <3> QED  BY <1>1, <1>4, <3>1, <3>3
  <2>6. flag' \in [0 .. SlotBytes - 1 -> SUBSET Bit]
        /\ \A u \in 0 .. SLOT_SIZE - 1 :
             u % 8 \in flag'[u \div 8] <=> u \in Used \/ u \in b .. b + size - 1
    BY <1>1, <1>2, <1>4, <2>1, UsedAfter
  <2>7. Flags'
    BY <2>6 DEF Flags
  <2>8. InMap'
    BY <1>1, <1>4, <2>2, <2>3, <2>5 DEF InMap, SLOT_SIZE
  <2>9. FlagsExact'
    <3>1. ASSUME NEW u PROVE u \in Used' <=> \E o \in DOMAIN granted' : u \in o .. o + granted'[o] - 1
      <4>1. u \in Used' <=> u \in 0 .. SLOT_SIZE - 1 /\ (u \in Used \/ u \in b .. b + size - 1)
        BY <2>6 DEF Used, SLOT_SIZE
      <4>2. u \in Used <=> \E o \in DOMAIN granted : u \in o .. o + granted[o] - 1
        BY <1>2 DEF FlagsExact, SlotsOf
      <4>3. u \in Used => u \in 0 .. SLOT_SIZE - 1
        BY DEF Used
      <4>4. u \in b .. b + size - 1 => u \in 0 .. SLOT_SIZE - 1
        BY <1>1, <1>4, <2>2
      <4>5. (\E o \in DOMAIN granted' : u \in o .. o + granted'[o] - 1) <=>
              (u \in b .. b + size - 1 \/ \E o \in DOMAIN granted : u \in o .. o + granted[o] - 1)
        BY <2>3, <2>5
      <4> QED  BY <4>1, <4>2, <4>3, <4>4, <4>5
    <3>2. Used' = UNION {o .. o + granted'[o] - 1 : o \in DOMAIN granted'}
      BY <3>1
    <3>3. ASSUME NEW o \in DOMAIN granted', NEW q \in DOMAIN granted', o < q
          PROVE  o + granted'[o] <= q
      <4>1. CASE o # b /\ q # b
        BY <1>2, <2>3, <3>3, <4>1 DEF FlagsExact
      <4>2. CASE o = b /\ q # b
        <5>1. q \in DOMAIN granted
          BY <2>3, <4>2
        <5>2. q \in Nat /\ granted[q] \in Nat \ {0} /\ (q + granted[q] <= b \/ b + size <= q)
          BY <2>5, <5>1
        <5> QED  BY <1>1, <1>4, <2>3, <3>3, <4>2, <5>2
      <4>3. CASE o # b /\ q = b
        <5>1. o \in DOMAIN granted
          BY <2>3, <4>3
        <5>2. o \in Nat /\ granted[o] \in Nat \ {0} /\ (o + granted[o] <= b \/ b + size <= o)
          BY <2>5, <5>1
        <5> QED  BY <1>1, <1>4, <2>3, <3>3, <4>3, <5>1, <5>2
      <4>4. CASE o = b /\ q = b
        BY <1>4, <3>3, <4>4
      <4> QED  BY <4>1, <4>2, <4>3, <4>4
    <3> QED  BY <3>2, <3>3 DEF FlagsExact, SlotsOf
  <2>10. OnlyHolesRefused'
    BY <1>4, <2>1 DEF OnlyHolesRefused
  <2> QED  BY <2>7, <2>8, <2>9, <2>10 DEF SlotInv
<1>7. CASE ~(run.empty >= size)
  <2>1. result' = <<size, -1>> /\ flag' = flag /\ granted' = granted
    BY <1>5, <1>7
  <2>2. OnlyHoles(size, SLOT_SIZE)
    BY <1>1, <1>3, <1>4, <1>7
  <2>3. Used' = Used
    BY <2>1 DEF Used, SLOT_SIZE
  <2>4. OnlyHolesRefused'
    BY <2>1, <2>2, <2>3 DEF OnlyHolesRefused, OnlyHoles, Hole, SLOT_SIZE
  <2>5. Flags' /\ InMap' /\ FlagsExact'
    BY <1>2, <2>1, <2>3 DEF Flags, InMap, FlagsExact, SlotsOf, SLOT_SIZE
  <2> QED  BY <2>4, <2>5 DEF SlotInv
<1> QED  BY <1>6, <1>7

\* slot_free clears the marks of the block and no others.
LEMMA SlotFree ==
  ASSUME SlotInv, NEW b \in 0 .. SLOT_SIZE - 1, slot_free(b)
  PROVE  SlotInv'
<1> DEFINE len == granted[b]
<1>1. SlotBytes \in Nat /\ SLOT_SIZE \in Nat
  BY MemSlotAssumption DEF SLOT_SIZE
<1>2. Flags /\ InMap /\ FlagsExact
  BY DEF SlotInv
<1>3. /\ b \in DOMAIN granted /\ flag' = mark_free_flag(flag, b, len)
      /\ granted' = [o \in DOMAIN granted \ {b} |-> granted[o]] /\ result' = <<0, 0>>
  BY DEF slot_free
<1>4. b \in Nat /\ len \in Nat \ {0} /\ b + len <= SLOT_SIZE
  BY <1>2, <1>3 DEF InMap
<1>5. DOMAIN granted' = DOMAIN granted \ {b} /\ \A o \in DOMAIN granted' : granted'[o] = granted[o]
  BY <1>3
<1> HIDE DEF len
<1>6. \A u \in 0 .. SLOT_SIZE - 1 : u \in Used <=> \E o \in DOMAIN granted : u \in o .. o + granted[o] - 1
  BY <1>2 DEF FlagsExact, SlotsOf
<1>7. \A u \in b .. b + len - 1 : u \in Used
  <2> SUFFICES ASSUME NEW u \in b .. b + len - 1 PROVE u \in Used
    OBVIOUS
  <2>1. u \in 0 .. SLOT_SIZE - 1
    BY <1>1, <1>4
  <2> QED  BY <1>3, <1>6, <2>1 DEF len
<1>8. mark_free_flag(flag, b, len) # mark_used_flag(flag, b, len)
  <2> SUFFICES ASSUME mark_free_flag(flag, b, len) = mark_used_flag(flag, b, len) PROVE FALSE
    OBVIOUS
  <2>1. b % 8 \in Mask(b \div 8, b, len) /\ b \div 8 \in 0 .. SlotBytes - 1
    BY <1>1, <1>4, MaskUnits, Divide8, MemSlotAssumption DEF SLOT_SIZE
  <2> QED  BY <1>2, <2>1 DEF mark_free_flag, mark_used_flag, Flags
<1>9. flag' \in [0 .. SlotBytes - 1 -> SUBSET Bit]
      /\ \A u \in 0 .. SLOT_SIZE - 1 :
           u % 8 \in flag'[u \div 8] <=> u \in Used /\ u \notin b .. b + len - 1
  BY <1>2, <1>3, <1>4, <1>8, UsedAfter
<1>10. Flags' /\ InMap'
  BY <1>2, <1>5, <1>9 DEF Flags, InMap, SLOT_SIZE
<1>11. FlagsExact'
  <2>1. ASSUME NEW u PROVE u \in Used' <=> \E o \in DOMAIN granted' : u \in o .. o + granted'[o] - 1
    <3>1. u \in Used' <=> u \in 0 .. SLOT_SIZE - 1 /\ u \in Used /\ u \notin b .. b + len - 1
      BY <1>9 DEF Used, SLOT_SIZE
    <3>2. u \in Used <=> \E o \in DOMAIN granted : u \in o .. o + granted[o] - 1
      BY <1>2 DEF FlagsExact, SlotsOf
    <3>3. u \in Used => u \in 0 .. SLOT_SIZE - 1
      BY DEF Used
    <3>4. ASSUME NEW o \in DOMAIN granted, o # b, u \in o .. o + granted[o] - 1
          PROVE  u \notin b .. b + len - 1
      <4>1. o \in Nat /\ granted[o] \in Nat \ {0}
        BY <1>2 DEF InMap
      <4>2. o < b => o + granted[o] <= b
        BY <1>2, <1>3 DEF FlagsExact
      <4>3. b < o => b + len <= o
        BY <1>2, <1>3 DEF FlagsExact, len
      <4> QED  BY <1>4, <3>4, <4>1, <4>2, <4>3
    <3>5. (\E o \in DOMAIN granted' : u \in o .. o + granted'[o] - 1) <=>
            (\E o \in DOMAIN granted : o # b /\ u \in o .. o + granted[o] - 1)
      BY <1>5
    <3>6. u \in b .. b + len - 1 <=> u \in b .. b + granted[b] - 1
      BY DEF len
    <3> QED  BY <3>1, <3>2, <3>3, <3>4, <3>5, <3>6
  <2>2. Used' = UNION {o .. o + granted'[o] - 1 : o \in DOMAIN granted'}
    BY <2>1
  <2>3. \A o, q \in DOMAIN granted' : o < q => o + granted'[o] <= q
    BY <1>2, <1>5 DEF FlagsExact
  <2> QED  BY <2>2, <2>3 DEF FlagsExact, SlotsOf
<1>12. OnlyHolesRefused'
  BY <1>3 DEF OnlyHolesRefused
<1> QED  BY <1>10, <1>11, <1>12 DEF SlotInv

\* slot_new: nothing is marked and nothing granted.
LEMMA SlotStart == slot_new => SlotInv
<1> SUFFICES ASSUME slot_new PROVE SlotInv
  OBVIOUS
<1>1. /\ flag = [i \in 0 .. SlotBytes - 1 |-> {}] /\ granted = << >> /\ result = <<0, 0>>
      /\ DOMAIN granted = {}
  BY DEF slot_new
<1>2. Used = {}
  <2>1. ASSUME NEW u \in 0 .. SLOT_SIZE - 1 PROVE flag[u \div 8] = {}
    <3>1. u \div 8 \in 0 .. SlotBytes - 1
      BY MemSlotAssumption, Divide8 DEF SLOT_SIZE
    <3> QED  BY <1>1, <3>1
  <2> QED  BY <2>1 DEF Used
<1>3. Flags /\ InMap /\ FlagsExact
  BY <1>1, <1>2 DEF Flags, InMap, FlagsExact
<1>4. OnlyHolesRefused
  BY <1>1 DEF OnlyHolesRefused
<1> QED  BY <1>3, <1>4 DEF SlotInv

\* Every allocation and every release keeps the invariant.
LEMMA SlotStep == SlotInv /\ [SlotNext]_slotVars => SlotInv'
<1> SUFFICES ASSUME SlotInv, [SlotNext]_slotVars PROVE SlotInv'
  OBVIOUS
<1>1. ASSUME NEW size \in 1 .. SLOT_SIZE, slot_alloc(size) PROVE SlotInv'
  BY <1>1, SlotAlloc
<1>2. ASSUME NEW offset \in 0 .. SLOT_SIZE - 1, slot_free(offset) PROVE SlotInv'
  BY <1>2, SlotFree
<1>3. CASE UNCHANGED slotVars
  BY <1>3 DEF slotVars, SlotInv, Flags, InMap, FlagsExact, OnlyHolesRefused, Used, SlotsOf,
              SLOT_SIZE
<1> QED  BY <1>1, <1>2, <1>3 DEF SlotNext

\* Whatever is allocated and freed, in whatever order: the granted blocks are inside
\* the map and apart, and the bitmap marks their units and no others.
THEOREM MemSlotInvariant == SlotSpec => []SlotInv
  BY SlotStart, SlotStep, PTL DEF SlotSpec

\* The bits that mark_used_flag sets and mark_free_flag clears are those of the
\* blocks held, over byte boundaries and up to the last unit.
THEOREM BitmapExact == SlotSpec => []FlagsExact
<1>1. SlotInv => FlagsExact
  BY DEF SlotInv
<1> QED  BY <1>1, MemSlotInvariant, PTL

\* slot_alloc refuses a request only when every free run that is long enough begins
\* and ends inside one byte without touching its ends.
THEOREM RunsFound == SlotSpec => []OnlyHolesRefused
<1>1. SlotInv => OnlyHolesRefused
  BY DEF SlotInv
<1> QED  BY <1>1, MemSlotInvariant, PTL

-----------------------------------------------------------------------------
(* MemBuddy                                                                *)

-----------------------------------------------------------------------------
(* Powers of two.                                                          *)

\* The powers of two of the tree.
LEMMA Literals ==
  shl(0) = 1 /\ shl(1) = 2 /\ shl(2) = 4 /\ shl(3) = 8 /\ shl(4) = 16 /\ shl(5) = 32
  /\ shl(6) = 64 /\ shl(7) = 128 /\ shl(8) = 256
  BY DEF shl

\* A shift by one more doubles.
LEMMA Doubles ==
  ASSUME NEW k \in 0 .. 7
  PROVE  /\ shl(k + 1) = 2 * shl(k) /\ shl(k + 1) \in Nat
         /\ shl(k) \in {1, 2, 4, 8, 16, 32, 64, 128} /\ shl(k) \in Nat \ {0}
<1>1. k = 0 \/ k = 1 \/ k = 2 \/ k = 3 \/ k = 4 \/ k = 5 \/ k = 6 \/ k = 7
  OBVIOUS
<1> QED  BY <1>1, Literals

\* Shifts keep the order.
LEMMA Grows ==
  ASSUME NEW a \in 0 .. 8, NEW b \in 0 .. 8
  PROVE  /\ shl(a) \in Nat \ {0}
         /\ a < b => 2 * shl(a) <= shl(b)
         /\ shl(a) = shl(b) => a = b
         /\ a < b <=> shl(a) < shl(b)
<1>1. a = 0 \/ a = 1 \/ a = 2 \/ a = 3 \/ a = 4 \/ a = 5 \/ a = 6 \/ a = 7 \/ a = 8
  OBVIOUS
<1>2. b = 0 \/ b = 1 \/ b = 2 \/ b = 3 \/ b = 4 \/ b = 5 \/ b = 6 \/ b = 7 \/ b = 8
  OBVIOUS
<1> QED  BY <1>1, <1>2, Literals

\* Shifts add up.
LEMMA Product ==
  ASSUME NEW a \in 0 .. 7, NEW b \in 0 .. 7, a <= b
  PROVE  shl(a) * shl(b - a) = shl(b)
<1>1. b = 0 \/ b = 1 \/ b = 2 \/ b = 3 \/ b = 4 \/ b = 5 \/ b = 6 \/ b = 7
  OBVIOUS
<1>2. a = 0 \/ a = 1 \/ a = 2 \/ a = 3 \/ a = 4 \/ a = 5 \/ a = 6 \/ a = 7
  OBVIOUS
<1> QED  BY <1>1, <1>2, Literals

-----------------------------------------------------------------------------
(* The tree of the nodes.                                                  *)

Full(i) == logn - Depth(i) + 1
SizeOf(i) == shl(logn - Depth(i))
First(i) == (i + 1) * SizeOf(i) - BUDDY_SIZE
Inner(i) == i < BUDDY_SIZE - 1

\* The size of the range and of the tree.
LEMMA Sizes ==
  /\ logn \in 0 .. 7 /\ BUDDY_SIZE \in {1, 2, 4, 8, 16, 32, 64, 128}
  /\ Index = 0 .. 2 * BUDDY_SIZE - 2 /\ shl(logn + 1) = 2 * BUDDY_SIZE /\ 0 \in Index
<1>1. logn \in 0 .. 7
  BY MemBuddyAssumption
<1>2. BUDDY_SIZE \in {1, 2, 4, 8, 16, 32, 64, 128} /\ shl(logn + 1) = 2 * BUDDY_SIZE
  BY <1>1, Doubles DEF BUDDY_SIZE
<1>3. Index = 0 .. 2 * BUDDY_SIZE - 2
  BY DEF Index
<1>4. 0 \in Index
  BY <1>2, <1>3
<1> QED  BY <1>1, <1>2, <1>3, <1>4

\* The depth of a node is where its index lies between the powers of two.
LEMMA DepthExists ==
  ASSUME NEW i \in Index
  PROVE  /\ Depth(i) \in 0 .. logn
         /\ shl(Depth(i)) <= i + 1 /\ i + 1 < shl(Depth(i) + 1)
<1> DEFINE D == {k \in 0 .. logn : shl(k) <= i + 1}
<1>0. logn \in 0 .. 7 /\ i \in Nat /\ i + 1 < shl(logn + 1)
  BY Sizes
<1>1. 0 \in D
  BY <1>0, Literals
<1>2. ASSUME \E x \in D : \A y \in D : x >= y
      PROVE  Depth(i) \in D /\ \A y \in D : Depth(i) >= y
  BY <1>2 DEF Depth, Max
<1>3. \E x \in D : \A y \in D : x >= y
  <2> DEFINE M == {k \in Nat : \A y \in D : k >= y}
  <2>1. logn \in M
    BY <1>0
  <2>2. PICK m \in M : \A y \in M : m <= y
    <3> HIDE DEF M
    <3>1. M \in SUBSET Nat /\ M # {}
      BY <2>1 DEF M
    <3> QED  BY <3>1, LeastExists
  <2>3. CASE m \in D
    BY <2>3
  <2>4. CASE m \notin D
    <3>1. m # 0 /\ m - 1 \in Nat
      BY <1>1, <2>4
    <3>2. \A y \in D : y \in Nat /\ m >= y /\ m # y
      BY <1>0, <2>4
    <3>3. \A y \in D : m - 1 >= y
      BY <3>1, <3>2
    <3>4. m - 1 \in M
      BY <3>1, <3>3
    <3> QED  BY <2>2, <3>1, <3>4
  <2> QED  BY <2>3, <2>4
<1>4. Depth(i) \in D /\ \A y \in D : Depth(i) >= y
  BY <1>2, <1>3
<1> HIDE DEF D
<1>5. Depth(i) \in 0 .. logn /\ shl(Depth(i)) <= i + 1
  BY <1>4 DEF D
<1>6. i + 1 < shl(Depth(i) + 1)
  <2>1. CASE Depth(i) = logn
    BY <1>0, <2>1
  <2>2. CASE Depth(i) # logn
    <3>1. Depth(i) + 1 \in 0 .. logn /\ Depth(i) + 1 \in 0 .. 8
      BY <1>0, <1>5, <2>2
    <3>2. Depth(i) + 1 \notin D
      BY <1>0, <1>4, <1>5, <3>1
    <3>3. ~(shl(Depth(i) + 1) <= i + 1) /\ shl(Depth(i) + 1) \in Nat
      BY <3>1, <3>2, Grows DEF D
    <3> QED  BY <1>0, <3>3
  <2> QED  BY <2>1, <2>2
<1> QED  BY <1>5, <1>6

\* There is no other such depth.
LEMMA DepthIs ==
  ASSUME NEW i \in Index, NEW d \in 0 .. logn, shl(d) <= i + 1, i + 1 < shl(d + 1)
  PROVE  Depth(i) = d
<1> DEFINE e == Depth(i)
<1>1. logn \in 0 .. 7 /\ i \in Nat /\ e \in 0 .. logn /\ shl(e) <= i + 1 /\ i + 1 < shl(e + 1)
  BY Sizes, DepthExists
<1> HIDE DEF e
<1>2. d \in 0 .. 8 /\ d + 1 \in 0 .. 8 /\ e \in 0 .. 8 /\ e + 1 \in 0 .. 8
  BY <1>1
<1>3. shl(e) \in Nat /\ shl(d) \in Nat /\ shl(e + 1) \in Nat /\ shl(d + 1) \in Nat
  BY <1>2, Grows
<1>4. shl(e) < shl(d + 1) /\ shl(d) < shl(e + 1)
  BY <1>1, <1>3
<1>5. e < d + 1 /\ d < e + 1
  BY <1>2, <1>4, Grows
<1>6. e = d
  BY <1>1, <1>5
<1> QED  BY <1>6 DEF e

\* A node: its depth, its size, and the units it stands for, all inside the range.
LEMMA NodeFacts ==
  ASSUME NEW i \in Index
  PROVE  /\ i \in Nat /\ Depth(i) \in 0 .. logn /\ Full(i) \in 1 .. logn + 1
         /\ SizeOf(i) \in {1, 2, 4, 8, 16, 32, 64, 128} /\ SizeOf(i) \in Nat \ {0}
         /\ First(i) \in 0 .. BUDDY_SIZE - 1 /\ First(i) + SizeOf(i) <= BUDDY_SIZE
         /\ UnitsOf(i) = First(i) .. First(i) + SizeOf(i) - 1
         /\ Inner(i) <=> Depth(i) # logn
         /\ ~Inner(i) => SizeOf(i) = 1 /\ First(i) = i + 1 - BUDDY_SIZE
<1> DEFINE d == Depth(i)
           m == SizeOf(i)
           N == BUDDY_SIZE
<1>1. logn \in 0 .. 7 /\ i \in Nat /\ d \in 0 .. logn /\ shl(d) <= i + 1 /\ i + 1 < shl(d + 1)
      /\ N \in {1, 2, 4, 8, 16, 32, 64, 128}
  BY Sizes, DepthExists
<1>2. d \in 0 .. 7 /\ logn - d \in 0 .. 7
  BY <1>1
<1>3. m \in {1, 2, 4, 8, 16, 32, 64, 128} /\ shl(d + 1) = 2 * shl(d) /\ shl(d) \in Nat
  BY <1>2, Doubles DEF SizeOf
<1>4. shl(d) * m = N
  BY <1>1, <1>2, Product DEF SizeOf, BUDDY_SIZE
<1>5. Full(i) \in 1 .. logn + 1
  <2>1. Full(i) = logn - d + 1
    BY DEF Full
  <2> HIDE DEF d
  <2> QED  BY <1>1, <2>1
<1>6. Inner(i) <=> d # logn
  <2>1. N = shl(logn) /\ logn \in 0 .. 8 /\ d \in 0 .. 8 /\ d + 1 \in 0 .. 8
    BY <1>1, <1>2 DEF BUDDY_SIZE
  <2>2. CASE d = logn
    BY <1>1, <2>1, <2>2 DEF Inner
  <2>3. CASE d # logn
    <3>1. 2 * shl(d) <= shl(logn)
      BY <1>1, <2>1, <2>3, Grows
    <3>2. i + 1 < N
      BY <1>1, <1>3, <2>1, <3>1
    <3> QED  BY <1>1, <2>3, <3>2 DEF Inner
  <2> QED  BY <2>2, <2>3
<1>7. ~Inner(i) => m = 1
  BY <1>1, <1>6, Literals DEF SizeOf
<1>8. UnitsOf(i) = First(i) .. First(i) + m - 1
  BY DEF UnitsOf, First, SizeOf
<1>9. First(i) = (i + 1) * m - N
  BY DEF First
<1> HIDE DEF d, m, N
<1> DEFINE p2 == shl(d)
<1>10. p2 <= i + 1 /\ i + 1 < 2 * p2 /\ p2 * m = N /\ p2 \in Nat
  BY <1>1, <1>3, <1>4
<1> HIDE DEF p2
<1>11. (i + 1) * m >= N /\ (i + 1) * m + m <= 2 * N
  BY <1>1, <1>3, <1>10
<1>12. First(i) \in 0 .. N - 1 /\ First(i) + m <= N
  BY <1>1, <1>3, <1>9, <1>11
<1>13. ~Inner(i) => First(i) = i + 1 - N
  BY <1>1, <1>7, <1>9
<1>14. i \in Nat /\ Depth(i) \in 0 .. logn
  BY <1>1 DEF d
<1>15. SizeOf(i) \in {1, 2, 4, 8, 16, 32, 64, 128} /\ SizeOf(i) \in Nat \ {0}
  BY <1>3 DEF m
<1>16. First(i) \in 0 .. BUDDY_SIZE - 1 /\ First(i) + SizeOf(i) <= BUDDY_SIZE
  BY <1>12 DEF m, N
<1>17. UnitsOf(i) = First(i) .. First(i) + SizeOf(i) - 1
  BY <1>8 DEF m
<1>18. Inner(i) <=> Depth(i) # logn
  BY <1>6 DEF d
<1>19. ~Inner(i) => SizeOf(i) = 1 /\ First(i) = i + 1 - BUDDY_SIZE
  BY <1>7, <1>13 DEF m, N
<1> QED  BY <1>5, <1>14, <1>15, <1>16, <1>17, <1>18, <1>19

\* The depth and the whole entry of a node are numbers.
LEMMA NodeTypes ==
  ASSUME NEW i \in Index
  PROVE  Full(i) \in Nat \ {0} /\ Depth(i) \in Nat /\ logn \in Nat
<1>1. logn \in Nat
  BY Sizes
<1>2. Full(i) \in 1 .. logn + 1 /\ Depth(i) \in 0 .. logn
  BY NodeFacts
<1> QED  BY <1>1, <1>2

\* A node is divided between its two sons.
LEMMA Sons ==
  ASSUME NEW i \in Index, Inner(i)
  PROVE  /\ LEFT_CHILD(i) \in Index /\ RIGHT_CHILD(i) \in Index
         /\ PARENT(LEFT_CHILD(i)) = i /\ PARENT(RIGHT_CHILD(i)) = i
         /\ LEFT_CHILD(i) # 0 /\ RIGHT_CHILD(i) # 0 /\ LEFT_CHILD(i) # RIGHT_CHILD(i)
         /\ Depth(LEFT_CHILD(i)) = Depth(i) + 1 /\ Depth(RIGHT_CHILD(i)) = Depth(i) + 1
         /\ Full(LEFT_CHILD(i)) = Full(i) - 1 /\ Full(RIGHT_CHILD(i)) = Full(i) - 1
         /\ UnitsOf(i) = UnitsOf(LEFT_CHILD(i)) \cup UnitsOf(RIGHT_CHILD(i))
         /\ SizeOf(i) = 2 * SizeOf(LEFT_CHILD(i)) /\ SizeOf(RIGHT_CHILD(i)) = SizeOf(LEFT_CHILD(i))
<1> DEFINE l == LEFT_CHILD(i)
           r == RIGHT_CHILD(i)
           d == Depth(i)
           N == BUDDY_SIZE
<1>1. logn \in 0 .. 7 /\ i \in Nat /\ d \in 0 .. logn /\ d # logn
      /\ N \in {1, 2, 4, 8, 16, 32, 64, 128} /\ Index = 0 .. 2 * N - 2 /\ i < N - 1
  BY Sizes, NodeFacts DEF Inner
<1>2. l = 2 * i + 1 /\ r = 2 * i + 2
  BY DEF LEFT_CHILD, RIGHT_CHILD
<1>3. l \in Index /\ r \in Index /\ l # 0 /\ r # 0 /\ l # r
  BY <1>1, <1>2
<1>4. PARENT(l) = i /\ PARENT(r) = i
  BY <1>1, <1>2 DEF PARENT
<1>5. shl(d) <= i + 1 /\ i + 1 < shl(d + 1)
  BY DepthExists
<1>6. d \in 0 .. 7 /\ d + 1 \in 0 .. 7 /\ d + 1 \in 0 .. logn /\ (d + 1) + 1 = d + 2
      /\ logn - d \in 0 .. 7 /\ logn - (d + 1) \in 0 .. 7 /\ (logn - (d + 1)) + 1 = logn - d
  <2> HIDE DEF d
  <2> QED  BY <1>1
<1>7. shl(d + 1) = 2 * shl(d) /\ shl(d + 2) = 2 * shl(d + 1) /\ shl(d) \in Nat
      /\ shl(logn - d) = 2 * shl(logn - (d + 1))
  BY <1>6, Doubles
<1>8. /\ shl(d + 1) <= l + 1 /\ l + 1 < shl((d + 1) + 1)
      /\ shl(d + 1) <= r + 1 /\ r + 1 < shl((d + 1) + 1)
  <2> HIDE DEF d, l, r
  <2> QED  BY <1>1, <1>2, <1>5, <1>6, <1>7
<1>9. Depth(l) = d + 1 /\ Depth(r) = d + 1
  BY <1>3, <1>6, <1>8, DepthIs
<1>10. Full(l) = Full(i) - 1 /\ Full(r) = Full(i) - 1
  BY <1>1, <1>9 DEF Full
<1>11. SizeOf(i) = 2 * SizeOf(l) /\ SizeOf(r) = SizeOf(l)
  BY <1>7, <1>9 DEF SizeOf
<1>12. UnitsOf(i) = UnitsOf(l) \cup UnitsOf(r)
  <2> DEFINE m == SizeOf(l)
  <2>1. /\ UnitsOf(i) = First(i) .. First(i) + SizeOf(i) - 1 /\ m \in {1, 2, 4, 8, 16, 32, 64, 128}
        /\ UnitsOf(l) = First(l) .. First(l) + m - 1
        /\ UnitsOf(r) = First(r) .. First(r) + SizeOf(r) - 1
    BY <1>3, NodeFacts
  <2>2. First(i) = (i + 1) * (2 * m) - N /\ First(l) = (l + 1) * m - N /\ First(r) = (r + 1) * m - N
    BY <1>11 DEF First
  <2> HIDE DEF m, l, r, N
  <2>3. First(l) = First(i) /\ First(r) = First(i) + m /\ First(i) \in Int
    BY <1>1, <1>2, <2>1, <2>2
  <2> QED  BY <1>11, <2>1, <2>3 DEF m
<1> QED  BY <1>3, <1>4, <1>9, <1>10, <1>11, <1>12

\* A node is a son of its parent.
LEMMA Parents ==
  ASSUME NEW i \in Index, i # 0
  PROVE  /\ PARENT(i) \in Index /\ Inner(PARENT(i)) /\ PARENT(i) # i
         /\ i = LEFT_CHILD(PARENT(i)) \/ i = RIGHT_CHILD(PARENT(i))
         /\ Depth(i) = Depth(PARENT(i)) + 1 /\ UnitsOf(i) \subseteq UnitsOf(PARENT(i))
<1> DEFINE q == PARENT(i)
<1>1. i \in Nat /\ BUDDY_SIZE \in {1, 2, 4, 8, 16, 32, 64, 128} /\ Index = 0 .. 2 * BUDDY_SIZE - 2
  BY Sizes
<1>2. q \in Nat /\ (i = 2 * q + 1 \/ i = 2 * q + 2)
  BY <1>1 DEF PARENT
<1>3. q \in Index /\ Inner(q) /\ q # i
  BY <1>1, <1>2 DEF Inner
<1>4. i = LEFT_CHILD(q) \/ i = RIGHT_CHILD(q)
  BY <1>2 DEF LEFT_CHILD, RIGHT_CHILD
<1> HIDE DEF q
<1>5. Depth(i) = Depth(q) + 1 /\ UnitsOf(i) \subseteq UnitsOf(q)
  BY <1>3, <1>4, Sons
<1> QED  BY <1>3, <1>4, <1>5 DEF q

\* Two nodes of a depth that have a unit in common are one.
LEMMA SameDepth ==
  ASSUME NEW i \in Index, NEW j \in Index, Depth(i) = Depth(j),
         NEW u, u \in UnitsOf(i), u \in UnitsOf(j)
  PROVE  i = j
<1> DEFINE m == SizeOf(i)
<1>1. m = SizeOf(j) /\ i \in Nat /\ j \in Nat /\ m \in {1, 2, 4, 8, 16, 32, 64, 128}
      /\ BUDDY_SIZE \in Nat
  BY Sizes, NodeFacts DEF SizeOf
<1>2. /\ UnitsOf(i) = First(i) .. First(i) + m - 1
      /\ UnitsOf(j) = First(j) .. First(j) + m - 1
      /\ First(i) \in Nat /\ First(j) \in Nat
  BY <1>1, NodeFacts
<1>3. First(i) = (i + 1) * m - BUDDY_SIZE /\ First(j) = (j + 1) * m - BUDDY_SIZE
  BY <1>1 DEF First
<1> HIDE DEF m
<1>4. First(i) <= u /\ u < First(i) + m /\ First(j) <= u /\ u < First(j) + m /\ u \in Int
  BY <1>1, <1>2
<1> DEFINE x == (i + 1) * m
           y == (j + 1) * m
<1>5. x < y + m /\ y < x + m
  <2>1. x \in Nat /\ y \in Nat
    BY <1>1
  <2>2. First(i) = x - BUDDY_SIZE /\ First(j) = y - BUDDY_SIZE
    BY <1>3
  <2> HIDE DEF x, y
  <2> QED  BY <1>1, <1>4, <2>1, <2>2
<1> QED  BY <1>1, <1>5

\* A size asked for is rounded up to a power of two of the tree.
LEMMA RoundedUp ==
  ASSUME NEW size \in 1 .. BUDDY_SIZE
  PROVE  /\ \E k \in 0 .. logn : Units(size) = shl(k)
         /\ Units(size) \in Nat \ {0} /\ Units(size) >= size
<1>1. logn \in 0 .. 7 /\ BUDDY_SIZE \in Nat /\ size \in Nat \ {0} /\ BUDDY_SIZE = shl(logn)
  BY Sizes DEF BUDDY_SIZE
<1>2. \A k \in 0 .. logn + 1 : k \in 0 .. 8 /\ shl(k) \in Nat \ {0}
  BY <1>1, Grows
<1>3. CASE \E k \in 0 .. logn : size = shl(k)
  BY <1>1, <1>3 DEF Units
<1>4. CASE ~\E k \in 0 .. logn : size = shl(k)
  <2> DEFINE S == {x \in {shl(k) : k \in 0 .. logn + 1} : x >= size}
  <2>1. Units(size) = Min(S)
    BY <1>4 DEF Units, fix_size
  <2>2. shl(logn) \in S
    BY <1>1, <1>2
  <2>3. S \in SUBSET Nat /\ S # {}
    BY <1>2, <2>2
  <2>4. \E x \in S : \A y \in S : x <= y
    <3> HIDE DEF S
    <3> QED  BY <2>3, LeastExists
  <2>5. Min(S) \in S /\ \A y \in S : Min(S) <= y
    <3> HIDE DEF S
    <3> QED  BY <2>4 DEF Min
  <2>6. PICK k \in 0 .. logn + 1 : Min(S) = shl(k)
    BY <2>5
  <2>7. Min(S) >= size /\ Min(S) <= shl(logn)
    BY <2>2, <2>5
  <2> HIDE DEF S
  <2>8. k \in 0 .. logn
    <3>1. ~(logn < k)
      BY <1>1, <1>2, <2>6, <2>7, Grows
    <3> QED  BY <1>1, <3>1
  <2> QED  BY <1>2, <2>1, <2>6, <2>7, <2>8
<1> QED  BY <1>3, <1>4

-----------------------------------------------------------------------------
(* The entries.                                                            *)

\* an entry of the tree l when the nodes of A are lent
Good(l, A, i) ==
  /\ l[i] \in 0 .. Full(i)
  /\ i \in A => l[i] = 0
  /\ Inner(i) /\ (i \in A \/ l[i] = Full(i)) =>
       l[LEFT_CHILD(i)] = Full(i) - 1 /\ l[RIGHT_CHILD(i)] = Full(i) - 1
  /\ i \notin A /\ l[i] # Full(i) =>
       Inner(i) /\ l[i] = Larger(l[LEFT_CHILD(i)], l[RIGHT_CHILD(i)])

\* Below a node that is lent or whole, everything is whole.
LEMMA WholeBelow ==
  ASSUME NEW l, NEW A, \A x \in Index : Good(l, A, x),
         NEW j \in Index, j \in A \/ l[j] = Full(j),
         NEW i \in Index, Depth(i) > Depth(j), NEW u, u \in UnitsOf(i), u \in UnitsOf(j)
  PROVE  l[i] = Full(i)
<1> DEFINE T == {k \in Nat : \A x \in Index : Depth(x) = k /\ k > Depth(j) /\ u \in UnitsOf(x)
                                             => l[x] = Full(x)}
<1>1. 0 \in T
  BY NodeFacts
<1>2. ASSUME NEW k \in Nat, k \in T PROVE k + 1 \in T
  <2> SUFFICES ASSUME NEW x \in Index, Depth(x) = k + 1, k + 1 > Depth(j), u \in UnitsOf(x)
               PROVE  l[x] = Full(x)
    OBVIOUS
  <2> DEFINE q == PARENT(x)
  <2>1. Depth(x) \in Nat /\ Depth(j) \in Nat /\ Depth(0) = 0
    <3>1. 0 \in Index /\ logn \in 0 .. 7 /\ 0 \in 0 .. logn
      BY Sizes
    <3>2. Depth(0) = 0
      BY <3>1, DepthIs, Literals
    <3> QED  BY <3>1, <3>2, NodeFacts
  <2>2. x # 0
    BY <2>1
  <2>3. /\ q \in Index /\ Inner(q) /\ Depth(x) = Depth(q) + 1 /\ u \in UnitsOf(q)
        /\ x = LEFT_CHILD(q) \/ x = RIGHT_CHILD(q)
    BY <2>2, Parents
  <2> HIDE DEF q
  <2>4. Depth(q) \in Nat /\ Depth(q) = k
    <3>1. Depth(q) \in Nat
      BY <2>3, NodeTypes
    <3> QED  BY <2>3, <3>1
  <2>5. q \in A \/ l[q] = Full(q)
    <3>1. CASE Depth(q) = Depth(j)
      BY <2>3, <3>1, SameDepth
    <3>2. CASE Depth(q) # Depth(j)
      BY <1>2, <2>1, <2>3, <2>4, <3>2
    <3> QED  BY <3>1, <3>2
  <2>6. Full(x) = Full(q) - 1
    BY <2>3, Sons
  <2> QED  BY <2>3, <2>5, <2>6 DEF Good
<1>3. Nat \subseteq T
  <2> HIDE DEF T
  <2> QED  BY <1>1, <1>2, SetInduction
<1>4. Depth(i) \in Nat
  BY NodeFacts
<1> QED  BY <1>3, <1>4

\* Lent nodes have no unit in common.
LEMMA LentApart ==
  ASSUME NEW l, NEW A \in SUBSET Index, \A x \in Index : Good(l, A, x),
         NEW a \in A, NEW b \in A, NEW u, u \in UnitsOf(a), u \in UnitsOf(b)
  PROVE  a = b
<1>1. a \in Index /\ b \in Index /\ l[a] = 0 /\ l[b] = 0
  BY DEF Good
<1>2. Full(a) \in Nat \ {0} /\ Full(b) \in Nat \ {0} /\ Depth(a) \in Nat /\ Depth(b) \in Nat
  BY <1>1, NodeTypes
<1>3. ~(Depth(a) > Depth(b))
  BY <1>1, <1>2, WholeBelow
<1>4. ~(Depth(b) > Depth(a))
  BY <1>1, <1>2, WholeBelow
<1>5. Depth(a) = Depth(b)
  BY <1>2, <1>3, <1>4
<1> QED  BY <1>1, <1>5, SameDepth

\* no lent node is larger than i and covers a unit of it
Clear(A, i) ==
  \A a \in A, u \in UnitsOf(i) : u \in UnitsOf(a) => Depth(a) >= Depth(i)

\* The sons of a node that is clear and not lent are clear.
LEMMA ClearSons ==
  ASSUME NEW A \in SUBSET Index, NEW i \in Index, Inner(i), Clear(A, i), i \notin A
  PROVE  Clear(A, LEFT_CHILD(i)) /\ Clear(A, RIGHT_CHILD(i))
<1>1. ASSUME NEW c \in {LEFT_CHILD(i), RIGHT_CHILD(i)}, NEW a \in A,
             NEW u \in UnitsOf(c), u \in UnitsOf(a)
      PROVE  Depth(a) >= Depth(c)
  <2>1. Depth(c) = Depth(i) + 1 /\ u \in UnitsOf(i) /\ a \in Index
    BY Sons
  <2>2. Depth(a) >= Depth(i) /\ Depth(a) # Depth(i)
    BY <1>1, <2>1, SameDepth DEF Clear
  <2>3. Depth(a) \in Nat /\ Depth(i) \in Nat
    BY <2>1, NodeFacts
  <2> QED  BY <2>1, <2>2, <2>3
<1> QED  BY <1>1 DEF Clear

\* A whole node that is clear has no unit that is lent.
LEMMA WholeFree ==
  ASSUME NEW l, NEW A \in SUBSET Index, \A x \in Index : Good(l, A, x),
         NEW i \in Index, l[i] = Full(i), Clear(A, i), NEW a \in A, NEW u \in UnitsOf(i)
  PROVE  u \notin UnitsOf(a)
<1> SUFFICES ASSUME u \in UnitsOf(a) PROVE FALSE
  OBVIOUS
<1>1. a \in Index /\ l[a] = 0 /\ Depth(a) >= Depth(i)
  BY DEF Good, Clear
<1>2. Full(a) # 0 /\ Full(i) # 0 /\ Depth(a) \in Nat /\ Depth(i) \in Nat
  BY <1>1, NodeTypes
<1>3. CASE Depth(a) = Depth(i)
  BY <1>1, <1>2, <1>3, SameDepth
<1>4. CASE Depth(a) > Depth(i)
  BY <1>1, <1>2, <1>4, WholeBelow
<1> QED  BY <1>1, <1>2, <1>3, <1>4

\* What the entry of a clear node promises.
LEMMA Promised ==
  ASSUME NEW l, NEW A \in SUBSET Index, \A x \in Index : Good(l, A, x),
         NEW i \in Index, Clear(A, i)
  PROVE  /\ l[i] = 0 => \A u \in UnitsOf(i) : \E a \in A : u \in UnitsOf(a)
         /\ l[i] # 0 => \E j \in Index : /\ Full(j) = l[i]
                                        /\ \A u \in UnitsOf(j), a \in A : u \notin UnitsOf(a)
<1> DEFINE P(x) ==
             /\ l[x] = 0 => \A u \in UnitsOf(x) : \E a \in A : u \in UnitsOf(a)
             /\ l[x] # 0 => \E j \in Index : /\ Full(j) = l[x]
                                            /\ \A u \in UnitsOf(j), a \in A : u \notin UnitsOf(a)
           T == {k \in Nat : \A x \in Index : logn - Depth(x) = k /\ Clear(A, x) => P(x)}
<1>0. logn \in Nat
  BY Sizes
<1>1. ASSUME NEW x \in Index, Clear(A, x), x \in A \/ l[x] = Full(x) PROVE P(x)
  <2>1. CASE x \in A
    BY <2>1 DEF Good
  <2>2. CASE l[x] = Full(x)
    <3>1. \A u \in UnitsOf(x), a \in A : u \notin UnitsOf(a)
      BY <1>1, <2>2, WholeFree
    <3>2. Full(x) # 0
      BY NodeFacts, <1>0
    <3> QED  BY <2>2, <3>1, <3>2
  <2> QED  BY <1>1, <2>1, <2>2
<1>2. ASSUME NEW x \in Index, Clear(A, x), x \notin A, l[x] # Full(x)
      PROVE  /\ Inner(x) /\ l[x] = Larger(l[LEFT_CHILD(x)], l[RIGHT_CHILD(x)])
             /\ LEFT_CHILD(x) \in Index /\ RIGHT_CHILD(x) \in Index
             /\ l[LEFT_CHILD(x)] \in Nat /\ l[RIGHT_CHILD(x)] \in Nat
             /\ Clear(A, LEFT_CHILD(x)) /\ Clear(A, RIGHT_CHILD(x))
             /\ Depth(LEFT_CHILD(x)) = Depth(x) + 1 /\ Depth(RIGHT_CHILD(x)) = Depth(x) + 1
             /\ UnitsOf(x) = UnitsOf(LEFT_CHILD(x)) \cup UnitsOf(RIGHT_CHILD(x))
  <2>1. Inner(x) /\ l[x] = Larger(l[LEFT_CHILD(x)], l[RIGHT_CHILD(x)])
    BY <1>2 DEF Good
  <2>2. LEFT_CHILD(x) \in Index /\ RIGHT_CHILD(x) \in Index
        /\ Depth(LEFT_CHILD(x)) = Depth(x) + 1 /\ Depth(RIGHT_CHILD(x)) = Depth(x) + 1
        /\ UnitsOf(x) = UnitsOf(LEFT_CHILD(x)) \cup UnitsOf(RIGHT_CHILD(x))
    BY <2>1, Sons
  <2>3. l[LEFT_CHILD(x)] \in Nat /\ l[RIGHT_CHILD(x)] \in Nat
    <3>1. Full(LEFT_CHILD(x)) \in Nat /\ Full(RIGHT_CHILD(x)) \in Nat
      BY <2>2, NodeTypes
    <3> QED  BY <2>2, <3>1 DEF Good
  <2>4. Clear(A, LEFT_CHILD(x)) /\ Clear(A, RIGHT_CHILD(x))
    BY <1>2, <2>1, ClearSons
  <2> QED  BY <2>1, <2>2, <2>3, <2>4
<1>3. 0 \in T
  <2> SUFFICES ASSUME NEW x \in Index, logn - Depth(x) = 0, Clear(A, x) PROVE P(x)
    OBVIOUS
  <2>1. ~Inner(x)
    BY <1>0, NodeFacts
  <2> HIDE DEF P
  <2> QED  BY <1>1, <1>2, <2>1
<1>4. ASSUME NEW k \in Nat, k \in T PROVE k + 1 \in T
  <2> SUFFICES ASSUME NEW x \in Index, logn - Depth(x) = k + 1, Clear(A, x) PROVE P(x)
    OBVIOUS
  <2>1. CASE x \in A \/ l[x] = Full(x)
    <3> HIDE DEF P
    <3> QED  BY <1>1, <2>1
  <2>2. CASE x \notin A /\ l[x] # Full(x)
    <3> DEFINE y == LEFT_CHILD(x)
               z == RIGHT_CHILD(x)
    <3>1. /\ l[x] = Larger(l[y], l[z]) /\ y \in Index /\ z \in Index
          /\ l[y] \in Nat /\ l[z] \in Nat /\ Clear(A, y) /\ Clear(A, z)
          /\ Depth(y) = Depth(x) + 1 /\ Depth(z) = Depth(x) + 1
          /\ UnitsOf(x) = UnitsOf(y) \cup UnitsOf(z)
      BY <1>2, <2>2
    <3> HIDE DEF y, z
    <3>2. Depth(x) \in Nat
      BY NodeFacts
    <3>3. logn - Depth(y) = k /\ logn - Depth(z) = k
      BY <1>0, <3>1, <3>2
    <3>4. P(y) /\ P(z)
      <4> HIDE DEF P
      <4> QED  BY <1>4, <3>1, <3>3
    <3>5. CASE l[x] = 0
      <4>1. l[y] = 0 /\ l[z] = 0
        BY <3>1, <3>5 DEF Larger
      <4> QED  BY <3>1, <3>4, <3>5, <4>1
    <3>6. CASE l[x] # 0
      BY <3>1, <3>4, <3>6 DEF Larger
    <3> QED  BY <3>5, <3>6
  <2> QED  BY <2>1, <2>2
<1>5. Nat \subseteq T
  <2> HIDE DEF T
  <2> QED  BY <1>3, <1>4, SetInduction
<1>6. logn - Depth(i) \in Nat
  BY <1>0, NodeFacts
<1>7. P(i)
  <2> HIDE DEF P
  <2> QED  BY <1>5, <1>6
<1> QED  BY <1>7

-----------------------------------------------------------------------------
(* The way up.                                                             *)

Tree == [Index -> 0 .. logn + 1]

\* An entry that does not look at the one that changes stays good.
LEMMA GoodElsewhere ==
  ASSUME NEW l \in Tree, NEW A, NEW B, NEW q \in Index, NEW v, NEW x \in Index,
         x # q, x # PARENT(q), x \in A <=> x \in B, Good(l, A, x)
  PROVE  Good([l EXCEPT ![q] = v], B, x)
<1> DEFINE m == [l EXCEPT ![q] = v]
<1>1. m[x] = l[x]
  BY DEF Tree
<1>2. Inner(x) => /\ m[LEFT_CHILD(x)] = l[LEFT_CHILD(x)]
                  /\ m[RIGHT_CHILD(x)] = l[RIGHT_CHILD(x)]
  <2> SUFFICES ASSUME Inner(x)
               PROVE  /\ m[LEFT_CHILD(x)] = l[LEFT_CHILD(x)]
                      /\ m[RIGHT_CHILD(x)] = l[RIGHT_CHILD(x)]
    OBVIOUS
  <2>1. LEFT_CHILD(x) \in Index /\ RIGHT_CHILD(x) \in Index
        /\ LEFT_CHILD(x) # q /\ RIGHT_CHILD(x) # q
    BY Sons
  <2> QED  BY <2>1 DEF Tree
<1> HIDE DEF m
<1>3. Good(m, B, x)
  BY <1>1, <1>2 DEF Good
<1> QED  BY <1>3 DEF m

\* the loop at at.i: only the parent of at.i can be wrong, and nothing above is lent
Rising(A, W, at) ==
  /\ at \in [i : Index, l : Tree]
  /\ at.i # 0 => PARENT(at.i) \in W
  /\ \A x \in Index : x # PARENT(at.i) => Good(at.l, A, x)

\* A turn on the way up makes the parent good and leaves only its own parent in doubt.
LEMMA UpRises ==
  ASSUME NEW A \in SUBSET Index, NEW W \in SUBSET (Index \ A),
         \A w \in W : w # 0 => PARENT(w) \in W,
         NEW at, Rising(A, W, at), NEW freeing \in BOOLEAN
  PROVE  /\ Rising(A, W, Up(freeing, at))
         /\ Up(freeing, at).i = IF at.i = 0 THEN 0 ELSE PARENT(at.i)
<1>1. PICK i \in Index, l \in Tree : at = [i |-> i, l |-> l]
  BY DEF Rising
<1>2. at.i = i /\ at.l = l /\ (i # 0 => PARENT(i) \in W)
      /\ \A x \in Index : x # PARENT(i) => Good(l, A, x)
  BY <1>1 DEF Rising
<1>3. CASE i = 0
  BY <1>2, <1>3 DEF Up
<1>4. CASE i # 0
  <2> DEFINE q == PARENT(i)
             x == l[LEFT_CHILD(q)]
             y == l[RIGHT_CHILD(q)]
             v == IF freeing THEN Merged(q, x, y) ELSE Larger(x, y)
             m == [l EXCEPT ![q] = v]
  <2>1. q \in Index /\ Inner(q) /\ q \in W /\ q \notin A
    BY <1>2, <1>4, Parents
  <2>2. Up(freeing, at) = [i |-> q, l |-> m]
    BY <1>2, <1>4 DEF Up
  <2> HIDE DEF q
  <2>3. /\ LEFT_CHILD(q) \in Index /\ RIGHT_CHILD(q) \in Index
        /\ LEFT_CHILD(q) # q /\ RIGHT_CHILD(q) # q
        /\ Full(LEFT_CHILD(q)) = Full(q) - 1 /\ Full(RIGHT_CHILD(q)) = Full(q) - 1
    <3>1. q \in Nat
      BY <2>1, NodeFacts
    <3> QED  BY <2>1, <3>1, Sons DEF LEFT_CHILD, RIGHT_CHILD
  <2>4. x \in 0 .. Full(q) - 1 /\ y \in 0 .. Full(q) - 1
    BY <1>2, <2>3 DEF Good, q
  <2>5. Full(q) \in Nat \ {0} /\ Full(q) \in 1 .. logn + 1 /\ logn \in Nat
    BY <2>1, NodeTypes, NodeFacts
  <2> HIDE DEF x, y
  <2>6. v = Larger(x, y)
    <3>1. x # logn - Depth(q) + 1
      BY <2>4, <2>5 DEF Full
    <3> QED  BY <3>1 DEF Merged
  <2>7. v \in 0 .. Full(q) - 1 /\ v \in 0 .. logn + 1 /\ v # Full(q)
    BY <2>4, <2>5, <2>6 DEF Larger
  <2> HIDE DEF v
  <2>8. m \in Tree /\ m[q] = v /\ m[LEFT_CHILD(q)] = x /\ m[RIGHT_CHILD(q)] = y
    BY <2>1, <2>3, <2>7 DEF Tree, x, y
  <2>9. Good(m, A, q)
    <3> HIDE DEF m
    <3>1. v \in 0 .. Full(q)
      BY <2>5, <2>7
    <3> QED  BY <2>1, <2>6, <2>7, <2>8, <3>1 DEF Good
  <2>10. ASSUME NEW z \in Index, z # PARENT(q), z # q PROVE Good(m, A, z)
    <3>1. Good(l, A, z)
      BY <1>2, <2>10 DEF q
    <3> QED  BY <2>1, <2>10, <3>1, GoodElsewhere
  <2> HIDE DEF m
  <2>11. Rising(A, W, [i |-> q, l |-> m])
    BY <2>1, <2>8, <2>9, <2>10 DEF Rising
  <2> QED  BY <1>2, <1>4, <2>2, <2>11 DEF q
<1> QED  BY <1>3, <1>4

\* The root, and how far a node is from it.
LEMMA Root ==
  /\ 0 \in Index /\ Depth(0) = 0 /\ PARENT(0) \notin Index
  /\ \A i \in Index : Depth(i) = 0 => i = 0
<1>1. 0 \in Index /\ logn \in 0 .. 7 /\ 0 \in 0 .. logn
  BY Sizes
<1>2. Depth(0) = 0
  BY <1>1, DepthIs, Literals
<1>3. PARENT(0) = -1
  BY DEF PARENT
<1>4. PARENT(0) \notin Index
  BY <1>3, Sizes
<1>5. ASSUME NEW i \in Index, Depth(i) = 0 PROVE i = 0
  <2>1. i + 1 < shl(0 + 1) /\ i \in Nat
    BY <1>5, DepthExists, NodeFacts
  <2> QED  BY <2>1, Literals
<1> QED  BY <1>1, <1>2, <1>4, <1>5

\* The walk up leaves every entry good.
LEMMA UpwardsGood ==
  ASSUME NEW A \in SUBSET Index, NEW W \in SUBSET (Index \ A),
         \A w \in W : w # 0 => PARENT(w) \in W,
         NEW i \in Index, NEW l \in Tree, NEW freeing \in BOOLEAN,
         i # 0 => PARENT(i) \in W,
         \A x \in Index : x # PARENT(i) => Good(l, A, x)
  PROVE  /\ Upwards(l, i, freeing) \in Tree
         /\ \A x \in Index : Good(Upwards(l, i, freeing), A, x)
<1> DEFINE S == {at \in [i : Index, l : Tree] : Rising(A, W, at)}
           s0 == [i |-> i, l |-> l]
           g == [at \in S |-> Up(freeing, at)]
           P(f) == f = [k \in Nat |-> IF k = 0 THEN s0 ELSE Up(freeing, f[k - 1])]
           f0 == CHOOSE f : P(f)
<1>1. logn \in Nat
  BY Sizes
<1>2. s0 \in S
  BY DEF Rising
<1>3. g \in [S -> S] /\ \A at \in S : g[at] = Up(freeing, at)
  <2>1. ASSUME NEW at \in S PROVE Up(freeing, at) \in S
    <3>1. Rising(A, W, Up(freeing, at))
      BY UpRises
    <3> QED  BY <3>1 DEF Rising
  <2> QED  BY <2>1
<1>4. Upwards(l, i, freeing) = f0[logn].l
  BY DEF Upwards
<1>5. s0.i = i
  OBVIOUS
<1> HIDE DEF S, s0, g
<1>6. PICK w \in [Nat -> S] : Iterates(g, s0, w)
  BY <1>2, <1>3, IterateExists
<1>7. P(w)
  <2>1. w[0] = s0 /\ \A k \in Nat : w[k + 1] = Up(freeing, w[k])
    BY <1>3, <1>6 DEF Iterates
  <2>2. ASSUME NEW k \in Nat
        PROVE  w[k] = IF k = 0 THEN s0 ELSE Up(freeing, w[k - 1])
    <3>1. CASE k = 0
      BY <2>1, <3>1
    <3>2. CASE k # 0
      <4>1. k - 1 \in Nat /\ (k - 1) + 1 = k
        BY <3>2
      <4> QED  BY <2>1, <3>2, <4>1
    <3> QED  BY <3>1, <3>2
  <2> QED  BY <2>2
<1>8. P(f0)
  <2> HIDE DEF P
  <2> QED  BY <1>7
<1> HIDE DEF f0
<1>9. f0[0] = s0 /\ \A k \in Nat : f0[k + 1] = Up(freeing, f0[k])
  <2>1. ASSUME NEW k \in Nat PROVE f0[k + 1] = Up(freeing, f0[k])
    <3>1. k + 1 \in Nat /\ (k + 1) - 1 = k /\ k + 1 # 0
      OBVIOUS
    <3> QED  BY <1>8, <3>1
  <2> QED  BY <1>8, <2>1
<1> DEFINE T == {k \in Nat : f0[k] \in S /\ (k <= logn => Depth(f0[k].i) <= logn - k)}
<1>10. 0 \in T
  <2>1. f0[0] \in S /\ f0[0].i = i
    BY <1>2, <1>5, <1>9
  <2>2. Depth(i) \in 0 .. logn
    BY NodeFacts
  <2>3. Depth(f0[0].i) <= logn - 0
    BY <1>1, <2>1, <2>2
  <2> QED  BY <2>1, <2>3
<1>11. ASSUME NEW k \in Nat, k \in T PROVE k + 1 \in T
  <2>1. f0[k + 1] = Up(freeing, f0[k]) /\ f0[k] \in S /\ f0[k + 1] \in S
    BY <1>3, <1>9, <1>11
  <2>2. Rising(A, W, f0[k]) /\ f0[k].i \in Index
    BY <2>1 DEF S
  <2>3. f0[k + 1].i = IF f0[k].i = 0 THEN 0 ELSE PARENT(f0[k].i)
    BY <2>1, <2>2, UpRises
  <2>4. ASSUME k + 1 <= logn PROVE Depth(f0[k + 1].i) <= logn - (k + 1)
    <3>1. Depth(f0[k].i) <= logn - k /\ Depth(f0[k].i) \in Nat
      BY <1>1, <1>11, <2>2, <2>4, NodeTypes
    <3>2. CASE f0[k].i = 0
      BY <1>1, <2>3, <2>4, <3>2, Root
    <3>3. CASE f0[k].i # 0
      <4>1. Depth(f0[k].i) = Depth(PARENT(f0[k].i)) + 1 /\ PARENT(f0[k].i) \in Index
        BY <2>2, <3>3, Parents
      <4>2. Depth(PARENT(f0[k].i)) \in Nat
        BY <4>1, NodeTypes
      <4> QED  BY <1>1, <2>3, <3>1, <3>3, <4>1, <4>2
    <3> QED  BY <3>2, <3>3
  <2> QED  BY <2>1, <2>4
<1>12. Nat \subseteq T
  <2> HIDE DEF T
  <2> QED  BY <1>10, <1>11, SetInduction
<1>13. f0[logn] \in S /\ Depth(f0[logn].i) <= logn - logn
  BY <1>1, <1>12
<1>14. Rising(A, W, f0[logn]) /\ f0[logn].i \in Index /\ f0[logn].l \in Tree
  BY <1>13 DEF S
<1>15. f0[logn].i = 0
  <2>1. Depth(f0[logn].i) \in Nat
    BY <1>14, NodeTypes
  <2>2. Depth(f0[logn].i) = 0
    BY <1>1, <1>13, <2>1
  <2> QED  BY <1>14, <2>2, Root
<1> QED  BY <1>4, <1>14, <1>15, Root DEF Rising

-----------------------------------------------------------------------------
(* The way down.                                                           *)

\* A block of shl(e) units can be had below a node when its entry is above e.
LEMMA NodeSizes ==
  ASSUME NEW v \in 0 .. logn + 1, NEW e \in 0 .. logn
  PROVE  NODE_SIZE(v) >= shl(e) <=> v > e
<1>1. logn \in 0 .. 7 /\ e \in 0 .. 8 /\ e \in Nat /\ v \in Nat
  BY Sizes
<1>2. shl(e) \in Nat \ {0}
  BY <1>1, Grows
<1>3. CASE v = 0
  BY <1>1, <1>2, <1>3 DEF NODE_SIZE
<1>4. CASE v # 0
  <2>1. v - 1 \in 0 .. 8
    BY <1>1, <1>4
  <2>2. NODE_SIZE(v) = shl(v - 1)
    BY <1>4 DEF NODE_SIZE
  <2>3. shl(v - 1) \in Nat /\ (v - 1 < e <=> shl(v - 1) < shl(e))
    BY <1>1, <2>1, Grows
  <2> QED  BY <1>1, <1>2, <2>1, <2>2, <2>3
<1> QED  BY <1>3, <1>4

\* The size of a node tells its depth.
LEMMA SizeDepth ==
  ASSUME NEW i \in Index, NEW e \in 0 .. logn
  PROVE  SizeOf(i) = shl(e) <=> Depth(i) = logn - e
<1>1. logn \in 0 .. 7 /\ Depth(i) \in 0 .. logn
  BY Sizes, NodeFacts
<1>2. e \in 0 .. 8 /\ logn - Depth(i) \in 0 .. 8 /\ e \in Nat /\ Depth(i) \in Nat
  BY <1>1
<1>3. SizeOf(i) = shl(e) <=> logn - Depth(i) = e
  BY <1>2, Grows DEF SizeOf
<1> QED  BY <1>1, <1>2, <1>3

\* A node is told by its first unit and its size.
LEMMA NodeIs ==
  ASSUME NEW i \in Index, NEW j \in Index, First(i) = First(j), SizeOf(i) = SizeOf(j)
  PROVE  i = j
<1> DEFINE m == SizeOf(i)
           N == BUDDY_SIZE
<1>1. i \in Nat /\ j \in Nat /\ m \in Nat \ {0} /\ N \in Nat
      /\ m \in {1, 2, 4, 8, 16, 32, 64, 128}
  BY Sizes, NodeFacts
<1>2. (i + 1) * m - N = (j + 1) * m - N
  BY DEF First
<1> HIDE DEF m, N
<1> QED  BY <1>1, <1>2

\* A node has a first unit.
LEMMA FirstUnit ==
  ASSUME NEW i \in Index
  PROVE  First(i) \in UnitsOf(i)
<1> DEFINE o == First(i)
           m == SizeOf(i)
<1>1. UnitsOf(i) = o .. o + m - 1 /\ m \in Nat \ {0} /\ o \in Int
  <2>1. BUDDY_SIZE \in Nat
    BY Sizes
  <2> QED  BY <2>1, NodeFacts
<1> HIDE DEF o, m
<1>2. o \in UnitsOf(i)
  BY <1>1
<1> QED  BY <1>2 DEF o

\* the loop at at.i: a block of shl(e) units can be had there, and nothing above is lent
Falling(A, e, at) ==
  /\ at \in [i : Index, node_size : Nat]
  /\ at.node_size = SizeOf(at.i) /\ Depth(at.i) <= logn - e
  /\ longest[at.i] > e /\ Clear(A, at.i)

\* A turn goes to a son below which such a block can be had.
LEMMA DownFalls ==
  ASSUME NEW A \in SUBSET Index, longest \in Tree, \A x \in Index : Good(longest, A, x),
         NEW e \in 0 .. logn, NEW at, Falling(A, e, at)
  PROVE  /\ Falling(A, e, Down(shl(e), at))
         /\ IF Depth(at.i) = logn - e THEN Down(shl(e), at).i = at.i
            ELSE Depth(Down(shl(e), at).i) = Depth(at.i) + 1
<1>1. PICK i \in Index, n \in Nat : at = [i |-> i, node_size |-> n]
  BY DEF Falling
<1>2. at.i = i /\ at.node_size = SizeOf(i) /\ Depth(i) <= logn - e /\ longest[i] > e /\ Clear(A, i)
  BY <1>1 DEF Falling
<1>3. logn \in 0 .. 7 /\ e \in Nat /\ Depth(i) \in Nat /\ longest[i] \in Nat /\ logn \in Nat
  <2>1. longest[i] \in 0 .. logn + 1
    BY DEF Tree
  <2> QED  BY <2>1, Sizes, NodeTypes
<1>4. CASE Depth(i) = logn - e
  <2>1. at.node_size = shl(e)
    BY <1>2, <1>4, SizeDepth
  <2>2. Down(shl(e), at) = at
    BY <2>1 DEF Down
  <2> QED  BY <1>2, <1>4, <2>2
<1>5. CASE Depth(i) # logn - e
  <2> DEFINE y == LEFT_CHILD(i)
             z == RIGHT_CHILD(i)
             c == IF NODE_SIZE(longest[y]) >= shl(e) THEN y ELSE z
             m == at.node_size \div 2
  <2>1. at.node_size # shl(e)
    BY <1>2, <1>5, SizeDepth
  <2>2. Down(shl(e), at) = [node_size |-> m, i |-> c]
    BY <1>2, <2>1 DEF Down
  <2>3. Inner(i) /\ Depth(i) < logn - e
    <3>1. Depth(i) < logn - e /\ Depth(i) # logn
      BY <1>2, <1>3, <1>5
    <3> QED  BY <3>1, NodeFacts
  <2>4. i \notin A
    BY <1>2, <1>3 DEF Good
  <2>5. /\ y \in Index /\ z \in Index /\ Depth(y) = Depth(i) + 1 /\ Depth(z) = Depth(i) + 1
        /\ SizeOf(i) = 2 * SizeOf(y) /\ SizeOf(z) = SizeOf(y)
    BY <2>3, Sons
  <2>6. Clear(A, y) /\ Clear(A, z)
    BY <1>2, <2>3, <2>4, ClearSons
  <2>7. longest[y] \in 0 .. logn + 1 /\ longest[z] \in 0 .. logn + 1
    BY <2>5 DEF Tree
  <2>8. longest[y] > e \/ longest[z] > e
    <3>1. CASE longest[i] = Full(i)
      <4>1. longest[y] = Full(i) - 1
        BY <2>3, <3>1 DEF Good
      <4>2. Full(i) - 1 = logn - Depth(i)
        BY <1>3 DEF Full
      <4> QED  BY <1>3, <2>3, <4>1, <4>2
    <3>2. CASE longest[i] # Full(i)
      <4>1. longest[i] = Larger(longest[y], longest[z])
        BY <2>4, <3>2 DEF Good
      <4> QED  BY <1>2, <4>1 DEF Larger
    <3> QED  BY <3>1, <3>2
  <2>9. NODE_SIZE(longest[y]) >= shl(e) <=> longest[y] > e
    BY <2>7, NodeSizes
  <2>10. SizeOf(y) \in Nat
    BY <2>5, NodeFacts
  <2>11. m = SizeOf(y)
    <3> HIDE DEF y
    <3>1. at.node_size = 2 * SizeOf(y)
      BY <1>2, <2>5
    <3> QED  BY <2>10, <3>1
  <2> HIDE DEF y, z, m
  <2>12. c \in Index /\ m = SizeOf(c) /\ Depth(c) = Depth(i) + 1 /\ longest[c] > e /\ Clear(A, c)
    BY <2>5, <2>6, <2>8, <2>9, <2>11
  <2>13. m \in Nat
    BY <2>10, <2>11
  <2> HIDE DEF c
  <2>14. Depth(c) <= logn - e
    BY <1>3, <2>3, <2>12
  <2>15. Falling(A, e, [node_size |-> m, i |-> c])
    BY <2>12, <2>13, <2>14 DEF Falling
  <2> QED  BY <1>2, <1>5, <2>2, <2>12, <2>15
<1> QED  BY <1>4, <1>5

\* The walk down ends at a free node of the wanted size.
LEMMA DescendEnds ==
  ASSUME NEW A \in SUBSET Index, longest \in Tree, \A x \in Index : Good(longest, A, x),
         NEW e \in 0 .. logn, NODE_SIZE(longest[0]) >= shl(e)
  PROVE  LET i == Descend(shl(e))
         IN  i \in Index /\ SizeOf(i) = shl(e) /\ longest[i] = Full(i) /\ Clear(A, i)
<1> DEFINE S == {at \in [i : Index, node_size : Nat] : Falling(A, e, at)}
           s0 == [i |-> 0, node_size |-> BUDDY_SIZE]
           g == [at \in S |-> Down(shl(e), at)]
           P(f) == f = [k \in Nat |-> IF k = 0 THEN s0 ELSE Down(shl(e), f[k - 1])]
           f0 == CHOOSE f : P(f)
<1>1. logn \in Nat /\ e \in Nat /\ logn \in 0 .. 7 /\ BUDDY_SIZE \in Nat
  BY Sizes
<1>2. s0 \in S
  <2>1. 0 \in Index /\ Depth(0) = 0
    BY Root
  <2>2. SizeOf(0) = BUDDY_SIZE
    BY <1>1, <2>1 DEF SizeOf, BUDDY_SIZE
  <2>3. longest[0] > e
    BY <2>1, NodeSizes DEF Tree
  <2>4. Clear(A, 0)
    <3>1. \A a \in A : Depth(a) \in Nat
      BY NodeTypes
    <3> QED  BY <2>1, <3>1 DEF Clear
  <2>5. Depth(0) <= logn - e
    BY <1>1, <2>1
  <2> QED  BY <1>1, <2>1, <2>2, <2>3, <2>4, <2>5 DEF Falling
<1>3. g \in [S -> S] /\ \A at \in S : g[at] = Down(shl(e), at)
  <2>1. ASSUME NEW at \in S PROVE Down(shl(e), at) \in S
    <3>1. Falling(A, e, Down(shl(e), at))
      BY DownFalls
    <3> QED  BY <3>1 DEF Falling
  <2> QED  BY <2>1
<1>4. Descend(shl(e)) = f0[logn].i
  BY DEF Descend
<1>5. s0.i = 0
  OBVIOUS
<1> HIDE DEF S, s0, g
<1>6. PICK w \in [Nat -> S] : Iterates(g, s0, w)
  BY <1>2, <1>3, IterateExists
<1>7. P(w)
  <2>1. w[0] = s0 /\ \A k \in Nat : w[k + 1] = Down(shl(e), w[k])
    BY <1>3, <1>6 DEF Iterates
  <2>2. ASSUME NEW k \in Nat
        PROVE  w[k] = IF k = 0 THEN s0 ELSE Down(shl(e), w[k - 1])
    <3>1. CASE k = 0
      BY <2>1, <3>1
    <3>2. CASE k # 0
      <4>1. k - 1 \in Nat /\ (k - 1) + 1 = k
        BY <3>2
      <4> QED  BY <2>1, <3>2, <4>1
    <3> QED  BY <3>1, <3>2
  <2> QED  BY <2>2
<1>8. P(f0)
  <2> HIDE DEF P
  <2> QED  BY <1>7
<1> HIDE DEF f0
<1>9. f0[0] = s0 /\ \A k \in Nat : f0[k + 1] = Down(shl(e), f0[k])
  <2>1. ASSUME NEW k \in Nat PROVE f0[k + 1] = Down(shl(e), f0[k])
    <3>1. k + 1 \in Nat /\ (k + 1) - 1 = k /\ k + 1 # 0
      OBVIOUS
    <3> QED  BY <1>8, <3>1
  <2> QED  BY <1>8, <2>1
<1> DEFINE T == {k \in Nat : f0[k] \in S /\ (Depth(f0[k].i) >= k \/ Depth(f0[k].i) = logn - e)}
<1>10. 0 \in T
  BY <1>2, <1>5, <1>9, Root
<1>11. ASSUME NEW k \in Nat, k \in T PROVE k + 1 \in T
  <2>1. f0[k + 1] = Down(shl(e), f0[k]) /\ f0[k] \in S /\ f0[k + 1] \in S
    BY <1>3, <1>9, <1>11
  <2>2. Falling(A, e, f0[k]) /\ f0[k].i \in Index
    BY <2>1 DEF S
  <2>3. IF Depth(f0[k].i) = logn - e THEN f0[k + 1].i = f0[k].i
        ELSE Depth(f0[k + 1].i) = Depth(f0[k].i) + 1
    BY <2>1, <2>2, DownFalls
  <2>4. Depth(f0[k].i) \in Nat
    BY <2>2, NodeTypes
  <2> QED  BY <1>11, <2>1, <2>3, <2>4
<1>12. Nat \subseteq T
  <2> HIDE DEF T
  <2> QED  BY <1>10, <1>11, SetInduction
<1> DEFINE i == f0[logn].i
<1>13. f0[logn] \in S /\ (Depth(i) >= logn \/ Depth(i) = logn - e)
  BY <1>1, <1>12
<1>14. /\ i \in Index /\ Depth(i) <= logn - e /\ longest[i] > e /\ Clear(A, i)
  BY <1>13 DEF S, Falling
<1> HIDE DEF i
<1>15. Depth(i) = logn - e
  <2>1. Depth(i) \in Nat
    BY <1>14, NodeTypes
  <2> QED  BY <1>1, <1>13, <1>14, <2>1
<1>16. SizeOf(i) = shl(e)
  BY <1>14, <1>15, SizeDepth
<1>17. longest[i] = Full(i)
  <2>1. longest[i] \in 0 .. Full(i)
    BY <1>14 DEF Good
  <2>2. Full(i) = e + 1
    BY <1>1, <1>15 DEF Full
  <2> QED  BY <1>1, <1>14, <2>1, <2>2
<1> QED  BY <1>4, <1>14, <1>16, <1>17 DEF i

-----------------------------------------------------------------------------
(* The way up to a lent node.                                              *)

\* From the leaf of the first unit of a lent node, the walk up ends at that node.
LEMMA ClimbEnds ==
  ASSUME NEW A \in SUBSET Index, longest \in Tree, \A x \in Index : Good(longest, A, x),
         NEW a \in A
  PROVE  Climb(First(a) + BUDDY_SIZE - 1) = a
<1> DEFINE o == First(a)
           i0 == o + BUDDY_SIZE - 1
           turn(c) == IF longest[c] = 0 \/ c = 0 THEN c ELSE PARENT(c)
           S == {c \in Index : o \in UnitsOf(c) /\ Depth(c) >= Depth(a)}
           g == [c \in S |-> turn(c)]
           P(f) == f = [k \in Nat |-> IF k = 0 THEN i0
                                      ELSE IF longest[f[k - 1]] = 0 \/ f[k - 1] = 0 THEN f[k - 1]
                                      ELSE PARENT(f[k - 1])]
           f0 == CHOOSE f : P(f)
<1>1. logn \in Nat /\ BUDDY_SIZE \in Nat /\ Index = 0 .. 2 * BUDDY_SIZE - 2 /\ a \in Index
  BY Sizes
<1>2. Depth(a) \in Nat /\ Depth(a) <= logn /\ o \in 0 .. BUDDY_SIZE - 1 /\ longest[a] = 0
      /\ o \in UnitsOf(a)
  <2>1. Depth(a) \in 0 .. logn /\ o \in 0 .. BUDDY_SIZE - 1 /\ SizeOf(a) \in Nat \ {0}
        /\ UnitsOf(a) = First(a) .. First(a) + SizeOf(a) - 1
    BY <1>1, NodeFacts
  <2>2. longest[a] = 0
    BY <1>1 DEF Good
  <2>3. o \in UnitsOf(a)
    BY <1>1, FirstUnit
  <2> HIDE DEF o
  <2> QED  BY <1>1, <2>1, <2>2, <2>3
<1>3. i0 \in S /\ Depth(i0) = logn
  <2> HIDE DEF o
  <2>1. i0 \in Index /\ ~Inner(i0)
    BY <1>1, <1>2 DEF Inner
  <2>2. Depth(i0) = logn /\ SizeOf(i0) = 1 /\ First(i0) = i0 + 1 - BUDDY_SIZE
        /\ UnitsOf(i0) = First(i0) .. First(i0) + SizeOf(i0) - 1
    BY <2>1, NodeFacts
  <2>3. o \in UnitsOf(i0)
    BY <1>1, <1>2, <2>2
  <2> QED  BY <1>1, <1>2, <2>1, <2>2, <2>3
<1>4. ASSUME NEW c \in S
      PROVE  /\ turn(c) \in S /\ Depth(c) \in Nat
             /\ IF Depth(c) = Depth(a) THEN c = a /\ turn(c) = c
                ELSE Depth(c) = Depth(turn(c)) + 1 /\ Depth(turn(c)) \in Nat
  <2> HIDE DEF o
  <2>1. c \in Index /\ o \in UnitsOf(c) /\ Depth(c) >= Depth(a) /\ Depth(c) \in Nat
    BY <1>4, NodeTypes
  <2>2. CASE Depth(c) = Depth(a)
    <3>1. c = a
      BY <1>1, <1>2, <2>1, <2>2, SameDepth
    <3> QED  BY <1>2, <1>4, <2>1, <2>2, <3>1
  <2>3. CASE Depth(c) # Depth(a)
    <3>1. Depth(c) > Depth(a) /\ Depth(c) # 0
      BY <1>2, <2>1, <2>3
    <3>2. longest[c] = Full(c)
      <4> HIDE DEF S
      <4>1. a \in Index /\ (a \in A \/ longest[a] = Full(a))
        BY <1>1
      <4>2. o \in UnitsOf(a) /\ o \in UnitsOf(c) /\ c \in Index
        BY <1>2, <2>1
      <4> QED  BY <3>1, <4>1, <4>2, WholeBelow
    <3>3. longest[c] # 0 /\ c # 0
      BY <2>1, <3>1, <3>2, NodeTypes, Root
    <3>4. turn(c) = PARENT(c)
      BY <3>3
    <3>5. PARENT(c) \in Index /\ Depth(c) = Depth(PARENT(c)) + 1 /\ o \in UnitsOf(PARENT(c))
      BY <2>1, <3>3, Parents
    <3>6. Depth(PARENT(c)) \in Nat
      BY <3>5, NodeTypes
    <3>7. Depth(PARENT(c)) >= Depth(a)
      BY <1>2, <2>1, <3>1, <3>5, <3>6
    <3> QED  BY <2>1, <2>3, <3>4, <3>5, <3>6, <3>7
  <2> QED  BY <2>2, <2>3
<1>5. Climb(i0) = f0[logn]
  BY DEF Climb
<1>6. g \in [S -> S] /\ \A c \in S : g[c] = turn(c)
  <2> HIDE DEF turn, S
  <2> QED  BY <1>4
<1> HIDE DEF S, g, o, i0
<1>7. PICK w \in [Nat -> S] : Iterates(g, i0, w)
  BY <1>3, <1>6, IterateExists
<1>8. P(w)
  <2>1. w[0] = i0 /\ \A k \in Nat : w[k + 1] = turn(w[k])
    <3> HIDE DEF turn
    <3> QED  BY <1>6, <1>7 DEF Iterates
  <2>2. ASSUME NEW k \in Nat
        PROVE  w[k] = IF k = 0 THEN i0
                      ELSE IF longest[w[k - 1]] = 0 \/ w[k - 1] = 0 THEN w[k - 1]
                      ELSE PARENT(w[k - 1])
    <3>1. CASE k = 0
      BY <2>1, <3>1
    <3>2. CASE k # 0
      <4>1. k - 1 \in Nat /\ (k - 1) + 1 = k
        BY <3>2
      <4>2. w[k] = turn(w[k - 1])
        <5> HIDE DEF turn
        <5> QED  BY <2>1, <4>1
      <4> QED  BY <3>2, <4>2
    <3> QED  BY <3>1, <3>2
  <2> QED  BY <2>2
<1>9. P(f0)
  <2> HIDE DEF P
  <2> QED  BY <1>8
<1> HIDE DEF f0
<1>10. f0[0] = i0 /\ \A k \in Nat : f0[k + 1] = turn(f0[k])
  <2>1. ASSUME NEW k \in Nat PROVE f0[k + 1] = turn(f0[k])
    <3>1. k + 1 \in Nat /\ (k + 1) - 1 = k /\ k + 1 # 0
      OBVIOUS
    <3> QED  BY <1>9, <3>1
  <2> QED  BY <1>9, <2>1
<1> HIDE DEF turn
<1> DEFINE T == {k \in Nat : f0[k] \in S /\ (Depth(f0[k]) <= logn - k \/ Depth(f0[k]) = Depth(a))}
<1>11. 0 \in T
  <2>1. Depth(f0[0]) <= logn - 0 /\ f0[0] \in S
    BY <1>1, <1>3, <1>10
  <2> QED  BY <2>1
<1>12. ASSUME NEW k \in Nat, k \in T PROVE k + 1 \in T
  <2>1. f0[k + 1] = turn(f0[k]) /\ f0[k] \in S
    BY <1>10, <1>12
  <2>2. /\ f0[k + 1] \in S /\ Depth(f0[k]) \in Nat
        /\ IF Depth(f0[k]) = Depth(a) THEN f0[k + 1] = f0[k]
           ELSE Depth(f0[k]) = Depth(f0[k + 1]) + 1 /\ Depth(f0[k + 1]) \in Nat
    BY <1>4, <2>1
  <2> QED  BY <1>1, <1>12, <2>2
<1>13. Nat \subseteq T
  <2> HIDE DEF T
  <2> QED  BY <1>11, <1>12, SetInduction
<1>14. f0[logn] \in S /\ (Depth(f0[logn]) <= logn - logn \/ Depth(f0[logn]) = Depth(a))
  BY <1>1, <1>13
<1>15. Depth(f0[logn]) \in Nat /\ Depth(f0[logn]) >= Depth(a)
  BY <1>4, <1>14 DEF S
<1>16. Depth(f0[logn]) = Depth(a)
  BY <1>1, <1>2, <1>14, <1>15
<1>17. f0[logn] = a
  BY <1>4, <1>14, <1>16
<1> QED  BY <1>5, <1>17 DEF i0, o

-----------------------------------------------------------------------------
(* The invariant.                                                          *)

\* the nodes lent when b is what is not freed
TakenOf(b) ==
  {i \in Index : b[First(i)] # <<>> /\ SizeOf(i) = Units(b[First(i)][1])}

\* each block is lent once and is a node; every entry is good for the nodes lent
BuddyOK(l, b) ==
  /\ l \in Tree /\ b \in [0 .. BUDDY_SIZE - 1 -> Seq(1 .. BUDDY_SIZE)]
  /\ \A o \in 0 .. BUDDY_SIZE - 1 : b[o] # <<>> =>
       Len(b[o]) = 1 /\ \E i \in Index : First(i) = o /\ SizeOf(i) = Units(b[o][1])
  /\ \A x \in Index : Good(l, TakenOf(b), x)

BuddyInv == BuddyOK(longest, lent)

\* the nodes above i
Above(i) == {w \in Index : UnitsOf(i) \subseteq UnitsOf(w) /\ Depth(w) < Depth(i)}

\* With a node its parent is above i, and the parent of i is.
LEMMA AboveClosed ==
  ASSUME NEW i \in Index
  PROVE  /\ Above(i) \in SUBSET Index /\ i \notin Above(i)
         /\ \A w \in Above(i) : First(i) \in UnitsOf(w)
         /\ \A w \in Above(i) : w # 0 => PARENT(w) \in Above(i)
         /\ i # 0 => PARENT(i) \in Above(i)
<1>1. Depth(i) \in Nat /\ First(i) \in UnitsOf(i)
  BY NodeTypes, FirstUnit
<1>2. i \notin Above(i) /\ \A w \in Above(i) : First(i) \in UnitsOf(w)
  BY <1>1 DEF Above
<1>3. ASSUME NEW w \in Above(i), w # 0 PROVE PARENT(w) \in Above(i)
  <2>1. w \in Index /\ UnitsOf(i) \subseteq UnitsOf(w) /\ Depth(w) < Depth(i)
    BY DEF Above
  <2>2. PARENT(w) \in Index /\ Depth(w) = Depth(PARENT(w)) + 1
        /\ UnitsOf(w) \subseteq UnitsOf(PARENT(w))
    BY <1>3, <2>1, Parents
  <2>3. Depth(PARENT(w)) \in Nat
    BY <2>2, NodeTypes
  <2>4. Depth(PARENT(w)) < Depth(i)
    BY <1>1, <2>1, <2>2, <2>3
  <2> QED  BY <2>1, <2>2, <2>4 DEF Above
<1>4. ASSUME i # 0 PROVE PARENT(i) \in Above(i)
  <2>1. PARENT(i) \in Index /\ Depth(i) = Depth(PARENT(i)) + 1
        /\ UnitsOf(i) \subseteq UnitsOf(PARENT(i))
    BY <1>4, Parents
  <2>2. Depth(PARENT(i)) \in Nat
    BY <2>1, NodeTypes
  <2>3. Depth(PARENT(i)) < Depth(i)
    BY <1>1, <2>1, <2>2
  <2> QED  BY <2>1, <2>3 DEF Above
<1> QED  BY <1>2, <1>3, <1>4 DEF Above

\* A sequence of one element.
LEMMA Single ==
  ASSUME NEW S, NEW e \in S
  PROVE  /\ Append(<<>>, e) = <<e>> /\ <<e>> \in Seq(S) /\ Len(<<e>>) = 1 /\ <<e>>[1] = e
         /\ <<e>> # <<>> /\ <<>> \in Seq(S)
         /\ \A s \in Seq(S) : Len(s) = 1 => Tail(s) = <<>> /\ s[1] \in S /\ s # <<>>
<1>1. /\ Append(<<>>, e) = <<e>> /\ <<e>> \in Seq(S) /\ Len(<<e>>) = 1 /\ <<e>>[1] = e
      /\ <<e>> # <<>> /\ <<>> \in Seq(S)
  OBVIOUS
<1>2. ASSUME NEW s \in Seq(S), Len(s) = 1 PROVE Tail(s) = <<>> /\ s[1] \in S /\ s # <<>>
  <2>1. s # <<>> /\ s[1] \in S
    <3>1. Len(<<>>) = 0 /\ 1 \in 1 .. Len(s)
      BY <1>2, EmptyConcat
    <3> QED  BY <1>2, <3>1, ElementOfSeq
  <2>2. Tail(s) \in Seq(S) /\ Len(Tail(s)) = 0
    BY <1>2, <2>1, TailElements
  <2>3. Tail(s) = <<>>
    BY <2>2, EmptySeq
  <2> QED  BY <2>1, <2>3
<1> QED  BY <1>1, <1>2

\* A node whose first unit is not lent becomes the one more that is taken.
LEMMA TakenMore ==
  ASSUME NEW b, b \in [0 .. BUDDY_SIZE - 1 -> Seq(1 .. BUDDY_SIZE)], NEW i \in Index,
         NEW size \in 1 .. BUDDY_SIZE, SizeOf(i) = Units(size), b[First(i)] = <<>>
  PROVE  TakenOf([b EXCEPT ![First(i)] = <<size>>]) = TakenOf(b) \cup {i}
<1> DEFINE c == [b EXCEPT ![First(i)] = <<size>>]
<1>1. First(i) \in 0 .. BUDDY_SIZE - 1
  BY NodeFacts
<1>2. c[First(i)] = <<size>> /\ \A o \in 0 .. BUDDY_SIZE - 1 : o # First(i) => c[o] = b[o]
  BY <1>1
<1>3. <<size>> # <<>> /\ <<size>>[1] = size
  OBVIOUS
<1> HIDE DEF c
<1>4. ASSUME NEW x \in Index PROVE x \in TakenOf(c) <=> x \in TakenOf(b) \/ x = i
  <2>1. First(x) \in 0 .. BUDDY_SIZE - 1
    BY NodeFacts
  <2>2. CASE First(x) = First(i)
    <3>1. x \in TakenOf(c) <=> SizeOf(x) = SizeOf(i)
      BY <1>2, <1>3, <2>2 DEF TakenOf
    <3>2. x \notin TakenOf(b)
      BY <2>2 DEF TakenOf
    <3> QED  BY <2>2, <3>1, <3>2, NodeIs
  <2>3. CASE First(x) # First(i)
    BY <1>2, <2>1, <2>3 DEF TakenOf
  <2> QED  BY <2>2, <2>3
<1>5. TakenOf(c) \in SUBSET Index /\ TakenOf(b) \in SUBSET Index
  BY DEF TakenOf
<1>6. TakenOf(c) = TakenOf(b) \cup {i}
  BY <1>4, <1>5
<1> QED  BY <1>6 DEF c

\* A node whose block is freed is no longer taken.
LEMMA TakenLess ==
  ASSUME NEW b, b \in [0 .. BUDDY_SIZE - 1 -> Seq(1 .. BUDDY_SIZE)], NEW i \in TakenOf(b)
  PROVE  TakenOf([b EXCEPT ![First(i)] = <<>>]) = TakenOf(b) \ {i}
<1> DEFINE c == [b EXCEPT ![First(i)] = <<>>]
<1>1. i \in Index /\ SizeOf(i) = Units(b[First(i)][1])
  BY DEF TakenOf
<1>2. First(i) \in 0 .. BUDDY_SIZE - 1
  BY <1>1, NodeFacts
<1>3. c[First(i)] = <<>> /\ \A o \in 0 .. BUDDY_SIZE - 1 : o # First(i) => c[o] = b[o]
  BY <1>2
<1> HIDE DEF c
<1>4. ASSUME NEW x \in Index PROVE x \in TakenOf(c) <=> x \in TakenOf(b) /\ x # i
  <2>1. First(x) \in 0 .. BUDDY_SIZE - 1
    BY NodeFacts
  <2>2. CASE First(x) = First(i)
    <3>1. x \notin TakenOf(c)
      BY <1>3, <2>2 DEF TakenOf
    <3>2. x \in TakenOf(b) => SizeOf(x) = SizeOf(i)
      BY <1>1, <2>2 DEF TakenOf
    <3> QED  BY <1>1, <2>2, <3>1, <3>2, NodeIs
  <2>3. CASE First(x) # First(i)
    BY <1>3, <2>1, <2>3 DEF TakenOf
  <2> QED  BY <2>2, <2>3
<1>5. TakenOf(c) \in SUBSET Index /\ TakenOf(b) \in SUBSET Index
  BY DEF TakenOf
<1>6. TakenOf(c) = TakenOf(b) \ {i}
  BY <1>4, <1>5
<1> QED  BY <1>6 DEF c

\* buddy_new: every node is whole and none is lent.
LEMMA BuddyStart ==
  ASSUME buddy_new PROVE BuddyInv
<1>1. longest = [i \in Index |-> Full(i)] /\ lent = [o \in 0 .. BUDDY_SIZE - 1 |-> <<>>]
  BY DEF buddy_new, Full
<1>2. longest \in Tree
  <2>1. \A i \in Index : Full(i) \in 0 .. logn + 1
    <3>1. ASSUME NEW i \in Index PROVE Full(i) \in 0 .. logn + 1
      <4>1. Full(i) \in 1 .. logn + 1 /\ logn \in Nat
        BY NodeFacts, NodeTypes
      <4> QED  BY <4>1
    <3> QED  BY <3>1
  <2> QED  BY <1>1, <2>1 DEF Tree
<1>3. lent \in [0 .. BUDDY_SIZE - 1 -> Seq(1 .. BUDDY_SIZE)]
  <2>1. <<>> \in Seq(1 .. BUDDY_SIZE)
    OBVIOUS
  <2> QED  BY <1>1, <2>1
<1>4. \A o \in 0 .. BUDDY_SIZE - 1 : lent[o] = <<>>
  BY <1>1
<1>5. TakenOf(lent) = {}
  BY <1>4, NodeFacts DEF TakenOf
<1>6. ASSUME NEW x \in Index PROVE Good(longest, {}, x)
  <2>1. longest[x] = Full(x) /\ Full(x) \in Nat
    BY <1>1, NodeTypes
  <2>2. Inner(x) => longest[LEFT_CHILD(x)] = Full(x) - 1 /\ longest[RIGHT_CHILD(x)] = Full(x) - 1
    BY <1>1, Sons
  <2> QED  BY <2>1, <2>2 DEF Good
<1> QED  BY <1>2, <1>3, <1>4, <1>5, <1>6 DEF BuddyInv, BuddyOK

\* buddy_alloc: the node found becomes lent, and the entries above it follow.
LEMMA BuddyAlloc ==
  ASSUME BuddyInv, NEW size \in 1 .. BUDDY_SIZE, buddy_alloc(size)
  PROVE  BuddyInv'
<1> DEFINE A == TakenOf(lent)
           i == Descend(Units(size))
           o == First(i)
           l0 == [longest EXCEPT ![i] = 0]
           b == [lent EXCEPT ![o] = <<size>>]
           B == A \cup {i}
<1>1. /\ longest \in Tree /\ lent \in [0 .. BUDDY_SIZE - 1 -> Seq(1 .. BUDDY_SIZE)]
      /\ \A q \in 0 .. BUDDY_SIZE - 1 : lent[q] # <<>> =>
           Len(lent[q]) = 1 /\ \E a \in Index : First(a) = q /\ SizeOf(a) = Units(lent[q][1])
      /\ \A x \in Index : Good(longest, A, x)
  BY DEF BuddyInv, BuddyOK
<1>2. /\ NODE_SIZE(longest[0]) >= Units(size)
      /\ longest' = Upwards(l0, i, FALSE)
      /\ lent' = [lent EXCEPT ![(i + 1) * Units(size) - BUDDY_SIZE] = Append(@, size)]
  BY DEF buddy_alloc
<1>3. A \in SUBSET Index
  BY DEF TakenOf
<1> HIDE DEF A
<1>4. i \in Index /\ SizeOf(i) = Units(size) /\ longest[i] = Full(i) /\ Clear(A, i)
  <2>1. PICK e \in 0 .. logn : Units(size) = shl(e)
    BY RoundedUp
  <2>2. LET j == Descend(shl(e))
        IN  j \in Index /\ SizeOf(j) = shl(e) /\ longest[j] = Full(j) /\ Clear(A, j)
    BY <1>1, <1>2, <1>3, <2>1, DescendEnds
  <2> QED  BY <2>1, <2>2
<1> HIDE DEF i
<1>5. o = (i + 1) * Units(size) - BUDDY_SIZE /\ o \in 0 .. BUDDY_SIZE - 1 /\ o \in UnitsOf(i)
  <2>1. o = (i + 1) * Units(size) - BUDDY_SIZE
    BY <1>4 DEF First
  <2> QED  BY <1>4, <2>1, NodeFacts, FirstUnit
<1>6. \A a \in A, u \in UnitsOf(i) : u \notin UnitsOf(a)
  BY <1>1, <1>3, <1>4, WholeFree
<1>7. lent[o] = <<>>
  <2> SUFFICES ASSUME lent[o] # <<>> PROVE FALSE
    OBVIOUS
  <2>1. PICK a \in Index : First(a) = o /\ SizeOf(a) = Units(lent[o][1])
    BY <1>1, <1>5
  <2>2. a \in A
    BY <2>1 DEF A, TakenOf
  <2>3. o \in UnitsOf(a)
    BY <2>1, FirstUnit
  <2> QED  BY <1>5, <1>6, <2>2, <2>3
<1>8. lent' = b
  <2>1. Append(<<>>, size) = <<size>>
    BY Single
  <2> HIDE DEF o
  <2> QED  BY <1>1, <1>2, <1>5, <1>7, <2>1
<1>9. b \in [0 .. BUDDY_SIZE - 1 -> Seq(1 .. BUDDY_SIZE)] /\ b[o] = <<size>>
      /\ \A q \in 0 .. BUDDY_SIZE - 1 : q # o => b[q] = lent[q]
  <2>1. <<size>> \in Seq(1 .. BUDDY_SIZE)
    BY Single
  <2> HIDE DEF o
  <2> QED  BY <1>1, <1>5, <2>1
<1>10. TakenOf(b) = B
  BY <1>1, <1>4, <1>7, TakenMore DEF A
<1>11. \A q \in 0 .. BUDDY_SIZE - 1 : b[q] # <<>> =>
         Len(b[q]) = 1 /\ \E a \in Index : First(a) = q /\ SizeOf(a) = Units(b[q][1])
  <2>1. Len(<<size>>) = 1 /\ <<size>>[1] = size
    BY Single
  <2> HIDE DEF b
  <2> QED  BY <1>1, <1>4, <1>9, <2>1
<1> HIDE DEF b
<1>12. l0 \in Tree
  <2>1. 0 \in 0 .. logn + 1
    BY Sizes
  <2> QED  BY <1>1, <2>1 DEF Tree
<1>13. Above(i) \in SUBSET (Index \ B)
  BY <1>4, <1>5, <1>6, AboveClosed
<1>14. ASSUME NEW x \in Index, x # PARENT(i) PROVE Good(l0, B, x)
  <2>1. CASE x = i
    <3>1. l0[i] = 0 /\ Full(i) \in Nat
      BY <1>1, <1>4, NodeTypes DEF Tree
    <3>2. ASSUME Inner(i)
          PROVE  l0[LEFT_CHILD(i)] = Full(i) - 1 /\ l0[RIGHT_CHILD(i)] = Full(i) - 1
      <4>1. LEFT_CHILD(i) \in Index /\ RIGHT_CHILD(i) \in Index
            /\ LEFT_CHILD(i) # i /\ RIGHT_CHILD(i) # i
        <5>1. i \in Nat
          BY <1>4, NodeFacts
        <5> QED  BY <1>4, <3>2, <5>1, Sons DEF LEFT_CHILD, RIGHT_CHILD
      <4>2. longest[LEFT_CHILD(i)] = Full(i) - 1 /\ longest[RIGHT_CHILD(i)] = Full(i) - 1
        BY <1>1, <1>4, <3>2 DEF Good
      <4> QED  BY <1>1, <4>1, <4>2 DEF Tree
    <3> HIDE DEF l0
    <3> QED  BY <2>1, <3>1, <3>2 DEF Good
  <2>2. CASE x # i
    <3>1. Good(longest, A, x) /\ (x \in A <=> x \in B)
      BY <1>1, <2>2
    <3> HIDE DEF B
    <3> QED  BY <1>1, <1>4, <1>14, <2>2, <3>1, GoodElsewhere
  <2> QED  BY <2>1, <2>2
<1> HIDE DEF l0
<1>15. B \in SUBSET Index
  BY <1>3, <1>4
<1> HIDE DEF B
<1>16. longest' \in Tree /\ \A x \in Index : Good(longest', B, x)
  <2>1. /\ \A w \in Above(i) : w # 0 => PARENT(w) \in Above(i)
        /\ i # 0 => PARENT(i) \in Above(i)
    BY <1>4, AboveClosed
  <2>2. FALSE \in BOOLEAN
    OBVIOUS
  <2> QED  BY <1>2, <1>4, <1>12, <1>13, <1>14, <1>15, <2>1, <2>2, UpwardsGood
<1>17. BuddyOK(longest', b)
  BY <1>9, <1>10, <1>11, <1>16 DEF BuddyOK
<1> QED  BY <1>8, <1>17 DEF BuddyInv, BuddyOK, Good, TakenOf, Tree

\* buddy_free: the walk up finds the node lent at the offset, which is whole again.
LEMMA BuddyFree ==
  ASSUME BuddyInv, NEW offset \in 0 .. BUDDY_SIZE - 1, buddy_free(offset)
  PROVE  BuddyInv'
<1> DEFINE A == TakenOf(lent)
           j == Climb(offset + BUDDY_SIZE - 1)
           b == [lent EXCEPT ![offset] = <<>>]
<1>1. /\ longest \in Tree /\ lent \in [0 .. BUDDY_SIZE - 1 -> Seq(1 .. BUDDY_SIZE)]
      /\ \A q \in 0 .. BUDDY_SIZE - 1 : lent[q] # <<>> =>
           Len(lent[q]) = 1 /\ \E a \in Index : First(a) = q /\ SizeOf(a) = Units(lent[q][1])
      /\ \A x \in Index : Good(longest, A, x)
  BY DEF BuddyInv, BuddyOK
<1>2. /\ lent[offset] # <<>>
      /\ longest' = IF longest[j] # 0 THEN longest
                    ELSE Upwards([longest EXCEPT ![j] = logn - Depth(j) + 1], j, TRUE)
      /\ lent' = [lent EXCEPT ![offset] = Tail(@)]
  BY DEF buddy_free
<1>3. A \in SUBSET Index
  BY DEF TakenOf
<1>4. PICK i \in A : First(i) = offset
  BY <1>1, <1>2 DEF TakenOf
<1> HIDE DEF A
<1>5. j = i /\ i \in Index /\ longest[i] = 0
  <2>1. j = i
    BY <1>1, <1>3, <1>4, ClimbEnds
  <2> QED  BY <1>1, <1>3, <2>1 DEF Good
<1> DEFINE l0 == [longest EXCEPT ![i] = Full(i)]
           B == A \ {i}
<1>6. longest' = Upwards(l0, i, TRUE)
  BY <1>2, <1>5 DEF Full
<1>7. lent' = b
  <2>1. lent[offset] \in Seq(1 .. BUDDY_SIZE) /\ Len(lent[offset]) = 1
    BY <1>1, <1>2
  <2>2. Tail(lent[offset]) = <<>>
    <3>1. BUDDY_SIZE \in 1 .. BUDDY_SIZE
      BY Sizes
    <3> QED  BY <2>1, <3>1, Single
  <2> QED  BY <1>1, <1>2, <2>2
<1>8. b \in [0 .. BUDDY_SIZE - 1 -> Seq(1 .. BUDDY_SIZE)] /\ b[offset] = <<>>
      /\ \A q \in 0 .. BUDDY_SIZE - 1 : q # offset => b[q] = lent[q]
  <2>1. <<>> \in Seq(1 .. BUDDY_SIZE)
    OBVIOUS
  <2> QED  BY <1>1, <2>1
<1>9. TakenOf(b) = B
  BY <1>1, <1>4, TakenLess DEF A
<1> HIDE DEF b
<1>10. \A q \in 0 .. BUDDY_SIZE - 1 : b[q] # <<>> =>
         Len(b[q]) = 1 /\ \E a \in Index : First(a) = q /\ SizeOf(a) = Units(b[q][1])
  BY <1>1, <1>8
<1>11. l0 \in Tree
  <2>1. Full(i) \in 1 .. logn + 1 /\ logn \in Nat
    BY <1>5, NodeFacts, NodeTypes
  <2>2. Full(i) \in 0 .. logn + 1
    BY <2>1
  <2> QED  BY <1>1, <2>2 DEF Tree
<1>12. Above(i) \in SUBSET (Index \ B)
  <2> SUFFICES ASSUME NEW w \in Above(i), w \in A PROVE w = i
    BY <1>5, AboveClosed
  <2>1. First(i) \in UnitsOf(w) /\ First(i) \in UnitsOf(i)
    BY <1>5, AboveClosed, FirstUnit
  <2>2. \A x \in Index : Good(longest, A, x)
    BY <1>1
  <2>3. i \in A
    BY <1>4
  <2> QED  BY <1>3, <2>1, <2>2, <2>3, LentApart
<1>13. ASSUME NEW x \in Index, x # PARENT(i) PROVE Good(l0, B, x)
  <2>1. CASE x = i
    <3>1. l0[i] = Full(i) /\ Full(i) \in Nat
      BY <1>1, <1>5, NodeTypes DEF Tree
    <3>2. ASSUME Inner(i)
          PROVE  l0[LEFT_CHILD(i)] = Full(i) - 1 /\ l0[RIGHT_CHILD(i)] = Full(i) - 1
      <4>1. LEFT_CHILD(i) \in Index /\ RIGHT_CHILD(i) \in Index
            /\ LEFT_CHILD(i) # i /\ RIGHT_CHILD(i) # i
        <5>1. i \in Nat
          BY <1>5, NodeFacts
        <5> QED  BY <1>5, <3>2, <5>1, Sons DEF LEFT_CHILD, RIGHT_CHILD
      <4>2. longest[LEFT_CHILD(i)] = Full(i) - 1 /\ longest[RIGHT_CHILD(i)] = Full(i) - 1
        BY <1>1, <1>5, <3>2 DEF Good
      <4> QED  BY <1>1, <4>1, <4>2 DEF Tree
    <3>3. i \notin B
      OBVIOUS
    <3> HIDE DEF l0, B
    <3> QED  BY <2>1, <3>1, <3>2, <3>3 DEF Good
  <2>2. CASE x # i
    <3>1. Good(longest, A, x) /\ (x \in A <=> x \in B)
      BY <1>1, <2>2
    <3> HIDE DEF B
    <3> QED  BY <1>1, <1>5, <1>13, <2>2, <3>1, GoodElsewhere
  <2> QED  BY <2>1, <2>2
<1> HIDE DEF l0
<1>14. B \in SUBSET Index
  BY <1>3
<1> HIDE DEF B
<1>15. longest' \in Tree /\ \A x \in Index : Good(longest', B, x)
  <2>1. /\ \A w \in Above(i) : w # 0 => PARENT(w) \in Above(i)
        /\ i # 0 => PARENT(i) \in Above(i)
    BY <1>5, AboveClosed
  <2>2. TRUE \in BOOLEAN
    OBVIOUS
  <2> QED  BY <1>5, <1>6, <1>11, <1>12, <1>13, <1>14, <2>1, <2>2, UpwardsGood
<1>16. BuddyOK(longest', b)
  BY <1>8, <1>9, <1>10, <1>15 DEF BuddyOK
<1> QED  BY <1>7, <1>16 DEF BuddyInv, BuddyOK, Good, TakenOf, Tree

\* Every allocation and every release keeps the invariant.
LEMMA BuddyStep ==
  ASSUME BuddyInv, [BuddyNext]_buddyVars
  PROVE  BuddyInv'
<1>1. CASE BuddyNext
  BY <1>1, BuddyAlloc, BuddyFree DEF BuddyNext
<1>2. CASE UNCHANGED buddyVars
  BY <1>2 DEF buddyVars, BuddyInv, BuddyOK, Good, TakenOf, Tree
<1> QED  BY <1>1, <1>2

\* The blocks that are not freed are the nodes that are taken.
LEMMA BlockNodes ==
  ASSUME BuddyInv
  PROVE  /\ TakenOf(lent) \in SUBSET Index /\ \A x \in Index : Good(longest, TakenOf(lent), x)
         /\ \A o \in Blocks : /\ Len(lent[o]) = 1 /\ lent[o][1] \in 1 .. BUDDY_SIZE
                              /\ o \in 0 .. BUDDY_SIZE - 1
                              /\ \E a \in TakenOf(lent) :
                                   First(a) = o /\ SizeOf(a) = Units(lent[o][1])
                                   /\ UnitsOf(a) = o .. o + Units(lent[o][1]) - 1
         /\ \A a \in TakenOf(lent) :
              First(a) \in Blocks
              /\ UnitsOf(a) = First(a) .. First(a) + Units(lent[First(a)][1]) - 1
<1>1. /\ lent \in [0 .. BUDDY_SIZE - 1 -> Seq(1 .. BUDDY_SIZE)]
      /\ \A o \in 0 .. BUDDY_SIZE - 1 : lent[o] # <<>> =>
           Len(lent[o]) = 1 /\ \E a \in Index : First(a) = o /\ SizeOf(a) = Units(lent[o][1])
      /\ \A x \in Index : Good(longest, TakenOf(lent), x)
  BY DEF BuddyInv, BuddyOK
<1>2. TakenOf(lent) \in SUBSET Index
  BY DEF TakenOf
<1>3. ASSUME NEW o \in Blocks
      PROVE  /\ Len(lent[o]) = 1 /\ lent[o][1] \in 1 .. BUDDY_SIZE /\ o \in 0 .. BUDDY_SIZE - 1
             /\ \E a \in TakenOf(lent) : First(a) = o /\ SizeOf(a) = Units(lent[o][1])
                                         /\ UnitsOf(a) = o .. o + Units(lent[o][1]) - 1
  <2>1. o \in 0 .. BUDDY_SIZE - 1 /\ lent[o] # <<>>
    BY <1>1 DEF Blocks
  <2>2. Len(lent[o]) = 1 /\ lent[o] \in Seq(1 .. BUDDY_SIZE)
    BY <1>1, <2>1
  <2>3. lent[o][1] \in 1 .. BUDDY_SIZE
    <3>1. 1 \in 1 .. Len(lent[o])
      BY <2>2
    <3> QED  BY <2>2, <3>1, ElementOfSeq
  <2>4. PICK a \in Index : First(a) = o /\ SizeOf(a) = Units(lent[o][1])
    BY <1>1, <2>1
  <2>5. a \in TakenOf(lent)
    BY <2>1, <2>4 DEF TakenOf
  <2>6. UnitsOf(a) = o .. o + Units(lent[o][1]) - 1
    BY <2>4, NodeFacts
  <2> QED  BY <2>1, <2>2, <2>3, <2>4, <2>5, <2>6
<1>4. ASSUME NEW a \in TakenOf(lent)
      PROVE  /\ First(a) \in Blocks
             /\ UnitsOf(a) = First(a) .. First(a) + Units(lent[First(a)][1]) - 1
  <2>1. a \in Index /\ lent[First(a)] # <<>> /\ SizeOf(a) = Units(lent[First(a)][1])
    BY DEF TakenOf
  <2>2. First(a) \in 0 .. BUDDY_SIZE - 1 /\ UnitsOf(a) = First(a) .. First(a) + SizeOf(a) - 1
    BY <2>1, NodeFacts
  <2> QED  BY <1>1, <2>1, <2>2 DEF Blocks
<1> QED  BY <1>1, <1>2, <1>3, <1>4

\* Nodes that are taken have no unit in common, so the blocks are disjoint.
LEMMA DisjointOfInv ==
  ASSUME BuddyInv PROVE BlocksDisjoint
<1> DEFINE A == TakenOf(lent)
<1>1. A \in SUBSET Index /\ \A x \in Index : Good(longest, A, x)
  BY BlockNodes
<1>2. ASSUME NEW o \in Blocks
      PROVE  /\ Len(lent[o]) = 1 /\ lent[o][1] \in 1 .. BUDDY_SIZE /\ o \in 0 .. BUDDY_SIZE - 1
             /\ \E a \in A : First(a) = o /\ SizeOf(a) = Units(lent[o][1])
                             /\ UnitsOf(a) = o .. o + Units(lent[o][1]) - 1
  BY BlockNodes
<1> HIDE DEF A
<1>3. BUDDY_SIZE \in Nat
  BY Sizes
<1>4. ASSUME NEW o \in Blocks PROVE o + lent[o][1] <= BUDDY_SIZE
  <2>1. PICK a \in A : First(a) = o /\ SizeOf(a) = Units(lent[o][1])
    BY <1>2
  <2>2. o + Units(lent[o][1]) <= BUDDY_SIZE
    BY <1>1, <2>1, NodeFacts
  <2>3. Units(lent[o][1]) \in Nat /\ Units(lent[o][1]) >= lent[o][1]
    BY <1>2, RoundedUp
  <2>4. o \in Nat /\ lent[o][1] \in Nat
    BY <1>2, <1>3
  <2> QED  BY <1>3, <2>2, <2>3, <2>4
<1>5. ASSUME NEW o \in Blocks, NEW q \in Blocks, o < q PROVE o + Units(lent[o][1]) <= q
  <2>1. PICK a \in A : First(a) = o /\ UnitsOf(a) = o .. o + Units(lent[o][1]) - 1
    BY <1>2
  <2>2. PICK b \in A : First(b) = q
    BY <1>2
  <2>3. Units(lent[o][1]) \in Nat /\ o \in Nat /\ q \in Nat
    BY <1>2, <1>3, RoundedUp
  <2>4. a # b
    BY <1>5, <2>1, <2>2, <2>3
  <2>5. q \in UnitsOf(b)
    BY <1>1, <2>2, FirstUnit
  <2>6. q \notin UnitsOf(a)
    BY <1>1, <2>4, <2>5, LentApart
  <2> QED  BY <1>5, <2>1, <2>3, <2>6
<1> QED  BY <1>2, <1>4, <1>5 DEF BlocksDisjoint

\* The entry of the root promises what the taken nodes leave.
LEMMA PromiseOfInv ==
  ASSUME BuddyInv PROVE PromiseKept
<1> DEFINE A == TakenOf(lent)
<1>1. A \in SUBSET Index /\ \A x \in Index : Good(longest, A, x)
  BY BlockNodes
<1>2. \A u : u \in LentUnits <=> \E a \in A : u \in UnitsOf(a)
  <2>1. ASSUME NEW o \in Blocks
        PROVE  \E a \in A : UnitsOf(a) = o .. o + Units(lent[o][1]) - 1
    BY BlockNodes
  <2>2. ASSUME NEW a \in A
        PROVE  \E o \in Blocks : UnitsOf(a) = o .. o + Units(lent[o][1]) - 1
    BY BlockNodes
  <2> HIDE DEF A
  <2> QED  BY <2>1, <2>2 DEF LentUnits
<1> HIDE DEF A
<1>3. 0 \in Index /\ Depth(0) = 0 /\ BUDDY_SIZE \in Nat /\ logn \in Nat
  BY Root, Sizes
<1>4. Clear(A, 0)
  <2>1. \A a \in A : Depth(a) \in Nat
    BY <1>1, NodeTypes
  <2> QED  BY <1>3, <2>1 DEF Clear
<1>5. UnitsOf(0) = 0 .. BUDDY_SIZE - 1
  <2>1. SizeOf(0) = BUDDY_SIZE
    BY <1>3 DEF SizeOf, BUDDY_SIZE
  <2>2. First(0) = 0
    BY <1>3, <2>1 DEF First
  <2>3. UnitsOf(0) = 0 .. 0 + BUDDY_SIZE - 1
    BY <1>3, <2>1, <2>2, NodeFacts
  <2> QED  BY <1>3, <2>3
<1>6. /\ longest[0] = 0 => \A u \in UnitsOf(0) : \E a \in A : u \in UnitsOf(a)
      /\ longest[0] # 0 => \E j \in Index : /\ Full(j) = longest[0]
                                           /\ \A u \in UnitsOf(j), a \in A : u \notin UnitsOf(a)
  BY <1>1, <1>3, <1>4, Promised
<1>7. CASE longest[0] = 0
  <2>1. \A a \in A : UnitsOf(a) \subseteq 0 .. BUDDY_SIZE - 1
    <3> SUFFICES ASSUME NEW a \in Index PROVE UnitsOf(a) \subseteq 0 .. BUDDY_SIZE - 1
      BY <1>1
    <3> DEFINE f == First(a)
               m == SizeOf(a)
    <3>1. UnitsOf(a) = f .. f + m - 1 /\ f \in Nat /\ m \in Nat /\ f + m <= BUDDY_SIZE
      BY <1>3, NodeFacts
    <3> HIDE DEF f, m
    <3> QED  BY <1>3, <3>1
  <2>2. LentUnits = 0 .. BUDDY_SIZE - 1
    BY <1>2, <1>5, <1>6, <1>7, <2>1
  <2> QED  BY <1>7, <2>2 DEF PromiseKept
<1>8. CASE longest[0] # 0
  <2>1. PICK j \in Index : /\ Full(j) = longest[0]
                          /\ \A u \in UnitsOf(j), a \in A : u \notin UnitsOf(a)
    BY <1>6, <1>8
  <2>2. UnitsOf(j) \cap LentUnits = {}
    BY <1>2, <2>1
  <2>3. logn - Depth(j) + 1 = longest[0]
    BY <2>1 DEF Full
  <2> QED  BY <1>8, <2>2, <2>3 DEF PromiseKept
<1> QED  BY <1>7, <1>8

\* Whatever is allocated and freed, in whatever order, each block is a node of the
\* tree lent once, a lent node has the entry 0, everything below a lent or a whole
\* node is whole, and every other entry is the larger one of its sons'.
THEOREM MemBuddyInvariant == BuddySpec => []BuddyInv
<1>1. buddy_new => BuddyInv
  BY BuddyStart
<1>2. BuddyInv /\ [BuddyNext]_buddyVars => BuddyInv'
  BY BuddyStep
<1> QED  BY <1>1, <1>2, PTL DEF BuddySpec

\* buddy_alloc hands out no unit that is handed out and not freed, and a block is
\* as large as what was asked and inside the range.
THEOREM BlocksApart == BuddySpec => []BlocksDisjoint
<1>1. BuddyInv => BlocksDisjoint
  BY DisjointOfInv
<1> QED  BY <1>1, MemBuddyInvariant, PTL

\* What the root promises, buddy_alloc can hand out, and it promises nothing only
\* when every unit is taken, although buddy_free merges no sons: a node below which
\* something was lent is not whole again, which costs large blocks, not the promise.
THEOREM RootKeepsPromise == BuddySpec => []PromiseKept
<1>1. BuddyInv => PromiseKept
  BY PromiseOfInv
<1> QED  BY <1>1, MemBuddyInvariant, PTL
=============================================================================
