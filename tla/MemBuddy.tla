------------------------------ MODULE MemBuddy -------------------------------
(***************************************************************************)
(* mem_buddy.c: a buddy allocator of offsets.  The complete binary tree    *)
(* longest has the whole range at index 0 and the single units at its      *)
(* leaves; an entry is 1 + the logarithm of the largest block that can be  *)
(* had below it, or 0.                                                     *)
(***************************************************************************)
EXTENDS Integers, Sequences, FiniteSets, FiniteSetsExt

CONSTANT logn   \* the range has 2^logn units

ASSUME MemBuddyAssumption == logn \in 0 .. 7   \* 1 << logn stays small

VARIABLES
  longest,   \* b->longest
  lent       \* offset |-> the sizes asked for, of the blocks there that are not freed

buddyVars == <<longest, lent>>

\* 1 << k
shl(k) == 2^k

BUDDY_SIZE == shl(logn)
Index == 0 .. 2 * BUDDY_SIZE - 2
PARENT(i) == (i + 1) \div 2 - 1
LEFT_CHILD(i) == 2 * i + 1
RIGHT_CHILD(i) == 2 * i + 2
NODE_SIZE(x) == IF x = 0 THEN 0 ELSE shl(x - 1)

\* fix_size, for a size that is no power of two: the next one
fix_size(size) == Min({x \in {shl(k) : k \in 0 .. logn + 1} : x >= size})

Units(size) ==
  IF \E k \in 0 .. logn : size = shl(k) THEN size ELSE fix_size(size)

Depth(i) == Max({k \in 0 .. logn : shl(k) <= i + 1})

Larger(x, y) == IF x > y THEN x ELSE y

\* faulty variant: sons are merged when one of them is whole
MergedTooSoon(q, x, y) ==
  LET node_logn == logn - Depth(q) + 1
  IN  IF x = node_logn - 1 THEN node_logn ELSE Larger(x, y)

\* what buddy_free writes into an ancestor: node_logn has been incremented when
\* the sons are compared with it, so the first case never applies
Merged(q, x, y) ==
  LET node_logn == logn - Depth(q) + 1
  IN  IF x = y /\ x = node_logn THEN node_logn ELSE Larger(x, y)

\* one turn of the loops up to the root: the parent of at.i is computed anew from
\* its sons
Up(freeing, at) ==
  LET q == PARENT(at.i)
      x == at.l[LEFT_CHILD(q)]
      y == at.l[RIGHT_CHILD(q)]
  IN  IF at.i = 0 THEN at
      ELSE [i |-> q, l |-> [at.l EXCEPT ![q] = IF freeing THEN Merged(q, x, y) ELSE Larger(x, y)]]

\* the walk up from i; no path has more than logn steps
Upwards(l, i, freeing) ==
  LET at[k \in Nat] == IF k = 0 THEN [i |-> i, l |-> l] ELSE Up(freeing, at[k - 1])
  IN  at[logn].l

\* faulty variant: a left son half as large is entered
DownTooSmall(size, at) ==
  IF at.node_size = size THEN at
  ELSE [node_size |-> at.node_size \div 2,
        i |-> IF 2 * NODE_SIZE(longest[LEFT_CHILD(at.i)]) >= size
              THEN LEFT_CHILD(at.i) ELSE RIGHT_CHILD(at.i)]

\* one turn of the loop of buddy_alloc down to a node of the wanted size
Down(size, at) ==
  IF at.node_size = size THEN at
  ELSE [node_size |-> at.node_size \div 2,
        i |-> IF NODE_SIZE(longest[LEFT_CHILD(at.i)]) >= size
              THEN LEFT_CHILD(at.i) ELSE RIGHT_CHILD(at.i)]

Descend(size) ==
  LET at[k \in Nat] == IF k = 0 THEN [i |-> 0, node_size |-> BUDDY_SIZE]
                       ELSE Down(size, at[k - 1])
  IN  at[logn].i

\* the loop of buddy_free: up to the first entry that is 0, or to the root
Climb(i) ==
  LET at[k \in Nat] == IF k = 0 THEN i
                       ELSE IF longest[at[k - 1]] = 0 \/ at[k - 1] = 0 THEN at[k - 1]
                       ELSE PARENT(at[k - 1])
  IN  at[logn]

-----------------------------------------------------------------------------
buddy_new ==
  /\ longest = [i \in Index |-> logn - Depth(i) + 1]
  /\ lent = [o \in 0 .. BUDDY_SIZE - 1 |-> <<>>]

\* buddy_alloc; size 0 is outside its contract (the descent leaves the tree)
buddy_alloc(size) ==
  LET i == Descend(Units(size))
      offset == (i + 1) * Units(size) - BUDDY_SIZE
  IN  /\ NODE_SIZE(longest[0]) >= Units(size)
      /\ longest' = Upwards([longest EXCEPT ![i] = 0], i, FALSE)
      /\ lent' = [lent EXCEPT ![offset] = Append(@, size)]

\* buddy_free; when no entry on the way is 0, it returns
buddy_free(offset) ==
  LET i == Climb(offset + BUDDY_SIZE - 1)
  IN  /\ lent[offset] # <<>>
      /\ longest' = IF longest[i] # 0 THEN longest
                    ELSE Upwards([longest EXCEPT ![i] = logn - Depth(i) + 1], i, TRUE)
      /\ lent' = [lent EXCEPT ![offset] = Tail(@)]

BuddyNext ==
  \/ \E size \in 1 .. BUDDY_SIZE : buddy_alloc(size)
  \/ \E offset \in 0 .. BUDDY_SIZE - 1 : buddy_free(offset)

BuddySpec == buddy_new /\ [][BuddyNext]_buddyVars

-----------------------------------------------------------------------------
Blocks == {o \in DOMAIN lent : lent[o] # <<>>}

\* The blocks handed out and not freed are disjoint and inside the range, none
\* handed out a second time, each large enough for what was asked, whatever was
\* allocated and freed before.
BlocksDisjoint ==
  \A o \in Blocks :
    /\ Len(lent[o]) = 1 /\ o + lent[o][1] <= BUDDY_SIZE
    /\ \A q \in Blocks : o < q => o + Units(lent[o][1]) <= q

\* the units of node i
UnitsOf(i) ==
  LET size == shl(logn - Depth(i)) first == (i + 1) * size - BUDDY_SIZE
  IN  first .. first + size - 1

LentUnits == UNION {o .. o + Units(lent[o][1]) - 1 : o \in Blocks}

\* The entry of the root promises what can be had: while it is not 0 there is
\* an aligned free block of the promised size, so the descent ends at one; and
\* it is 0 only when every unit is taken, so a freed unit can be had again.
PromiseKept ==
  IF longest[0] = 0 THEN LentUnits = 0 .. BUDDY_SIZE - 1
  ELSE \E i \in Index :
         logn - Depth(i) + 1 = longest[0] /\ UnitsOf(i) \cap LentUnits = {}
=============================================================================
