------------------------------- MODULE MemPool -------------------------------
(***************************************************************************)
(* mem_pool.c: the pool of fixed-size blocks that the worker takes its     *)
(* threads, resources, buffers and all of Lua's memory from.  Each size    *)
(* class keeps its recycled blocks on a singly linked list threaded        *)
(* through the first word of the block, the union p: of a block in use it  *)
(* is the class the block belongs to, of a recycled block the next one.    *)
(***************************************************************************)
EXTENDS Null, Integers, Sequences, FiniteSets, SequencesExt, FiniteSetsExt

CONSTANTS
  Block,     \* the addresses malloc can return
  FSize,     \* the sizes given to memp_new, in any order
  MaxSize    \* callers ask for 1 .. MaxSize bytes

ASSUME MemPoolAssumption ==
  /\ IsFiniteSet(Block) /\ NULL \notin Block
  /\ FSize \in Seq(Nat \ {0}) /\ Len(FSize) > 0
  /\ MaxSize \in Nat \ {0}

VARIABLES
  header,   \* p->f[i].header
  p,        \* the first word of a block: a class number, a block or NULL
  cap,      \* bytes malloc gave the block, 0 when malloc owns it
  used,     \* p->used
  empty,    \* p->empty
  held,     \* block |-> bytes asked for, of the blocks callers hold
  copied,   \* <<bytes, from, to>> of the memcpy of the last memp_realloc
  alive     \* FALSE once memp_destroy has run

poolVars == <<header, p, cap, used, empty, held, copied, alive>>

\* the class sizes as memp_new's exchange sort leaves them, and class n + 1 for
\* blocks that fit no class, whose size the code writes as -1
n == Len(FSize)
BIG == n + 1
Size == CHOOSE s \in {[i \in 1 .. n |-> FSize[f[i]]] : f \in Bijection(1 .. n, 1 .. n)} :
          \A i, j \in 1 .. n : i < j => s[i] <= s[j]

\* one turn of the loop of utils.h binary_search on p->f, with C's indices
\* 0 .. n - 1; where the loop breaks or has ended, a turn changes nothing more
Turn(size, at) ==
  LET mid == (at.left + at.right) \div 2
  IN  IF at.left >= at.right THEN at
      ELSE IF Size[mid + 1] = size THEN [left |-> mid, right |-> mid]
      ELSE IF Size[mid + 1] < size THEN [at EXCEPT !.left = mid + 1]
      ELSE [at EXCEPT !.right = mid - 1]

\* binary_search: each turn narrows the range, so that n of them are enough
Bisect(size) ==
  LET at[k \in Nat] == IF k = 0 THEN [left |-> 0, right |-> n - 1] ELSE Turn(size, at[k - 1])
  IN  at[n].left

\* faulty variant: the answer of the search is not corrected
ClassOfNoStep(size) == Bisect(size) + 1

\* memp_alloc 57-60: the class a request is served from
ClassOf(size) ==
  LET i == Bisect(size) + 1
  IN  IF Size[i] < size THEN i + 1 ELSE i

-----------------------------------------------------------------------------
(* The functions of mem_pool.c map the pool they find to the one they      *)
(* leave; memp_realloc is made of the other two.                           *)

Pool == [header |-> header, p |-> p, cap |-> cap, used |-> used, empty |-> empty,
         held |-> held]

Hold(s, b, size) == [s EXCEPT !.held = [c \in DOMAIN s.held \cup {b} |->
                                          IF c = b THEN size ELSE s.held[c]]]
Drop(s, b) == [s EXCEPT !.held = [c \in DOMAIN s.held \ {b} |-> s.held[c]]]

\* the block memp_alloc returns for size, when malloc would return fresh
Granted(s, size, fresh) ==
  LET i == ClassOf(size)
  IN  IF i < BIG /\ s.header[i] # NULL THEN s.header[i] ELSE fresh

\* faulty variant: a listed block stays on its list
ServedStaysListed(s, i, b, listed) ==
  [s EXCEPT !.used = @ + Size[i], !.p[b] = i, !.cap[b] = Size[i]]

\* the accounting and the list after a block of class i is handed out
Served(s, i, b, listed) ==
  LET s1 == [s EXCEPT !.used = @ + Size[i], !.p[b] = i]
  IN  IF listed THEN [s1 EXCEPT !.header[i] = s.p[b], !.empty = @ - Size[i]]
      ELSE [s1 EXCEPT !.cap[b] = Size[i]]

memp_alloc(s, size, fresh) ==
  LET i == ClassOf(size)
      b == Granted(s, size, fresh)
  IN  Hold(IF i >= BIG THEN [s EXCEPT !.cap[b] = size, !.p[b] = BIG]
           ELSE Served(s, i, b, s.header[i] # NULL), b, size)

memp_recycle(s, b) ==
  LET f == s.p[b] IN
  IF f = BIG THEN Drop([s EXCEPT !.cap[b] = 0, !.p[b] = NULL], b)
  ELSE Drop([s EXCEPT !.p[b] = s.header[f], !.header[f] = b,
                      !.empty = @ + Size[f], !.used = @ - Size[f]], b)

\* how many bytes memp_realloc copies into the new block: lines 104 and 118
CopyLen(f, size) == IF f = BIG THEN size ELSE Size[f]

-----------------------------------------------------------------------------
\* memp_new; a pool has no blocks of its own yet
memp_new ==
  /\ header = [i \in 1 .. n |-> NULL]
  /\ p = [b \in Block |-> NULL] /\ cap = [b \in Block |-> 0]
  /\ used = 0 /\ empty = 0 /\ held = <<>> /\ copied = <<0, 0, 0>> /\ alive = TRUE

Become(s) ==
  /\ header' = s.header /\ p' = s.p /\ cap' = s.cap
  /\ used' = s.used /\ empty' = s.empty /\ held' = s.held
  /\ UNCHANGED alive

Unmalloced == {b \in Block : cap[b] = 0}

\* A failing malloc makes memp_alloc return NULL with nothing changed; a bound
\* on Block is a malloc that fails from then on.
Alloc(size) ==
  /\ alive
  /\ \E fresh \in Unmalloced \cup {NULL} :
       /\ Granted(Pool, size, fresh) # NULL
       /\ Become(memp_alloc(Pool, size, fresh))
  /\ copied' = <<0, 0, 0>>

Recycle(b) ==
  /\ alive /\ b \in DOMAIN held
  /\ Become(memp_recycle(Pool, b)) /\ copied' = <<0, 0, 0>>

\* memp_realloc(b, 0) is Recycle(b); on a failed malloc it returns NULL and the
\* caller keeps b.
ReallocInPlace(b, size) ==
  /\ alive /\ b \in DOMAIN held
  /\ p[b] # BIG /\ size <= Size[p[b]]
  /\ Become(Hold(Pool, b, size)) /\ copied' = <<0, 0, 0>>

ReallocBig(b, size) ==
  /\ alive /\ b \in DOMAIN held
  /\ p[b] = BIG /\ size > Size[n]
  /\ \E nb \in Unmalloced \cup {b} :   \* realloc may move the block
       Become(Hold(Drop([Pool EXCEPT !.cap[b] = 0, !.p[b] = NULL,
                                     !.cap[nb] = size, !.p[nb] = BIG], b), nb, size))
  /\ copied' = <<0, 0, 0>>

ReallocMove(b, size) ==
  /\ alive /\ b \in DOMAIN held
  /\ IF p[b] = BIG THEN size <= Size[n] ELSE size > Size[p[b]]
  /\ \E fresh \in Unmalloced \cup {NULL} :
       LET nb == Granted(Pool, size, fresh)
           s  == memp_alloc(Pool, size, fresh)
       IN  /\ nb # NULL
           /\ Become(memp_recycle(s, b))
           /\ copied' = <<CopyLen(p[b], size), cap[b], s.cap[nb]>>

\* one turn of the loop of memp_destroy; it stays at what is no block
Follow(next, b) == IF b \in Block THEN next[b] ELSE b

\* where the loop is after each number of turns on the list that starts at first
Walk(next, first) ==
  LET at[k \in Nat] == IF k = 0 THEN first ELSE Follow(next, at[k - 1])
  IN  at

\* more turns than there are blocks meet no other block
Listed(i) ==
  LET at == Walk(p, header[i])
  IN  {at[k] : k \in 0 .. Cardinality(Block)} \cap Block
Free == UNION {Listed(i) : i \in 1 .. n}

\* memp_destroy frees what the lists hold; a block a caller still holds stays
\* malloc'd.
memp_destroy ==
  /\ alive
  /\ cap' = [b \in Block |-> IF b \in Free THEN 0 ELSE cap[b]]
  /\ header' = [i \in 1 .. n |-> NULL]
  /\ alive' = FALSE /\ UNCHANGED <<p, used, empty, held, copied>>

\* Lua's allocation function: a table gets four times what Lua asks for, so that
\* it can grow in place
lalloc(ptr, table, nsize) ==
  \/ nsize = 0 /\ ptr # NULL /\ Recycle(ptr)
  \/ nsize > 0 /\ ptr # NULL
       /\ (ReallocInPlace(ptr, nsize) \/ ReallocBig(ptr, nsize) \/ ReallocMove(ptr, nsize))
  \/ nsize > 0 /\ ptr = NULL /\ Alloc(IF table THEN nsize * 4 ELSE nsize)

PoolNext ==
  \/ \E size \in 1 .. MaxSize : Alloc(size)   \* the worker's own blocks
  \/ \E b \in Block : Recycle(b)
  \/ \E ptr \in Block \cup {NULL}, table \in BOOLEAN, nsize \in 0 .. MaxSize :
       lalloc(ptr, table, nsize)
  \/ memp_destroy

PoolSpec == memp_new /\ [][PoolNext]_poolVars

-----------------------------------------------------------------------------
(* Properties.                                                              *)

Bytes(size, S) == MapThenSumSet(LAMBDA b : size[b], S)

\* Every block malloc gave out is in a caller's hands or on the list of exactly
\* one class, which ends and has it once, and then has that class's size:
\* memp_alloc cannot hand a block out twice, the pool loses none, and memp_destroy
\* leaves only what callers hold.
\* used and empty are the bytes of the blocks of a class in use and on the lists.
FreeListsSound ==
  /\ {b \in Block : cap[b] > 0} = DOMAIN held \cup Free
  /\ DOMAIN held \cap Free = {}
  /\ \A i \in 1 .. n :
       /\ Walk(p, header[i])[Cardinality(Block)] = NULL
       /\ \A b \in Listed(i) : cap[b] = Size[i]
  /\ \A i, j \in 1 .. n : i # j => Listed(i) \cap Listed(j) = {}
  /\ alive =>
       /\ used = Bytes(cap, {b \in DOMAIN held : p[b] # BIG})
       /\ empty = Bytes(cap, Free)

\* A block in a caller's hands holds what the caller asked for and remembers the
\* class it came from, whatever binary_search answered and however often it was
\* reallocated; and memp_realloc copies neither past the end of the old block nor
\* of the new one.
BestFit ==
  /\ \A b \in DOMAIN held :
       /\ cap[b] >= held[b]
       /\ p[b] = BIG <=> cap[b] > Size[n]
       /\ p[b] # BIG => cap[b] = Size[p[b]]
  /\ copied[1] <= copied[2] /\ copied[1] <= copied[3]
=============================================================================
