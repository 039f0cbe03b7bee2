------------------------------ MODULE TimerTree ------------------------------
(***************************************************************************)
(* The red-black tree of rb_tree.c at the level of its pointers, as the    *)
(* timer pools of thread.c use it: nodes are ordered by et, inserted when  *)
(* a thread yields, deleted when an event comes, and cut off in whole      *)
(* subtrees by asthread_remove_timeout_threads, whose result is walked by  *)
(* rb_tree_postorder_travel.                                               *)
(*                                                                         *)
(* A heap is a record of the root pointer and the four fields of every     *)
(* node; each operator maps a heap to the heap the C function leaves.      *)
(***************************************************************************)
EXTENDS Naturals, Sequences, FiniteSets

CONSTANTS
  Node,   \* the p_idx nodes of the threads
  NULL,
  MaxEt   \* due times are 1 .. MaxEt, the clock stops one later

ASSUME TimerTreeAssumption == NULL \notin Node /\ MaxEt \in Nat \ {0}

VARIABLES
  heap,   \* [root, parent, left, right, color]
  et,     \* th->et
  now,    \* time(NULL)
  taken,  \* <<node, et>> of the threads the last walk handed to its callback
  cut     \* "no" until the left branch of asthread_remove_timeout_threads is
          \* taken, then "walked", or "segv" when there is no sibling

treeVars == <<heap, et, now, taken, cut>>

RED   == "RED"
BLACK == "BLACK"
Other(lr) == IF lr = "left" THEN "right" ELSE "left"

Put(h, f, n, v) == [h EXCEPT ![f][n] = v]

\* assign through the link that points to old: the root or a child of fa
Relink(h, fa, old, new) ==
  IF fa = NULL THEN [h EXCEPT !.root = new]
  ELSE Put(h, IF old = h.left[fa] THEN "left" ELSE "right", fa, new)

SetParent(h, n, fa) == IF n = NULL THEN h ELSE Put(h, "parent", n, fa)

IsNullOrBlack(h, n) == IF n = NULL THEN TRUE ELSE h.color[n] = BLACK

\* rotate_left(h, x) is rotate(h, x, "left"), rotate_right(h, x) the mirror
rotate(h, x, lr) ==
  LET p  == h[Other(lr)][x]
      y  == h[lr][p]
      fa == h.parent[x]
      h1 == Put(SetParent(h, y, x), Other(lr), x, y)
      h2 == Put(Relink(h1, fa, x, p), lr, p, x)
  IN  SetParent(SetParent(h2, p, fa), x, p)

-----------------------------------------------------------------------------
(* Insertion.                                                               *)

\* the loop of rb_tree_insert: the last node on the way down from n
RECURSIVE Descend(_, _, _, _)
Descend(h, key, e, n) ==
  LET child == IF e[key] < e[n] THEN h.left[n] ELSE h.right[n]
  IN  IF child = NULL THEN n ELSE Descend(h, key, e, child)

Fresh(h, n) ==
  [h EXCEPT !.parent[n] = NULL, !.left[n] = NULL, !.right[n] = NULL,
            !.color[n] = RED]

\* rb_tree_insert with node_et_lt
rb_tree_insert(h, n, e) ==
  LET h1 == Fresh(h, n)
      fa == Descend(h1, n, e, h1.root)
  IN  IF h.root = NULL THEN [h1 EXCEPT !.root = n]
      ELSE Put(Put(h1, "parent", n, fa),
               IF e[n] < e[fa] THEN "left" ELSE "right", fa, n)

uncle(h, n) ==
  LET fa == h.parent[n]
      g  == h.parent[fa]
  IN  IF fa = h.right[g] THEN h.left[g] ELSE h.right[g]

\* the loop of rb_tree_insert_case
RECURSIVE InsertFix(_, _)
InsertFix(h, n) ==
  LET fa == h.parent[n] IN
  IF fa = NULL \/ IsNullOrBlack(h, fa) THEN h
  ELSE
    LET gf == h.parent[fa]
        uc == uncle(h, n)
        side == IF fa = h.left[gf] THEN "left" ELSE "right"
        inner == n = h[Other(side)][fa]
        h1 == IF inner THEN rotate(h, fa, side) ELSE h
        m  == IF inner THEN h1[side][n] ELSE n      \* the lower of the two
        fb == h1.parent[m]
        gb == h1.parent[fb]
        h2 == Put(Put(h1, "color", fb, BLACK), "color", gb, RED)
    IN  IF ~IsNullOrBlack(h, uc)
        THEN InsertFix([h EXCEPT !.color[fa] = BLACK, !.color[uc] = BLACK,
                                 !.color[gf] = RED], gf)
        ELSE InsertFix(rotate(h2, gb, IF m = h2.left[fb] THEN "right" ELSE "left"),
                       m)

\* faulty variant: the loop is left out
InsertCaseOnlyRoot(h, n) == Put(h, "color", h.root, BLACK)

rb_tree_insert_case(h, n) ==
  LET h1 == InsertFix(h, n) IN Put(h1, "color", h1.root, BLACK)

-----------------------------------------------------------------------------
(* Deletion.                                                                *)

\* The cases: fa is the parent of the node that is short of a black one, on its
\* side lr, and s the other child.  Case 2 is the recursion below.
delete_case1(h, fa, s, lr) ==
  rotate([h EXCEPT !.color[s] = BLACK, !.color[fa] = RED], fa, lr)

delete_case3(h, s, lr) ==
  rotate([h EXCEPT !.color[h[lr][s]] = BLACK, !.color[s] = RED], s, Other(lr))

delete_case4(h, fa, s, lr) ==
  rotate([h EXCEPT !.color[s] = h.color[fa], !.color[fa] = BLACK,
                   !.color[h[Other(lr)][s]] = BLACK], fa, lr)

\* rb_tree_delete_case: n, a child of fa, is short of one black node
RECURSIVE rb_tree_delete_case(_, _, _)
rb_tree_delete_case(h, n, fa) ==
  IF ~(IsNullOrBlack(h, n) /\ n # h.root)
  THEN IF n = NULL THEN h ELSE Put(h, "color", n, BLACK)
  ELSE
    LET lr == IF n = h.left[fa] THEN "left" ELSE "right"
        s0 == h[Other(lr)][fa]
        h1 == IF h.color[s0] = RED THEN delete_case1(h, fa, s0, lr) ELSE h
        s1 == h1[Other(lr)][fa]
        h2 == IF IsNullOrBlack(h1, h1[Other(lr)][s1]) THEN delete_case3(h1, s1, lr)
              ELSE h1
        h3 == delete_case4(h2, fa, h2[Other(lr)][fa], lr)
    IN  IF IsNullOrBlack(h1, h1.left[s1]) /\ IsNullOrBlack(h1, h1.right[s1])
        THEN rb_tree_delete_case(Put(h1, "color", s1, RED), fa, h1.parent[fa])
        ELSE Put(h3, "color", h3.root, BLACK)

\* swap_node_with_leaf: n's successor takes its place and its color
swap_node_with_leaf(h, n, leaf) ==
  LET rc == h.right[leaf]
      lfa == h.parent[leaf]
      h1 == Relink(h, h.parent[n], n, leaf)
      h2 == IF lfa = n THEN h1
            ELSE LET g1 == Put(SetParent(h1, rc, lfa), "left", lfa, rc)
                     g2 == Put(g1, "right", leaf, g1.right[n])
                 IN  SetParent(g2, g2.right[n], leaf)
      h3 == [h2 EXCEPT !.parent[leaf] = h2.parent[n],
                       !.color[leaf] = h2.color[n],
                       !.left[leaf] = h2.left[n]]
      h4 == SetParent(h3, h3.left[n], leaf)
  IN  IF h.color[leaf] = BLACK
      THEN rb_tree_delete_case(h4, rc, IF lfa = n THEN leaf ELSE lfa)
      ELSE h4

remove_node_has_one_child(h, ori) ==
  LET fa  == h.parent[ori]
      sub == IF h.left[ori] = NULL THEN h.right[ori] ELSE h.left[ori]
      h1  == Relink(SetParent(h, sub, fa), fa, ori, sub)
  IN  IF h.color[ori] = BLACK THEN rb_tree_delete_case(h1, sub, fa) ELSE h1

RECURSIVE Leftmost(_, _)
Leftmost(h, n) == IF h.left[n] = NULL THEN n ELSE Leftmost(h, h.left[n])

RECURSIVE Rightmost(_, _)
Rightmost(h, n) == IF h.right[n] = NULL THEN n ELSE Rightmost(h, h.right[n])

\* faulty variant: the children of the node are forgotten
DeleteAsLeaf(h, n) == Relink(h, h.parent[n], n, NULL)

rb_tree_delete(h, n) ==
  IF h.left[n] = NULL \/ h.right[n] = NULL
  THEN remove_node_has_one_child(h, n)
  ELSE swap_node_with_leaf(h, n, Leftmost(h, h.right[n]))

-----------------------------------------------------------------------------
(* Cutting off subtrees and walking them.                                   *)

\* sub is not NULL here: the caller would have crashed
swap_node_with_subtree(h, n, sub) ==
  LET gf == h.parent[n]
      h1 == SetParent(Relink(h, gf, n, sub), sub, gf)
  IN  IF gf = NULL \/ h.color[n] = RED \/ h.color[sub] = RED
      THEN Put(h1, "color", sub, BLACK)
      ELSE rb_tree_delete_case(h1, sub, gf)

\* rb_tree_insert_to_most_left for lr = "left", ..._most_right for "right"
InsertToMost(h, top, n, lr) ==
  LET h1   == Fresh(h, n)
      last == IF lr = "left" THEN Leftmost(h1, top) ELSE Rightmost(h1, top)
  IN  Put(Put(h1, "parent", n, last), lr, last, n)

rb_tree_remove_subtree(h, sub) ==
  LET fa  == h.parent[sub]
      lr  == IF sub = h.left[fa] THEN "left" ELSE "right"
      sil == h[Other(lr)][fa]
  IN  IF fa = NULL THEN [h EXCEPT !.root = NULL]
      ELSE rb_tree_insert_case(
             InsertToMost(swap_node_with_subtree(h, fa, sil), sil, fa, lr), fa)

\* faulty variant: right children are not descended into
RECURSIVE TravelLeftOnly(_, _, _)
TravelLeftOnly(h, tn, visited) ==
  IF tn = NULL THEN [heap |-> h, visited |-> visited]
  ELSE IF h.left[tn] # NULL THEN TravelLeftOnly(h, h.left[tn], visited)
  ELSE LET fa == h.parent[tn] IN
       TravelLeftOnly(IF fa = NULL THEN h
                      ELSE Put(h, IF tn = h.left[fa] THEN "left" ELSE "right", fa, NULL),
                      fa, Append(visited, tn))

\* rb_tree_postorder_travel: a childless node is unlinked from its parent and
\* visited, and the walk goes on at that parent
RECURSIVE Travel(_, _, _)
Travel(h, tn, visited) ==
  IF tn = NULL THEN [heap |-> h, visited |-> visited]
  ELSE IF h.left[tn] # NULL THEN Travel(h, h.left[tn], visited)
  ELSE IF h.right[tn] # NULL THEN Travel(h, h.right[tn], visited)
  ELSE LET fa == h.parent[tn] IN
       Travel(IF fa = NULL THEN h
              ELSE Put(h, IF tn = h.left[fa] THEN "left" ELSE "right", fa, NULL),
              fa, Append(visited, tn))

\* faulty variant: the walk starts before the pool lets go of the subtree
ExpireKeepsRest(h, n) == h

\* lines 118-123: the pool keeps what is right of n
CutRight(h, n) ==
  LET rest == h.right[n]
      h1   == [h EXCEPT !.root = rest, !.right[n] = NULL]
  IN  IF rest = NULL THEN h1
      ELSE Put(Put(h1, "parent", rest, NULL), "color", rest, BLACK)

\* lines 115-117: down the right spine as long as the next node is due
RECURSIVE LastDue(_, _, _, _)
LastDue(h, e, t, n) ==
  LET r == h.right[n]
  IN  IF r # NULL /\ t >= e[r] THEN LastDue(h, e, t, r) ELSE n

\* lines 125-128: down the left spine until a node is due
RECURSIVE FirstDue(_, _, _, _)
FirstDue(h, e, t, n) ==
  IF n = NULL THEN NULL
  ELSE IF e[n] > t THEN FirstDue(h, e, t, h.left[n]) ELSE n

-----------------------------------------------------------------------------
(* The operations of the pool.                                              *)

\* the nodes that hang below n
RECURSIVE Below(_, _)
Below(h, n) ==
  IF n = NULL THEN {} ELSE {n} \cup Below(h, h.left[n]) \cup Below(h, h.right[n])

Members == Below(heap, heap.root)

\* The fields of a node outside the tree are overwritten by rb_tree_insert
\* before they are read; they are forgotten here.
Tidy(h, S) ==
  LET Keep(f, v) == [n \in Node |-> IF n \in S THEN h[f][n] ELSE v]
  IN  [root |-> h.root, parent |-> Keep("parent", NULL), left |-> Keep("left", NULL),
       right |-> Keep("right", NULL), color |-> Keep("color", RED)]

EtOf(S) == [n \in Node |-> IF n \in S THEN et[n] ELSE 0]

Init ==
  /\ heap = [root |-> NULL, parent |-> [n \in Node |-> NULL],
             left |-> [n \in Node |-> NULL], right |-> [n \in Node |-> NULL],
             color |-> [n \in Node |-> RED]]
  /\ et = [n \in Node |-> 0] /\ now = 0 /\ taken = {} /\ cut = "no"

\* asthread_th_add_to_pool
Add(n, e) ==
  /\ cut = "no" /\ n \notin Members /\ e >= now
  /\ et' = [et EXCEPT ![n] = e]
  /\ heap' = rb_tree_insert_case(rb_tree_insert(heap, n, et'), n)
  /\ taken' = {} /\ UNCHANGED <<now, cut>>

\* asthread_th_del_from_pool
Del(n) ==
  /\ cut = "no" /\ n \in Members
  /\ heap' = LET h == rb_tree_delete(heap, n) IN Tidy(h, Below(h, h.root))
  /\ et' = EtOf(Members \ {n})
  /\ taken' = {} /\ UNCHANGED <<now, cut>>

Tick ==
  /\ cut = "no" /\ now < MaxEt
  /\ now' = now + 1 /\ taken' = {} /\ UNCHANGED <<heap, et, cut>>

\* what a walk that left h behind and visited the nodes of w leaves of the pool
Walked(h, w) ==
  /\ heap' = Tidy(h, Below(h, h.root))
  /\ et' = EtOf(Below(h, h.root))
  /\ taken' = {<<w[i], et[w[i]]>> : i \in DOMAIN w}

\* asthread_remove_timeout_threads when the root is due, and the walk that
\* process_io_timeout or process_sleep makes of what it returns
RemoveFromRoot ==
  /\ cut = "no" /\ heap.root # NULL /\ et[heap.root] <= now
  /\ LET h == CutRight(heap, LastDue(heap, et, now, heap.root))
         w == Travel(h, heap.root, <<>>)
     IN  Walked(w.heap, w.visited)
  /\ UNCHANGED <<now, cut>>

\* ... when the root is not due: a subtree hanging off the left spine.  The
\* tree is not walked on: the model ends with this step.
RemoveFromLeft ==
  /\ cut = "no" /\ heap.root # NULL /\ et[heap.root] > now
  /\ LET ret == FirstDue(heap, et, now, heap.left[heap.root]) IN
       /\ ret # NULL
       /\ IF heap.right[heap.parent[ret]] = NULL
          THEN cut' = "segv" /\ taken' = {} /\ UNCHANGED <<heap, et>>
          ELSE /\ cut' = "walked"
               /\ LET w == Travel(rb_tree_remove_subtree(heap, ret), ret, <<>>)
                  IN  Walked(w.heap, w.visited)
  /\ UNCHANGED now

\* ... when nothing is returned, and nothing is walked
RemoveNothing ==
  /\ cut = "no"
  /\ heap.root # NULL =>
       /\ et[heap.root] > now
       /\ FirstDue(heap, et, now, heap.left[heap.root]) = NULL
  /\ taken' = {} /\ UNCHANGED <<heap, et, now, cut>>

Next ==
  \/ \E n \in Node : Del(n) \/ \E e \in 1 .. MaxEt : Add(n, e)
  \/ Tick
  \/ RemoveFromRoot \/ RemoveFromLeft \/ RemoveNothing

Spec == Init /\ [][Next]_treeVars

-----------------------------------------------------------------------------
(* Properties.                                                              *)

RECURSIVE BlackHeights(_, _)
BlackHeights(h, n) ==
  IF n = NULL THEN {0}
  ELSE {b + (IF h.color[n] = BLACK THEN 1 ELSE 0) :
          b \in BlackHeights(h, h.left[n]) \cup BlackHeights(h, h.right[n])}

\* Between calls the pool is a red-black search tree: parent links mirror child
\* links, a left subtree is due no later and a right one no earlier than its
\* root, no red node has a red child, the root is black and all paths have as
\* many black nodes.  Insertion, deletion and the root branch of
\* asthread_remove_timeout_threads all keep it, in any order.
RedBlack ==
  cut = "no" =>
    /\ heap.root # NULL => heap.parent[heap.root] = NULL /\ heap.color[heap.root] = BLACK
    /\ Cardinality(BlackHeights(heap, heap.root)) = 1
    /\ \A n \in Members :
         /\ \A c \in {heap.left[n], heap.right[n]} \ {NULL} :
              /\ heap.parent[c] = n
              /\ heap.color[n] = RED => heap.color[c] = BLACK
         /\ \A c \in Below(heap, heap.left[n]) : et[c] <= et[n]
         /\ \A c \in Below(heap, heap.right[n]) : et[c] >= et[n]

\* rb_tree_postorder_travel, which frees the nodes of the pools at shutdown,
\* visits every node of the pool once and no node before its children, so it
\* never reads a node its callback has freed.
RecycleVisitsOnce ==
  cut = "no" =>
    LET w == Travel(heap, heap.root, <<>>).visited IN
    /\ {w[i] : i \in DOMAIN w} = Members
    /\ \A i, j \in DOMAIN w : i < j => w[i] # w[j] /\ heap.parent[w[j]] # w[i]

Pool == INSTANCE TimerPool WITH members <- Members

\* As long as the left branch of asthread_remove_timeout_threads has not been
\* taken, every call leaves the tree what TimerPool says the pool is: nothing
\* is lost or gained, and a scan takes due threads only, and at least one
\* when there is one.
ImplementsPool ==
  Pool!Init /\ [][cut' # "no" \/ Pool!Next \/ UNCHANGED Pool!poolVars]_treeVars

\* The threads asthread_remove_timeout_threads hands to p_io_timeout_thread and
\* p_sleep_thread have reached their time.
TimeoutsAreDue == \A p \in taken : p[2] <= now
=============================================================================
