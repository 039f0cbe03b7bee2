-------------------------------- MODULE DList --------------------------------
(***************************************************************************)
(* dlist.c, and the two things that are kept in such lists: the resources  *)
(* of a thread (thread.c), put at the head and deleted anywhere, and the   *)
(* blocks of a byte buffer (bytes.c), put at the tail and recycled all at  *)
(* once.  A node that is taken out keeps its links.                        *)
(***************************************************************************)
EXTENDS Null, Naturals, Sequences, SequencesExt, FiniteSets

CONSTANTS
  Node,   \* the nodes
  List    \* the lists

ASSUME DListAssumption == NULL \notin Node

VARIABLES
  lhead, ltail,  \* dlist->head and dlist->tail
  next, prev,    \* the links of each node
  order          \* what each list should hold, in order

listVars == <<lhead, ltail, next, prev, order>>

ListInit ==
  /\ lhead = [l \in List |-> NULL] /\ ltail = [l \in List |-> NULL]
  /\ next = [x \in Node |-> NULL] /\ prev = [x \in Node |-> NULL]
  /\ order = [l \in List |-> << >>]

In(l) == ToSet(order[l])
Loose == Node \ UNION {In(l) : l \in List}

dlist_add_to_head(l, x) ==
  LET h == lhead[l]
  IN  /\ x \in Loose
      /\ next' = [next EXCEPT ![x] = h]
      /\ prev' = [y \in Node |-> IF y = x THEN NULL ELSE IF y = h THEN x ELSE prev[y]]
      /\ ltail' = IF h = NULL THEN [ltail EXCEPT ![l] = x] ELSE ltail
      /\ lhead' = [lhead EXCEPT ![l] = x]
      /\ order' = [order EXCEPT ![l] = <<x>> \o @]

dlist_add_to_tail(l, x) ==
  LET t == ltail[l]
  IN  /\ x \in Loose
      /\ prev' = [prev EXCEPT ![x] = t]
      /\ next' = [y \in Node |-> IF y = x THEN NULL
                                 ELSE IF lhead[l] # NULL /\ y = t THEN x ELSE next[y]]
      /\ lhead' = IF lhead[l] = NULL THEN [lhead EXCEPT ![l] = x] ELSE lhead
      /\ ltail' = [ltail EXCEPT ![l] = x]
      /\ order' = [order EXCEPT ![l] = Append(@, x)]

\* faulty variant: the tail is left as it is
TailKept(l, x) == ltail[l]

TailAfterDel(l, x) == IF ltail[l] = x THEN prev[x] ELSE ltail[l]

dlist_del(l, x) ==
  /\ x \in In(l)
  /\ lhead' = [lhead EXCEPT ![l] = IF @ = x THEN next[x] ELSE @]
  /\ ltail' = [ltail EXCEPT ![l] = TailAfterDel(l, x)]
  /\ next' = [y \in Node |-> IF y = prev[x] THEN next[x] ELSE next[y]]
  /\ prev' = [y \in Node |-> IF y = next[x] THEN prev[x] ELSE prev[y]]
  /\ \E m \in 1 .. Len(order[l]) :
       order[l][m] = x /\ order' = [order EXCEPT ![l] = RemoveAt(@, m)]

\* A loop that starts at a node, takes the link of each one it comes to, and ends
\* at NULL visits the nodes of s, in order (dlist_pos_travel, with next)
Travels(s, first, link) ==
  /\ first = IF s = << >> THEN NULL ELSE s[1]
  /\ \A m \in 1 .. Len(s) : link[s[m]] = IF m < Len(s) THEN s[m + 1] ELSE NULL

\* bytes_destroy: dlist_pos_travel with a function that recycles the node, whose
\* link is read before the function runs, then dlist_init
bytes_destroy(l) ==
  /\ lhead' = [lhead EXCEPT ![l] = NULL] /\ ltail' = [ltail EXCEPT ![l] = NULL]
  /\ order' = [order EXCEPT ![l] = << >>]
  /\ UNCHANGED <<next, prev>>

\* memory that is allocated again is initialised: dlist_node_init
NodeInit(x) ==
  /\ x \in Loose /\ <<next[x], prev[x]>> # <<NULL, NULL>>
  /\ next' = [next EXCEPT ![x] = NULL] /\ prev' = [prev EXCEPT ![x] = NULL]
  /\ UNCHANGED <<lhead, ltail, order>>

ListNext ==
  \/ \E l \in List, x \in Node :
       dlist_add_to_head(l, x) \/ dlist_add_to_tail(l, x) \/ dlist_del(l, x)
  \/ \E l \in List : bytes_destroy(l)
  \/ \E x \in Node : NodeInit(x)

ListSpec == ListInit /\ [][ListNext]_listVars

-----------------------------------------------------------------------------
\* From the head along next, and from the tail along prev, a list shows the nodes
\* that were put in and not taken out, each once and in order, and ends, though the
\* nodes outside still point into it: asthread_th_free and bytes_destroy reach each
\* one.
ListIsSequence ==
  \A l \in List :
    /\ IsInjective(order[l])
    /\ Travels(order[l], lhead[l], next)
    /\ Travels(Reverse(order[l]), ltail[l], prev)
=============================================================================
