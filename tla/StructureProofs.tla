--------------------------- MODULE StructureProofs ---------------------------
(***************************************************************************)
(* Theorems about three structures: LuaRegistry, where a thread keeps the  *)
(* coroutine it got however the calls on the registry fail and whatever    *)
(* the collector takes; DList, whose links show the order of what was put  *)
(* in; and Logger, where a Log that has returned has reached every logger  *)
(* there was from its call on, and no logger has a record twice.           *)
(***************************************************************************)
EXTENDS LuaRegistry, DList, Logger, SequenceFacts, FiniteSetTheorems

-----------------------------------------------------------------------------
(* The registry *)

Live == {t \in Thread : th[t] # NULL}

\* what a thread is, and which tids have been given
ThreadsTyped ==
  /\ cur_tid \in Nat /\ DOMAIN th = Thread
  /\ \A t \in Live : th[t] \in [tid : 1 .. cur_tid, T : Coroutine, status : Status]

\* no two threads share a tid or a coroutine
ThreadsApart ==
  \A t, u \in Live : t # u => th[t].tid # th[u].tid /\ th[t].T # th[u].T

\* the first table holds the coroutine of each thread
CoroutinesHeld ==
  \A t \in Live :
    /\ th[t].T \in lthread
    /\ th[t].tid \in DOMAIN tid_thread /\ tid_thread[th[t].tid] = th[t].T

\* the second table names the thread, or nothing when it could not be set or has
\* not been set yet
ThreadsNamed ==
  /\ unnamed \subseteq Live
  /\ \A t \in Live :
       /\ th[t].status = "init" =>
            t \notin unnamed /\ lbind_get_thread_local_vars(th[t].T) = NULL
       /\ th[t].status # "init" =>
            lbind_get_thread_local_vars(th[t].T) = IF t \in unnamed THEN NULL ELSE t

IInv == ThreadsTyped /\ ThreadsApart /\ CoroutinesHeld /\ ThreadsNamed

\* A worker starts without threads.
LEMMA InitIInv == lbind_init_state => IInv
  BY DEF lbind_init_state, IInv, ThreadsTyped, ThreadsApart, CoroutinesHeld, ThreadsNamed, Live

\* handle_accept adds a thread with a tid above all others and a coroutine that
\* was not there; when it fails, what it leaves behind is no thread's.
LEMMA InitThread ==
  ASSUME IInv, NEW t \in Thread, NEW T \in Coroutine,
         NEW point \in {"start", "anchored", "done"}, asthread_th_init(t, T, point)
  PROVE  IInv'
<1> DEFINE tid == cur_tid + 1
<1> USE DEF IInv, asthread_th_init, lbind_ref_tid_lthread
<1>1. CASE point # "done"
  <2>1. Live' = Live /\ UNCHANGED <<th, cur_tid, unnamed, local_vars>>
    BY <1>1 DEF Live
  <2>2. ThreadsTyped' /\ ThreadsApart'
    BY <2>1 DEF ThreadsTyped, ThreadsApart
  <2>3. CoroutinesHeld'
    BY <1>1, <2>1 DEF CoroutinesHeld, ThreadsTyped, With
  <2>4. ThreadsNamed'
    BY <2>1 DEF ThreadsNamed, lbind_get_thread_local_vars
  <2> QED  BY <2>2, <2>3, <2>4
<1>2. CASE point = "done"
  <2> DEFINE r == [tid |-> tid, T |-> T, status |-> "init"]
  <2>1. /\ th' = [th EXCEPT ![t] = r] /\ cur_tid' = tid /\ unnamed' = unnamed
        /\ t \notin Live /\ T \notin lthread
    BY <1>2 DEF Live
  <2>2. r \in [tid : 1 .. tid, T : Coroutine, status : Status] /\ tid \in Nat
    BY DEF ThreadsTyped, Status
  <2>3. /\ th'[t] = r /\ \A u \in Thread \ {t} : th'[u] = th[u]
        /\ Live' \subseteq Live \cup {t} /\ Live \subseteq Live'
    BY <2>1 DEF ThreadsTyped, Live
  <2>4. t \in Live'
    BY <2>2, <2>3, LuaRegistryAssumption DEF Live
  <2>5. ThreadsTyped'
    BY <2>1, <2>2, <2>3 DEF ThreadsTyped, Live
  <2>6. \A u \in Live : th[u].T # T /\ th[u].tid # tid
    BY <2>1 DEF ThreadsTyped, CoroutinesHeld
  <2>7. ThreadsApart'
    BY <2>3, <2>6 DEF ThreadsApart, Live
  <2>8. CoroutinesHeld'
    BY <1>2, <2>1, <2>3, <2>6 DEF CoroutinesHeld, With, Live
  <2>9. ThreadsNamed'
    BY <1>2, <2>1, <2>3, <2>6 DEF ThreadsNamed, With, Live, lbind_get_thread_local_vars
  <2> QED  BY <2>5, <2>7, <2>8, <2>9
<1> QED  BY <1>1, <1>2

\* the thread goes on: only its status changes
LEMMA StatusStep ==
  ASSUME ThreadsTyped, NEW t \in Live, NEW s \in Status,
         th' = [th EXCEPT ![t].status = s], UNCHANGED cur_tid
  PROVE  /\ ThreadsTyped' /\ Live' = Live
         /\ \A u \in Live : th'[u].tid = th[u].tid /\ th'[u].T = th[u].T
         /\ th'[t].status = s /\ \A u \in Live \ {t} : th'[u].status = th[u].status
<1>1. t \in Thread /\ DOMAIN th' = Thread /\ th'[t] = [th[t] EXCEPT !.status = s]
  BY DEF Live, ThreadsTyped
<1>2. \A u \in Thread \ {t} : th'[u] = th[u]
  BY <1>1 DEF ThreadsTyped
<1>3. th'[t] \in [tid : 1 .. cur_tid, T : Coroutine, status : Status]
  BY <1>1 DEF ThreadsTyped
<1>4. th'[t].tid = th[t].tid /\ th'[t].T = th[t].T /\ th'[t].status = s
  BY <1>1 DEF ThreadsTyped
<1>5. th'[t] # NULL
  BY <1>3, LuaRegistryAssumption DEF ThreadsTyped
<1>6. Live' = Live
  BY <1>2, <1>5 DEF Live
<1> QED  BY <1>1, <1>2, <1>3, <1>4, <1>6 DEF ThreadsTyped

\* the name goes into the coroutine's own entry, or nowhere
LEMMA NameThread ==
  ASSUME IInv, NEW t \in Thread, NEW fails \in BOOLEAN, SetLocalVars(t, fails)
  PROVE  IInv'
<1> USE DEF IInv, SetLocalVars
<1>1. t \in Live /\ "ready" \in Status /\ th[t].status = "init"
  BY DEF Live, Status
<1>2. /\ ThreadsTyped' /\ Live' = Live
      /\ \A u \in Live : th'[u].tid = th[u].tid /\ th'[u].T = th[u].T
      /\ th'[t].status = "ready" /\ \A u \in Live \ {t} : th'[u].status = th[u].status
  BY <1>1, StatusStep
<1>3. ThreadsApart' /\ CoroutinesHeld'
  BY <1>2 DEF ThreadsApart, CoroutinesHeld
<1>4. ThreadsNamed'
  <2>1. unnamed' \subseteq Live /\ \A u \in Live \ {t} : u \in unnamed' <=> u \in unnamed
    BY <1>1 DEF ThreadsNamed
  <2>2. t \in unnamed' <=> fails
    BY <1>1 DEF ThreadsNamed
  <2>3. th'[t].T = th[t].T /\ lbind_get_thread_local_vars(th[t].T) = NULL
    BY <1>1, <1>2 DEF ThreadsNamed
  <2>4. local_vars' = IF fails THEN local_vars ELSE With(local_vars, th[t].T, t)
    OBVIOUS
  <2>5. \A u \in Live \ {t} : lbind_get_thread_local_vars(th[u].T)'
                                = lbind_get_thread_local_vars(th[u].T)
    BY <1>1, <1>2, <2>4 DEF ThreadsApart, lbind_get_thread_local_vars, With
  <2>6. lbind_get_thread_local_vars(th[t].T)' = IF fails THEN NULL ELSE t
    BY <2>3, <2>4 DEF lbind_get_thread_local_vars, With
  <2> QED  BY <1>1, <1>2, <2>1, <2>2, <2>5, <2>6 DEF ThreadsNamed
<1> QED  BY <1>2, <1>3, <1>4

\* A script that starts, stops or fails keeps its coroutine and its name.
LEMMA RunThread ==
  ASSUME IInv, NEW t \in Thread,
         ThreadStop(t) \/ \E found \in {"code", "message", "none"} : ThreadStart(t, found)
  PROVE  IInv'
<1> USE DEF IInv
<1>1. PICK s \in {"run", "stop"} : th' = [th EXCEPT ![t].status = s]
  BY DEF ThreadStop, ThreadStart
<1>2. /\ t \in Live /\ s \in Status /\ th[t].status # "init"
      /\ UNCHANGED <<cur_tid, tid_thread, local_vars, lthread, unnamed>>
  BY DEF Live, Status, ThreadStop, ThreadStart
<1>3. /\ ThreadsTyped' /\ Live' = Live
      /\ \A u \in Live : th'[u].tid = th[u].tid /\ th'[u].T = th[u].T
      /\ th'[t].status = s /\ \A u \in Live \ {t} : th'[u].status = th[u].status
  BY <1>1, <1>2, StatusStep
<1>4. ThreadsApart' /\ CoroutinesHeld'
  BY <1>2, <1>3 DEF ThreadsApart, CoroutinesHeld
<1>5. \A u \in Live : lbind_get_thread_local_vars(th[u].T)'
                        = lbind_get_thread_local_vars(th[u].T)
  BY <1>2, <1>3 DEF lbind_get_thread_local_vars
<1>6. ThreadsNamed'
  BY <1>2, <1>3, <1>5 DEF ThreadsNamed
<1> QED  BY <1>3, <1>4, <1>6

\* The free of a thread takes out its own entry: tids are not shared.
LEMMA FreeThread ==
  ASSUME IInv, NEW t \in Thread, NEW fails \in BOOLEAN, asthread_th_free(t, fails)
  PROVE  IInv'
<1> USE DEF IInv
<1>1. /\ t \in Live /\ th' = [th EXCEPT ![t] = NULL] /\ unnamed' = unnamed \ {t}
      /\ UNCHANGED <<cur_tid, local_vars, lthread>>
      /\ tid_thread' = IF fails THEN tid_thread
                       ELSE Restrict(tid_thread, DOMAIN tid_thread \ {th[t].tid})
  BY DEF Live, asthread_th_free, UnrefTid
<1>2. Live' = Live \ {t} /\ DOMAIN th' = Thread /\ \A u \in Live' : th'[u] = th[u]
  BY <1>1 DEF Live, ThreadsTyped
<1>3. ThreadsTyped' /\ ThreadsApart'
  BY <1>1, <1>2 DEF ThreadsTyped, ThreadsApart
<1>4. \A u \in Live' : /\ th[u].tid \in DOMAIN tid_thread'
                       /\ tid_thread'[th[u].tid] = tid_thread[th[u].tid]
  BY <1>1, <1>2 DEF ThreadsApart, CoroutinesHeld, Restrict
<1>5. CoroutinesHeld'
  <2>1. \A u \in Live' : /\ th[u].T \in lthread /\ tid_thread[th[u].tid] = th[u].T
                         /\ th'[u].tid = th[u].tid /\ th'[u].T = th[u].T
    BY <1>2 DEF CoroutinesHeld
  <2> SUFFICES ASSUME NEW u \in Live'
               PROVE  /\ th'[u].T \in lthread'
                      /\ th'[u].tid \in DOMAIN tid_thread'
                      /\ tid_thread'[th'[u].tid] = th'[u].T
    BY DEF CoroutinesHeld
  <2>2. th'[u].tid = th[u].tid /\ th'[u].T = th[u].T
    BY <2>1
  <2>3. th[u].tid \in DOMAIN tid_thread' /\ tid_thread'[th[u].tid] = th[u].T
    BY <1>4, <2>1
  <2>4. th[u].T \in lthread'
    BY <1>1, <2>1
  <2> QED  BY <2>2, <2>3, <2>4
<1>6. \A u \in Live' : lbind_get_thread_local_vars(th[u].T)'
                         = lbind_get_thread_local_vars(th[u].T)
  BY <1>1, <1>2 DEF lbind_get_thread_local_vars
<1>7. ThreadsNamed'
  BY <1>1, <1>2, <1>6 DEF ThreadsNamed
<1> QED  BY <1>3, <1>5, <1>7

\* The collector takes no coroutine that a tid holds, so none of a thread.
LEMMA CollectOther ==
  ASSUME IInv, NEW T \in Coroutine, Collect(T)
  PROVE  IInv'
<1> USE DEF IInv
<1>1. /\ UNCHANGED <<cur_tid, tid_thread, th, unnamed>> /\ lthread' = lthread \ {T}
      /\ local_vars' = Restrict(local_vars, DOMAIN local_vars \ {T})
      /\ T \notin Range(tid_thread)
  BY DEF Collect
<1>2. Live' = Live /\ ThreadsTyped' /\ ThreadsApart'
  BY <1>1 DEF Live, ThreadsTyped, ThreadsApart
<1>3. \A u \in Live : th[u].T # T
  BY <1>1 DEF CoroutinesHeld, Range
<1>4. CoroutinesHeld'
  BY <1>1, <1>2, <1>3 DEF CoroutinesHeld
<1>5. \A u \in Live : lbind_get_thread_local_vars(th[u].T)'
                        = lbind_get_thread_local_vars(th[u].T)
  BY <1>1, <1>3 DEF lbind_get_thread_local_vars, Restrict
<1>6. ThreadsNamed'
  BY <1>1, <1>2, <1>5 DEF ThreadsNamed
<1> QED  BY <1>2, <1>4, <1>6

\* The inductive invariant of the registry, for any number of threads, coroutines
\* and tids, and whichever calls of lua_bind.c fail.
THEOREM RegistryInvariant == RegistrySpec => []IInv
<1>1. IInv /\ [RegistryNext]_registryVars => IInv'
  <2> SUFFICES ASSUME IInv, [RegistryNext]_registryVars PROVE IInv'
    OBVIOUS
  <2>1. ASSUME NEW t \in Thread, NEW T \in Coroutine,
               NEW point \in {"start", "anchored", "done"}, asthread_th_init(t, T, point)
        PROVE  IInv'
    BY <2>1, InitThread
  <2>2. ASSUME NEW t \in Thread, NEW fails \in BOOLEAN, SetLocalVars(t, fails)
        PROVE  IInv'
    BY <2>2, NameThread
  <2>3. ASSUME NEW t \in Thread, NEW fails \in BOOLEAN, asthread_th_free(t, fails)
        PROVE  IInv'
    BY <2>3, FreeThread
  <2>4. ASSUME NEW t \in Thread,
               ThreadStop(t) \/ \E found \in {"code", "message", "none"} : ThreadStart(t, found)
        PROVE  IInv'
    BY <2>4, RunThread
  <2>5. ASSUME NEW T \in Coroutine, Collect(T)
        PROVE  IInv'
    BY <2>5, CollectOther
  <2>6. CASE UNCHANGED registryVars
    BY <2>6 DEF registryVars, IInv, ThreadsTyped, ThreadsApart, CoroutinesHeld,
                ThreadsNamed, Live, lbind_get_thread_local_vars
  <2> QED  BY <2>1, <2>2, <2>3, <2>4, <2>5, <2>6 DEF RegistryNext
<1> QED  BY InitIInv, <1>1, PTL DEF RegistrySpec

\* A thread's coroutine exists, is held under its tid and leads back to the thread
\* from its initialisation to its free (lua_bind.c, asthread_th_init, _free).
THEOREM AlwaysAnchored == RegistrySpec => []Anchored
<1>1. IInv => Anchored
  BY DEF IInv, Anchored, CoroutinesHeld, ThreadsNamed, Live
<1> QED  BY RegistryInvariant, <1>1, PTL

-----------------------------------------------------------------------------
(* The lists *)


ListTypes ==
  /\ lhead \in [List -> Node \cup {NULL}] /\ ltail \in [List -> Node \cup {NULL}]
  /\ next \in [Node -> Node \cup {NULL}] /\ prev \in [Node -> Node \cup {NULL}]
  /\ order \in [List -> Seq(Node)]

\* what a node's place in a sequence says of the links
Follow(s, m) == IF m < Len(s) THEN s[m + 1] ELSE NULL
Precede(s, m) == IF 1 < m THEN s[m - 1] ELSE NULL

\* The ends of a list, and the links of neighbours, agree with its order.
Linked(s, first, last, nx, pv) ==
  /\ first = IF s = << >> THEN NULL ELSE s[1]
  /\ last = IF s = << >> THEN NULL ELSE s[Len(s)]
  /\ \A m \in 1 .. Len(s) : nx[s[m]] = Follow(s, m) /\ pv[s[m]] = Precede(s, m)

ListInv ==
  /\ ListTypes
  /\ \A l \in List : IsInjective(order[l]) /\ Linked(order[l], lhead[l], ltail[l], next, prev)
  /\ \A k, l \in List : k # l => In(k) \cap In(l) = {}

-----------------------------------------------------------------------------
\* The elements of a sequence from its two ends.
LEMMA Elements ==
  ASSUME NEW s \in Seq(Node)
  PROVE  /\ Len(s) \in Nat /\ DOMAIN s = 1 .. Len(s) /\ (s = << >> <=> Len(s) = 0)
         /\ \A m \in 1 .. Len(s) : s[m] \in Node /\ s[m] \in ToSet(s) /\ s[m] # NULL
         /\ \A x \in ToSet(s) : \E m \in 1 .. Len(s) : x = s[m]
<1>1. Len(s) \in Nat /\ DOMAIN s = 1 .. Len(s) /\ \A m \in 1 .. Len(s) : s[m] \in Node
  BY LenProperties
<1>2. s = << >> <=> Len(s) = 0
  BY EmptySeq
<1> QED  BY <1>1, <1>2, DListAssumption DEF ToSet

\* Links that agree with the order are walked through in both directions.
LEMMA LinkedTravels ==
  ASSUME NEW s \in Seq(Node), NEW first, NEW last, NEW nx, NEW pv, Linked(s, first, last, nx, pv)
  PROVE  Travels(s, first, nx) /\ Travels(Reverse(s), last, pv)
<1>1. /\ Len(s) \in Nat /\ DOMAIN s = 1 .. Len(s) /\ (s = << >> <=> Len(s) = 0)
      /\ \A m \in 1 .. Len(s) : s[m] \in Node
  BY Elements
<1>2. Travels(s, first, nx)
  BY DEF Linked, Travels, Follow
<1> DEFINE r == Reverse(s)
<1>3. /\ r \in Seq(Node) /\ Len(r) = Len(s)
      /\ \A m \in 1 .. Len(s) : r[m] = s[(Len(s) - m) + 1]
  <2>1. r = [m \in 1 .. Len(s) |-> s[(Len(s) - m) + 1]]
    BY DEF Reverse
  <2>2. \A m \in 1 .. Len(s) : (Len(s) - m) + 1 \in 1 .. Len(s)
    BY <1>1
  <2>3. \A m \in 1 .. Len(s) : s[(Len(s) - m) + 1] \in Node
    BY <1>1, <2>2
  <2>4. r \in [1 .. Len(s) -> Node]
    BY <2>1, <2>3
  <2>5. r \in Seq(Node)
    BY <1>1, <2>4
  <2> QED  BY <1>1, <2>1, <2>4, <2>5
<1> HIDE DEF r
<1>4. last = IF r = << >> THEN NULL ELSE r[1]
  <2>1. r = << >> <=> s = << >>
    BY <1>1, <1>3, Elements
  <2>2. CASE s # << >>
    <3>1. 1 \in 1 .. Len(s) /\ (Len(s) - 1) + 1 = Len(s)
      BY <1>1, <2>2
    <3>2. r[1] = s[Len(s)]
      BY <1>3, <3>1
    <3> QED  BY <2>1, <2>2, <3>2 DEF Linked
  <2> QED  BY <2>1, <2>2 DEF Linked
<1>5. ASSUME NEW m \in 1 .. Len(r)
      PROVE  pv[r[m]] = IF m < Len(r) THEN r[m + 1] ELSE NULL
  <2>1. PICK d \in 1 .. Len(s) : d = (Len(s) - m) + 1 /\ r[m] = s[d]
    <3>1. (Len(s) - m) + 1 \in 1 .. Len(s)
      BY <1>1, <1>3
    <3> QED  BY <1>3, <3>1
  <2>2. pv[s[d]] = Precede(s, d)
    BY DEF Linked
  <2>3. CASE m < Len(r)
    <3>1. m + 1 \in 1 .. Len(s) /\ 1 < d /\ (Len(s) - (m + 1)) + 1 = d - 1
      BY <1>1, <1>3, <2>1, <2>3
    <3>2. r[m + 1] = s[d - 1]
      BY <1>3, <3>1
    <3> QED  BY <2>1, <2>2, <2>3, <3>1, <3>2 DEF Precede
  <2>4. CASE ~(m < Len(r))
    <3>1. ~(1 < d)
      BY <1>1, <1>3, <2>1, <2>4
    <3> QED  BY <2>1, <2>2, <2>4, <3>1 DEF Precede
  <2> QED  BY <2>3, <2>4
<1>6. Travels(r, last, pv)
  BY <1>4, <1>5 DEF Travels
<1> QED  BY <1>2, <1>6 DEF r

\* A list whose nodes keep their links is as it was.
LEMMA LinksKept ==
  ASSUME NEW s \in Seq(Node), NEW first, NEW last, NEW nx, NEW pv, NEW nx2, NEW pv2,
         Linked(s, first, last, nx, pv),
         \A y \in ToSet(s) : nx2[y] = nx[y] /\ pv2[y] = pv[y]
  PROVE  Linked(s, first, last, nx2, pv2)
  BY Elements DEF Linked

\* A node at the head.
LEMMA HeadLinked ==
  ASSUME NEW s \in Seq(Node), IsInjective(s), NEW x \in Node, x \notin ToSet(s),
         NEW first, NEW last, NEW nx, NEW pv, Linked(s, first, last, nx, pv),
         NEW nx2, NEW pv2,
         \A y \in Node : nx2[y] = IF y = x THEN first ELSE nx[y],
         \A y \in Node : pv2[y] = IF y = x THEN NULL ELSE IF y = first THEN x ELSE pv[y]
  PROVE  /\ IsInjective(<<x>> \o s) /\ <<x>> \o s \in Seq(Node)
         /\ ToSet(<<x>> \o s) = ToSet(s) \cup {x}
         /\ Linked(<<x>> \o s, x, IF first = NULL THEN x ELSE last, nx2, pv2)
<1> DEFINE t == <<x>> \o s
<1>1. /\ Len(s) \in Nat /\ (s = << >> <=> Len(s) = 0)
      /\ \A m \in 1 .. Len(s) : s[m] \in Node /\ s[m] # x /\ s[m] # NULL
  BY Elements
<1>2. /\ t \in Seq(Node) /\ Len(t) = Len(s) + 1 /\ t[1] = x
      /\ \A m \in 1 .. Len(s) : t[m + 1] = s[m]
  OBVIOUS
<1>3. DOMAIN t = 1 .. Len(s) + 1 /\ DOMAIN s = 1 .. Len(s) /\ t # << >>
  BY <1>1, <1>2, Elements
<1> HIDE DEF t
<1>4. \A m \in 1 .. Len(t) : m = 1 \/ (m - 1 \in 1 .. Len(s) /\ t[m] = s[m - 1])
  BY <1>1, <1>2
<1>5. IsInjective(t)
  <2> SUFFICES ASSUME NEW a \in 1 .. Len(t), NEW b \in 1 .. Len(t), t[a] = t[b]
               PROVE  a = b
    BY <1>2, <1>3 DEF IsInjective
  <2>1. \A k \in 1 .. Len(t) : k # 1 => t[k] # t[1]
    BY <1>1, <1>2, <1>4
  <2>0. a = 1 <=> b = 1
    BY <2>1
  <2>2. CASE a # 1
    <3>1. a - 1 \in 1 .. Len(s) /\ b - 1 \in 1 .. Len(s) /\ s[a - 1] = s[b - 1]
      BY <1>4, <2>0, <2>2
    <3>2. a - 1 = b - 1
      BY <1>3, <3>1 DEF IsInjective
    <3> QED  BY <3>1, <3>2
  <2> QED  BY <2>0, <2>2
<1>6. ToSet(t) = ToSet(s) \cup {x}
  <2>1. ToSet(t) \subseteq ToSet(s) \cup {x}
    <3>1. \A m \in 1 .. Len(t) : t[m] = x \/ t[m] \in ToSet(s)
      BY <1>2, <1>3, <1>4 DEF ToSet
    <3> QED  BY <1>2, <1>3, <3>1 DEF ToSet
  <2>2. \A m \in 1 .. Len(s) : m + 1 \in 1 .. Len(s) + 1
    BY <1>1
  <2>3. ToSet(s) \subseteq ToSet(t)
    BY <1>2, <1>3, <2>2 DEF ToSet
  <2>4. x \in ToSet(t)
    BY <1>1, <1>2, <1>3 DEF ToSet
  <2> QED  BY <2>1, <2>3, <2>4
<1>7. first = IF s = << >> THEN NULL ELSE s[1]
  BY DEF Linked
<1>8. (IF first = NULL THEN x ELSE last) = t[Len(t)]
  <2>1. CASE s = << >>
    BY <1>1, <1>2, <1>7, <2>1
  <2>2. CASE s # << >>
    <3>1. first # NULL /\ last = s[Len(s)] /\ Len(s) \in 1 .. Len(s)
      BY <1>1, <1>7, <2>2 DEF Linked
    <3> QED  BY <1>2, <3>1
  <2> QED  BY <2>1, <2>2
<1>9. ASSUME NEW m \in 1 .. Len(t)
      PROVE  nx2[t[m]] = Follow(t, m) /\ pv2[t[m]] = Precede(t, m)
  <2>1. CASE m = 1
    <3>1. nx2[x] = first /\ pv2[x] = NULL
      OBVIOUS
    <3>2. s # << >> => t[2] = s[1] /\ 1 < Len(t)
      <4>1. s # << >> => 1 \in 1 .. Len(s) /\ 1 + 1 = 2
        BY <1>1
      <4> QED  BY <1>1, <1>2, <4>1
    <3>3. s = << >> => ~(1 < Len(t))
      BY <1>1, <1>2
    <3> QED  BY <1>2, <1>7, <2>1, <3>1, <3>2, <3>3 DEF Follow, Precede
  <2>2. CASE m # 1
    <3>1. PICK d \in 1 .. Len(s) : d = m - 1 /\ t[m] = s[d] /\ 1 < m
      BY <1>4, <2>2
    <3>2. s[d] \in Node /\ s[d] # x /\ nx[s[d]] = Follow(s, d) /\ pv[s[d]] = Precede(s, d)
      BY <1>1 DEF Linked
    <3>3. nx2[s[d]] = Follow(s, d)
      BY <3>2
    <3>4. Follow(s, d) = Follow(t, m)
      <4>1. d < Len(s) <=> m < Len(t)
        BY <1>1, <1>2, <3>1
      <4>2. d < Len(s) => d + 1 \in 1 .. Len(s) /\ (d + 1) + 1 = m + 1
        BY <1>1, <3>1
      <4>3. d < Len(s) => t[m + 1] = s[d + 1]
        BY <1>2, <4>2
      <4> QED  BY <4>1, <4>3 DEF Follow
    <3>5. pv2[s[d]] = Precede(t, m)
      <4>1. CASE d = 1
        <5>1. s[d] = first /\ t[m - 1] = x
          BY <1>1, <1>2, <1>7, <3>1, <4>1
        <5> QED  BY <3>1, <3>2, <5>1 DEF Precede
      <4>2. CASE d # 1
        <5>1. 1 \in 1 .. Len(s) /\ s[1] = first /\ 1 < d
          BY <1>1, <1>7, <4>2
        <5>2. s[d] # first
          BY <1>3, <4>2, <5>1 DEF IsInjective
        <5>3. d - 1 \in 1 .. Len(s) /\ (d - 1) + 1 = m - 1
          BY <1>1, <3>1, <5>1
        <5>4. t[m - 1] = s[d - 1]
          BY <1>2, <5>3
        <5> QED  BY <3>1, <3>2, <5>1, <5>2, <5>4 DEF Precede
      <4> QED  BY <4>1, <4>2
    <3> QED  BY <3>1, <3>3, <3>4, <3>5
  <2> QED  BY <2>1, <2>2
<1>10. Linked(t, x, IF first = NULL THEN x ELSE last, nx2, pv2)
  BY <1>2, <1>3, <1>8, <1>9 DEF Linked
<1> QED  BY <1>2, <1>5, <1>6, <1>10 DEF t

\* A node at the tail.
LEMMA TailLinked ==
  ASSUME NEW s \in Seq(Node), IsInjective(s), NEW x \in Node, x \notin ToSet(s),
         NEW first, NEW last, NEW nx, NEW pv, Linked(s, first, last, nx, pv),
         NEW nx2, NEW pv2,
         \A y \in Node : pv2[y] = IF y = x THEN last ELSE pv[y],
         \A y \in Node : nx2[y] = IF y = x THEN NULL
                                  ELSE IF first # NULL /\ y = last THEN x ELSE nx[y]
  PROVE  /\ IsInjective(Append(s, x)) /\ Append(s, x) \in Seq(Node)
         /\ ToSet(Append(s, x)) = ToSet(s) \cup {x}
         /\ Linked(Append(s, x), IF first = NULL THEN x ELSE first, x, nx2, pv2)
<1> DEFINE t == Append(s, x)
<1>1. /\ Len(s) \in Nat /\ (s = << >> <=> Len(s) = 0) /\ DOMAIN s = 1 .. Len(s)
      /\ \A m \in 1 .. Len(s) : s[m] \in Node /\ s[m] # x /\ s[m] # NULL
  BY Elements
<1>2. /\ t \in Seq(Node) /\ Len(t) = Len(s) + 1 /\ t[Len(s) + 1] = x
      /\ \A m \in 1 .. Len(s) : t[m] = s[m]
      /\ ToSet(t) = ToSet(s) \cup {x}
  BY AppendElements
<1>3. IsInjective(t)
  BY InjectiveAppend
<1> HIDE DEF t
<1>4. t # << >>
  BY <1>1, <1>2, Elements
<1>5. /\ first = IF s = << >> THEN NULL ELSE s[1]
      /\ last = IF s = << >> THEN NULL ELSE s[Len(s)]
  BY DEF Linked
<1>6. (IF first = NULL THEN x ELSE first) = t[1]
  BY <1>1, <1>2, <1>5
<1>7. ASSUME NEW m \in 1 .. Len(t)
      PROVE  nx2[t[m]] = Follow(t, m) /\ pv2[t[m]] = Precede(t, m)
  <2>1. CASE m = Len(s) + 1
    <3>1. nx2[x] = NULL /\ pv2[x] = last
      OBVIOUS
    <3>2. ~(m < Len(t))
      BY <1>1, <1>2, <2>1
    <3>3. s # << >> => Len(s) \in 1 .. Len(s) /\ 1 < m /\ m - 1 = Len(s)
      BY <1>1, <2>1
    <3>4. s = << >> => ~(1 < m)
      BY <1>1, <2>1
    <3>5. last = Precede(t, m)
      BY <1>2, <1>5, <3>3, <3>4 DEF Precede
    <3> QED  BY <1>2, <2>1, <3>1, <3>2, <3>5 DEF Follow
  <2>2. CASE m # Len(s) + 1
    <3>1. m \in 1 .. Len(s) /\ m < Len(t) /\ s # << >>
      BY <1>1, <1>2, <2>2
    <3>2. s[m] \in Node /\ s[m] # x /\ nx[s[m]] = Follow(s, m) /\ pv[s[m]] = Precede(s, m)
      BY <1>1, <3>1 DEF Linked
    <3>3. pv2[s[m]] = Precede(t, m)
      <4>1. 1 < m => m - 1 \in 1 .. Len(s)
        BY <1>1, <3>1
      <4>2. Precede(t, m) = Precede(s, m)
        BY <1>2, <4>1 DEF Precede
      <4> QED  BY <3>2, <4>2
    <3>4. first # NULL /\ last = s[Len(s)]
      BY <1>1, <1>5, <3>1
    <3>5. nx2[s[m]] = t[m + 1]
      <4>1. CASE m = Len(s)
        BY <1>2, <3>2, <3>4, <4>1
      <4>2. CASE m # Len(s)
        <5>0. Len(s) \in Nat /\ m \in 1 .. Len(s)
          BY <1>1, <3>1
        <5>1. m < Len(s) /\ m + 1 \in 1 .. Len(s) /\ Len(s) \in 1 .. Len(s)
          BY ONLY <4>2, <5>0
        <5>2. s[m] # last
          BY <1>1, <3>1, <3>4, <4>2, <5>1 DEF IsInjective
        <5> QED  BY <1>2, <3>2, <5>1, <5>2 DEF Follow
      <4> QED  BY <4>1, <4>2
    <3> QED  BY <1>2, <3>1, <3>3, <3>5 DEF Follow
  <2> QED  BY <2>1, <2>2
<1>8. x = t[Len(t)]
  BY <1>2
<1>9. Linked(t, IF first = NULL THEN x ELSE first, x, nx2, pv2)
  BY <1>4, <1>6, <1>7, <1>8 DEF Linked
<1> QED  BY <1>2, <1>3, <1>9 DEF t

\* What RemoveAt leaves: the elements before and those after.
LEMMA Removed ==
  ASSUME NEW s \in Seq(Node), NEW m \in 1 .. Len(s)
  PROVE  /\ RemoveAt(s, m) \in Seq(Node) /\ Len(RemoveAt(s, m)) = Len(s) - 1
         /\ \A k \in 1 .. Len(s) - 1 : RemoveAt(s, m)[k] = IF k < m THEN s[k] ELSE s[k + 1]
<1> DEFINE a == SubSeq(s, 1, m - 1)
           b == SubSeq(s, m + 1, Len(s))
<1>1. Len(s) \in Nat
  OBVIOUS
<1>2. /\ a \in Seq(Node) /\ Len(a) = m - 1
      /\ \A k \in 1 .. m - 1 : a[k] = s[k]
  OBVIOUS
<1>3. /\ b \in Seq(Node) /\ Len(b) = Len(s) - m
      /\ \A k \in 1 .. Len(s) - m : b[k] = s[m + k]
  OBVIOUS
<1>4. RemoveAt(s, m) = a \o b
  BY DEF RemoveAt
<1> HIDE DEF a, b
<1>5. /\ a \o b \in Seq(Node) /\ Len(a \o b) = Len(a) + Len(b)
      /\ \A k \in 1 .. Len(a) + Len(b) : (a \o b)[k] = IF k <= Len(a) THEN a[k] ELSE b[k - Len(a)]
  BY <1>2, <1>3, ConcatProperties
<1>6. Len(a) + Len(b) = Len(s) - 1
  BY <1>1, <1>2, <1>3
<1>7. ASSUME NEW k \in 1 .. Len(s) - 1
      PROVE  (a \o b)[k] = IF k < m THEN s[k] ELSE s[k + 1]
  <2>1. CASE k < m
    BY <1>1, <1>2, <1>5, <1>6, <2>1
  <2>2. CASE ~(k < m)
    <3>1. ~(k <= Len(a)) /\ k - Len(a) \in 1 .. Len(s) - m /\ m + (k - Len(a)) = k + 1
      BY <1>1, <1>2, <2>2
    <3> QED  BY <1>3, <1>5, <1>6, <2>2, <3>1
  <2> QED  BY <2>1, <2>2
<1> QED  BY <1>4, <1>5, <1>6, <1>7

\* A node taken out, from anywhere.
LEMMA DelLinked ==
  ASSUME NEW s \in Seq(Node), IsInjective(s), NEW m \in 1 .. Len(s),
         NEW first, NEW last, NEW nx, NEW pv, Linked(s, first, last, nx, pv),
         NEW nx2, NEW pv2,
         \A y \in Node : nx2[y] = IF y = pv[s[m]] THEN nx[s[m]] ELSE nx[y],
         \A y \in Node : pv2[y] = IF y = nx[s[m]] THEN pv[s[m]] ELSE pv[y]
  PROVE  /\ IsInjective(RemoveAt(s, m)) /\ RemoveAt(s, m) \in Seq(Node)
         /\ ToSet(RemoveAt(s, m)) \subseteq ToSet(s)
         /\ Linked(RemoveAt(s, m), IF first = s[m] THEN nx[s[m]] ELSE first,
                   IF last = s[m] THEN pv[s[m]] ELSE last, nx2, pv2)
<1> DEFINE t == RemoveAt(s, m)
<1>1. /\ Len(s) \in Nat /\ (s = << >> <=> Len(s) = 0) /\ DOMAIN s = 1 .. Len(s)
      /\ \A k \in 1 .. Len(s) : s[k] \in Node /\ s[k] \in ToSet(s) /\ s[k] # NULL
  BY Elements
<1>2. /\ t \in Seq(Node) /\ Len(t) = Len(s) - 1
      /\ \A k \in 1 .. Len(s) - 1 : t[k] = IF k < m THEN s[k] ELSE s[k + 1]
  BY Removed
<1> HIDE DEF t
<1>3. DOMAIN t = 1 .. Len(t) /\ Len(t) \in Nat /\ (t = << >> <=> Len(t) = 0)
  BY <1>2, Elements
<1>0. /\ m \in 1 .. Len(s) /\ Len(s) \in Nat /\ Len(t) \in Nat /\ Len(t) = Len(s) - 1
      /\ (t = << >> <=> Len(t) = 0)
  BY <1>1, <1>2, <1>3
<1>4. \A k \in 1 .. Len(t) : k \in 1 .. Len(s) /\ k + 1 \in 1 .. Len(s)
  BY <1>1, <1>2
<1>5. \A j, k \in 1 .. Len(s) : s[j] = s[k] => j = k
  BY <1>1 DEF IsInjective
<1>6. IsInjective(t)
  <2> SUFFICES ASSUME NEW a \in 1 .. Len(t), NEW b \in 1 .. Len(t), t[a] = t[b]
               PROVE  a = b
    BY <1>3 DEF IsInjective
  <2>1. /\ t[a] = IF a < m THEN s[a] ELSE s[a + 1]
        /\ t[b] = IF b < m THEN s[b] ELSE s[b + 1]
    BY <1>2
  <2>2. CASE a < m /\ b < m
    <3>1. s[a] = s[b] /\ a \in 1 .. Len(s) /\ b \in 1 .. Len(s)
      BY <1>4, <2>1, <2>2
    <3> QED  BY <1>5, <3>1
  <2>3. CASE a < m /\ ~(b < m)
    <3>1. a = b + 1
      <4>1. s[a] = s[b + 1] /\ a \in 1 .. Len(s) /\ b + 1 \in 1 .. Len(s)
        BY <1>4, <2>1, <2>3
      <4> QED  BY <1>5, <4>1
    <3> QED  BY <1>1, <2>3, <3>1
  <2>4. CASE ~(a < m) /\ b < m
    <3>1. a + 1 = b
      <4>1. s[a + 1] = s[b] /\ a + 1 \in 1 .. Len(s) /\ b \in 1 .. Len(s)
        BY <1>4, <2>1, <2>4
      <4> QED  BY <1>5, <4>1
    <3> QED  BY <1>1, <2>4, <3>1
  <2>5. CASE ~(a < m) /\ ~(b < m)
    <3>1. a + 1 = b + 1
      <4>1. s[a + 1] = s[b + 1] /\ a + 1 \in 1 .. Len(s) /\ b + 1 \in 1 .. Len(s)
        BY <1>4, <2>1, <2>5
      <4> QED  BY <1>5, <4>1
    <3> QED  BY <1>1, <3>1
  <2> QED  BY <2>2, <2>3, <2>4, <2>5
<1>7. ToSet(t) \subseteq ToSet(s)
  <2>1. \A k \in 1 .. Len(t) : t[k] \in ToSet(s)
    BY <1>1, <1>2, <1>4
  <2> QED  BY <1>3, <2>1 DEF ToSet
<1>8. nx[s[m]] = Follow(s, m) /\ pv[s[m]] = Precede(s, m)
  BY DEF Linked
<1>9. (IF first = s[m] THEN nx[s[m]] ELSE first) = IF t = << >> THEN NULL ELSE t[1]
  <2>1. first = s[1] /\ 1 \in 1 .. Len(s)
    BY <1>1 DEF Linked
  <2>2. CASE m = 1
    <3>1. t # << >> => 1 \in 1 .. Len(s) - 1 /\ ~(1 < m) /\ m < Len(s) /\ m + 1 = 1 + 1
      BY ONLY <1>0, <2>2
    <3>0. Len(t) = 0 => Len(s) = 1
      BY ONLY <1>0
    <3>2. t = << >> => ~(m < Len(s))
      <4>1. Len(s) = 1 => ~(m < Len(s))
        BY ONLY <2>2
      <4> QED  BY <1>0, <3>0, <4>1, Zenon
    <3>3. t # << >> => t[1] = s[1 + 1]
      BY <1>2, <3>1
    <3> QED  BY <1>8, <2>1, <2>2, <3>1, <3>2, <3>3 DEF Follow
  <2>3. CASE m # 1
    <3>1. 1 \in 1 .. Len(s) - 1 /\ 1 < m /\ t # << >>
      BY ONLY <1>0, <2>3
    <3>2. first # s[m]
      BY <1>5, <2>1, <2>3
    <3> QED  BY <1>2, <2>1, <3>1, <3>2
  <2> QED  BY <2>2, <2>3
<1>10. (IF last = s[m] THEN pv[s[m]] ELSE last) = IF t = << >> THEN NULL ELSE t[Len(t)]
  <2>1. last = s[Len(s)] /\ Len(s) \in 1 .. Len(s)
    <3>1. Len(s) \in 1 .. Len(s)
      BY <1>1
    <3> QED  BY <1>1, <3>1 DEF Linked
  <2>2. CASE m = Len(s)
    <3>1. t # << >> => Len(t) \in 1 .. Len(s) - 1 /\ Len(t) < m /\ 1 < m /\ m - 1 = Len(t)
      BY ONLY <1>0, <2>2
    <3>2. t = << >> => ~(1 < m)
      BY ONLY <1>0, <2>2
    <3>3. t # << >> => t[Len(t)] = s[m - 1]
      BY <1>2, <3>1
    <3> QED  BY <1>8, <2>1, <2>2, <3>1, <3>2, <3>3 DEF Precede
  <2>3. CASE m # Len(s)
    <3>1. /\ Len(t) \in 1 .. Len(s) - 1 /\ ~(Len(t) < m) /\ t # << >>
          /\ Len(t) + 1 = Len(s)
      BY ONLY <1>0, <2>3
    <3>2. last # s[m]
      BY <1>5, <2>1, <2>3
    <3> QED  BY <1>2, <2>1, <3>1, <3>2
  <2> QED  BY <2>2, <2>3
<1>11. ASSUME NEW k \in 1 .. Len(t)
       PROVE  nx2[t[k]] = Follow(t, k) /\ pv2[t[k]] = Precede(t, k)
  <2>1. PICK d \in 1 .. Len(s) : d = (IF k < m THEN k ELSE k + 1) /\ t[k] = s[d] /\ d # m
    <3>1. CASE k < m
      BY <1>1, <1>2, <1>4, <3>1
    <3>2. CASE ~(k < m)
      <4>1. k + 1 \in 1 .. Len(s) /\ k + 1 # m /\ t[k] = s[k + 1]
        BY <1>1, <1>2, <1>4, <3>2
      <4> QED  BY <3>2, <4>1
    <3> QED  BY <3>1, <3>2
  <2>2. s[d] \in Node /\ nx[s[d]] = Follow(s, d) /\ pv[s[d]] = Precede(s, d) /\ s[d] # NULL
    BY <1>1 DEF Linked
  <2>3. k \in Nat /\ m \in Nat /\ k <= Len(t) /\ 1 <= k /\ m <= Len(s) /\ 1 <= m
    BY <1>1, <1>3
  <2>4. nx2[s[d]] = Follow(t, k)
    <3>1. CASE d + 1 = m
      <4>1. k = d /\ 1 < m /\ m - 1 = d /\ k + 1 = m
        BY <1>1, <2>1, <2>3, <3>1
      <4>2. nx2[s[d]] = Follow(s, m)
        BY <1>8, <2>2, <4>1 DEF Precede
      <4>3. m < Len(s) <=> k < Len(t)
        BY <1>1, <1>2, <2>3, <4>1
      <4>4. k < Len(t) => m \in 1 .. Len(s) - 1 /\ ~(m < m)
        BY <1>1, <1>2, <2>3, <4>1
      <4>5. k < Len(t) => t[m] = s[m + 1]
        BY <1>2, <4>4
      <4> QED  BY <4>1, <4>2, <4>3, <4>5 DEF Follow
    <3>2. CASE d + 1 # m
      <4>1. 1 < m => m - 1 \in 1 .. Len(s) /\ m - 1 # d
        BY <1>1, <2>3, <3>2
      <4>2. s[d] # pv[s[m]]
        BY <1>5, <1>8, <2>2, <4>1 DEF Precede
      <4>3. nx2[s[d]] = Follow(s, d)
        BY <2>2, <4>2
      <4>4. d < Len(s) <=> k < Len(t)
        BY <1>1, <1>2, <2>1, <2>3, <3>2
      <4>5. k < Len(t) => k + 1 \in 1 .. Len(s) - 1 /\ d + 1 = IF k + 1 < m THEN k + 1 ELSE (k + 1) + 1
        BY <1>1, <1>2, <2>1, <2>3, <3>2
      <4>6. k < Len(t) => t[k + 1] = s[d + 1]
        BY <1>2, <4>5
      <4> QED  BY <4>3, <4>4, <4>6 DEF Follow
    <3> QED  BY <3>1, <3>2
  <2>5. pv2[s[d]] = Precede(t, k)
    <3>1. CASE d = m + 1
      <4>1. k = m /\ m < Len(s)
        BY <1>1, <2>1, <2>3, <3>1
      <4>2. pv2[s[d]] = Precede(s, m)
        BY <1>8, <2>2, <3>1, <4>1 DEF Follow
      <4>3. 1 < k => k - 1 \in 1 .. Len(s) - 1 /\ k - 1 < m
        BY <1>1, <1>2, <2>3, <4>1
      <4>4. 1 < k => t[k - 1] = s[m - 1]
        BY <1>2, <4>1, <4>3
      <4> QED  BY <4>1, <4>2, <4>4 DEF Precede
    <3>2. CASE d # m + 1
      <4>1. m < Len(s) => m + 1 \in 1 .. Len(s)
        BY <1>1, <2>3
      <4>2. s[d] # nx[s[m]]
        BY <1>5, <1>8, <2>2, <3>2, <4>1 DEF Follow
      <4>3. pv2[s[d]] = Precede(s, d)
        BY <2>2, <4>2
      <4>4. 1 < d <=> 1 < k
        BY <1>1, <1>2, <2>1, <2>3, <3>2
      <4>5. 1 < k => k - 1 \in 1 .. Len(s) - 1 /\ d - 1 = IF k - 1 < m THEN k - 1 ELSE (k - 1) + 1
        BY <1>1, <1>2, <2>1, <2>3, <3>2
      <4>6. 1 < k => t[k - 1] = s[d - 1]
        BY <1>2, <4>5
      <4> QED  BY <4>3, <4>4, <4>6 DEF Precede
    <3> QED  BY <3>1, <3>2
  <2> QED  BY <2>1, <2>4, <2>5
<1>12. Linked(t, IF first = s[m] THEN nx[s[m]] ELSE first,
              IF last = s[m] THEN pv[s[m]] ELSE last, nx2, pv2)
  BY <1>9, <1>10, <1>11 DEF Linked
<1> QED  BY <1>2, <1>6, <1>7, <1>12 DEF t

-----------------------------------------------------------------------------
\* One list changes: what holds of the others and of the new one holds of all.
LEMMA OneListChanges ==
  ASSUME NEW l \in List, NEW s \in Seq(Node), NEW x \in Node \cup {NULL}, NEW y \in Node \cup {NULL},
         ListInv, ListTypes', order' = [order EXCEPT ![l] = s],
         lhead' = [lhead EXCEPT ![l] = x], ltail' = [ltail EXCEPT ![l] = y],
         IsInjective(s), Linked(s, x, y, next', prev'),
         ToSet(s) \subseteq In(l) \cup Loose,
         \A k \in List : k # l => \A z \in In(k) : next'[z] = next[z] /\ prev'[z] = prev[z]
  PROVE  ListInv'
<1>1. /\ order'[l] = s /\ lhead'[l] = x /\ ltail'[l] = y
      /\ \A k \in List : k # l => order'[k] = order[k] /\ lhead'[k] = lhead[k] /\ ltail'[k] = ltail[k]
  BY DEF ListInv, ListTypes
<1>2. ASSUME NEW k \in List
      PROVE  IsInjective(order'[k]) /\ Linked(order'[k], lhead'[k], ltail'[k], next', prev')
  <2>1. CASE k = l
    BY <1>1, <2>1
  <2>2. CASE k # l
    <3>1. order[k] \in Seq(Node) /\ IsInjective(order[k]) /\ Linked(order[k], lhead[k], ltail[k], next, prev)
      BY DEF ListInv, ListTypes
    <3>2. Linked(order[k], lhead[k], ltail[k], next', prev')
      BY <2>2, <3>1, LinksKept DEF In
    <3> QED  BY <1>1, <2>2, <3>1, <3>2
  <2> QED  BY <2>1, <2>2
<1>3. \A k, j \in List : k # j => ToSet(order'[k]) \cap ToSet(order'[j]) = {}
  BY <1>1 DEF ListInv, In, Loose
<1> QED  BY <1>2, <1>3 DEF ListInv, In

\* The neighbours of a node in a list, and the ends of a list, are in it.
LEMMA Near ==
  ASSUME ListInv, NEW l \in List
  PROVE  /\ lhead[l] \in In(l) \cup {NULL} /\ ltail[l] \in In(l) \cup {NULL}
         /\ \A x \in In(l) : next[x] \in In(l) \cup {NULL} /\ prev[x] \in In(l) \cup {NULL}
<1> DEFINE s == order[l]
<1>1. s \in Seq(Node) /\ Linked(s, lhead[l], ltail[l], next, prev)
  BY DEF ListInv, ListTypes
<1> HIDE DEF s
<1>2. /\ Len(s) \in Nat /\ (s = << >> <=> Len(s) = 0)
      /\ \A m \in 1 .. Len(s) : s[m] \in ToSet(s)
      /\ \A x \in ToSet(s) : \E m \in 1 .. Len(s) : x = s[m]
  BY <1>1, Elements
<1>3. lhead[l] \in ToSet(s) \cup {NULL} /\ ltail[l] \in ToSet(s) \cup {NULL}
  <2>1. s # << >> => 1 \in 1 .. Len(s) /\ Len(s) \in 1 .. Len(s)
    BY <1>2
  <2> QED  BY <1>1, <1>2, <2>1 DEF Linked
<1>4. ASSUME NEW m \in 1 .. Len(s)
      PROVE  next[s[m]] \in ToSet(s) \cup {NULL} /\ prev[s[m]] \in ToSet(s) \cup {NULL}
  <2>1. next[s[m]] = Follow(s, m) /\ prev[s[m]] = Precede(s, m)
    BY <1>1 DEF Linked
  <2>2. (m < Len(s) => m + 1 \in 1 .. Len(s)) /\ (1 < m => m - 1 \in 1 .. Len(s))
    BY <1>2
  <2> QED  BY <1>2, <2>1, <2>2 DEF Follow, Precede
<1> QED  BY <1>2, <1>3, <1>4 DEF In, s

\* dlist_add_to_head changes the links of the new node and of the old head only, and
\* both belong to this list.
LEMMA HeadKeeps ==
  ASSUME ListInv, NEW l \in List, NEW x \in Node, dlist_add_to_head(l, x)
  PROVE  ListInv'
<1>1. /\ order[l] \in Seq(Node) /\ IsInjective(order[l]) /\ x \notin ToSet(order[l])
      /\ Linked(order[l], lhead[l], ltail[l], next, prev)
      /\ lhead[l] \in Node \cup {NULL} /\ ltail[l] \in Node \cup {NULL} /\ NULL \notin Node
  BY DListAssumption DEF ListInv, ListTypes, dlist_add_to_head, Loose, In
<1>2. /\ \A y \in Node : next'[y] = IF y = x THEN lhead[l] ELSE next[y]
      /\ \A y \in Node : prev'[y] = IF y = x THEN NULL ELSE IF y = lhead[l] THEN x ELSE prev[y]
  BY DEF ListInv, ListTypes, dlist_add_to_head
<1> DEFINE s == <<x>> \o order[l]
           e == IF lhead[l] = NULL THEN x ELSE ltail[l]
<1>3. IsInjective(s) /\ s \in Seq(Node) /\ ToSet(s) = In(l) \cup {x} /\ Linked(s, x, e, next', prev')
  BY <1>1, <1>2, HeadLinked DEF In
<1>4. order' = [order EXCEPT ![l] = s] /\ lhead' = [lhead EXCEPT ![l] = x]
  BY DEF dlist_add_to_head
<1>5. ltail' = [ltail EXCEPT ![l] = e]
  BY DEF dlist_add_to_head, ListInv, ListTypes
<1>6. e \in Node \cup {NULL}
  BY <1>1
<1> HIDE DEF s, e
<1>7. ListTypes'
  BY <1>1, <1>3, <1>4, <1>5, <1>6 DEF ListInv, ListTypes, dlist_add_to_head
<1>8. \A k \in List : k # l => \A z \in In(k) : z # x /\ z # lhead[l] /\ z \in Node
  BY Near, <1>1, Elements DEF ListInv, ListTypes, dlist_add_to_head, Loose, In
<1>9. \A k \in List : k # l => \A z \in In(k) : next'[z] = next[z] /\ prev'[z] = prev[z]
  BY <1>2, <1>8
<1>10. ToSet(s) \subseteq In(l) \cup Loose
  BY <1>3 DEF dlist_add_to_head
<1> QED  BY <1>3, <1>4, <1>5, <1>6, <1>7, <1>9, <1>10, OneListChanges

\* dlist_add_to_tail changes the links of the new node and of the old tail only.
LEMMA TailKeeps ==
  ASSUME ListInv, NEW l \in List, NEW x \in Node, dlist_add_to_tail(l, x)
  PROVE  ListInv'
<1>1. /\ order[l] \in Seq(Node) /\ IsInjective(order[l]) /\ x \notin ToSet(order[l])
      /\ Linked(order[l], lhead[l], ltail[l], next, prev)
      /\ lhead[l] \in Node \cup {NULL} /\ ltail[l] \in Node \cup {NULL} /\ NULL \notin Node
  BY DListAssumption DEF ListInv, ListTypes, dlist_add_to_tail, Loose, In
<1>2. /\ \A y \in Node : prev'[y] = IF y = x THEN ltail[l] ELSE prev[y]
      /\ \A y \in Node : next'[y] = IF y = x THEN NULL
                                    ELSE IF lhead[l] # NULL /\ y = ltail[l] THEN x ELSE next[y]
  BY DEF ListInv, ListTypes, dlist_add_to_tail
<1> DEFINE s == Append(order[l], x)
           h == IF lhead[l] = NULL THEN x ELSE lhead[l]
<1>3. IsInjective(s) /\ s \in Seq(Node) /\ ToSet(s) = In(l) \cup {x} /\ Linked(s, h, x, next', prev')
  BY <1>1, <1>2, TailLinked DEF In
<1>4. order' = [order EXCEPT ![l] = s] /\ ltail' = [ltail EXCEPT ![l] = x]
  BY DEF dlist_add_to_tail
<1>5. lhead' = [lhead EXCEPT ![l] = h]
  BY DEF dlist_add_to_tail, ListInv, ListTypes
<1>6. h \in Node \cup {NULL}
  BY <1>1
<1> HIDE DEF s, h
<1>7. ListTypes'
  BY <1>1, <1>3, <1>4, <1>5, <1>6 DEF ListInv, ListTypes, dlist_add_to_tail
<1>8. \A k \in List : k # l => \A z \in In(k) : z # x /\ z # ltail[l] /\ z \in Node
  <2>1. ltail[l] \in In(l) \cup {NULL} /\ x \in Loose
    BY Near DEF dlist_add_to_tail
  <2>2. \A k \in List : \A z \in In(k) : z \in Node /\ z # x
    BY <2>1, Elements DEF ListInv, ListTypes, Loose, In
  <2> QED  BY <1>1, <2>1, <2>2 DEF ListInv
<1>9. \A k \in List : k # l => \A z \in In(k) : next'[z] = next[z] /\ prev'[z] = prev[z]
  BY <1>2, <1>8
<1>10. ToSet(s) \subseteq In(l) \cup Loose
  BY <1>3 DEF dlist_add_to_tail
<1> QED  BY <1>3, <1>4, <1>5, <1>6, <1>7, <1>9, <1>10, OneListChanges

\* dlist_del changes the links of the node's neighbours only, which are in its list;
\* the node keeps its own.
LEMMA DelKeeps ==
  ASSUME ListInv, NEW l \in List, NEW x \in Node, dlist_del(l, x)
  PROVE  ListInv'
<1>1. PICK m \in 1 .. Len(order[l]) : order[l][m] = x /\ order' = [order EXCEPT ![l] = RemoveAt(@, m)]
  BY DEF dlist_del
<1>2. /\ order[l] \in Seq(Node) /\ IsInjective(order[l]) /\ x \in In(l)
      /\ Linked(order[l], lhead[l], ltail[l], next, prev)
      /\ lhead[l] \in Node \cup {NULL} /\ ltail[l] \in Node \cup {NULL} /\ NULL \notin Node
  BY DListAssumption DEF ListInv, ListTypes, dlist_del
<1>3. /\ \A y \in Node : next'[y] = IF y = prev[x] THEN next[x] ELSE next[y]
      /\ \A y \in Node : prev'[y] = IF y = next[x] THEN prev[x] ELSE prev[y]
  BY DEF ListInv, ListTypes, dlist_del
<1> DEFINE s == RemoveAt(order[l], m)
           h == IF lhead[l] = x THEN next[x] ELSE lhead[l]
           e == IF ltail[l] = x THEN prev[x] ELSE ltail[l]
<1>4. IsInjective(s) /\ s \in Seq(Node) /\ ToSet(s) \subseteq In(l) /\ Linked(s, h, e, next', prev')
  BY <1>1, <1>2, <1>3, DelLinked DEF In
<1>5. /\ order' = [order EXCEPT ![l] = s] /\ lhead' = [lhead EXCEPT ![l] = h]
      /\ ltail' = [ltail EXCEPT ![l] = e]
  BY <1>1 DEF dlist_del, TailAfterDel, ListInv, ListTypes
<1>6. h \in Node \cup {NULL} /\ e \in Node \cup {NULL} /\ next[x] \in Node \cup {NULL} /\ prev[x] \in Node \cup {NULL}
  BY <1>2 DEF ListInv, ListTypes
<1> HIDE DEF s, h, e
<1>7. ListTypes'
  BY <1>2, <1>4, <1>5, <1>6 DEF ListInv, ListTypes, dlist_del
<1>8. \A k \in List : k # l => \A z \in In(k) : z # next[x] /\ z # prev[x] /\ z \in Node
  BY Near, <1>2, Elements DEF ListInv, ListTypes, In
<1>9. \A k \in List : k # l => \A z \in In(k) : next'[z] = next[z] /\ prev'[z] = prev[z]
  BY <1>3, <1>8
<1> QED  BY <1>4, <1>5, <1>6, <1>7, <1>9, OneListChanges

\* bytes_destroy leaves an empty list, and the links as they are.
LEMMA DestroyKeeps ==
  ASSUME ListInv, NEW l \in List, bytes_destroy(l)
  PROVE  ListInv'
<1>1. /\ << >> \in Seq(Node) /\ Len(<< >>) = 0 /\ ToSet(<< >>) = {} /\ IsInjective(<< >>)
      /\ Linked(<< >>, NULL, NULL, next', prev')
  <2>1. << >> \in Seq(Node) /\ Len(<< >>) = 0
    BY EmptySeq
  <2> QED  BY <2>1 DEF ToSet, IsInjective, Linked
<1>2. ListTypes'
  BY <1>1 DEF ListInv, ListTypes, bytes_destroy
<1>3. next' = next /\ prev' = prev
  BY DEF bytes_destroy
<1> QED  BY <1>1, <1>2, <1>3, OneListChanges DEF bytes_destroy

\* dlist_node_init runs on a node outside every list.
LEMMA InitKeeps ==
  ASSUME ListInv, NEW x \in Node, NodeInit(x)
  PROVE  ListInv'
<1>1. ListTypes'
  BY DEF ListInv, ListTypes, NodeInit
<1>2. \A l \in List : \A z \in ToSet(order[l]) : next'[z] = next[z] /\ prev'[z] = prev[z]
  BY Elements DEF ListInv, ListTypes, NodeInit, Loose, In
<1>3. \A l \in List : Linked(order[l], lhead[l], ltail[l], next', prev')
  BY <1>2, LinksKept DEF ListInv, ListTypes
<1> QED  BY <1>1, <1>3 DEF ListInv, NodeInit, In

\* The links agree with the order of every list, through every operation of dlist.c
\* and the release of a byte buffer.
THEOREM ListInvariant == ListSpec => []ListInv
<1>1. ListInit => ListInv
  <2> SUFFICES ASSUME ListInit  PROVE ListInv
    OBVIOUS
  <2>1. << >> \in Seq(Node) /\ Len(<< >>) = 0
    BY EmptySeq
  <2>2. ListTypes
    BY <2>1 DEF ListInit, ListTypes
  <2>3. ToSet(<< >>) = {} /\ IsInjective(<< >>) /\ Linked(<< >>, NULL, NULL, next, prev)
    BY <2>1 DEF ToSet, IsInjective, Linked
  <2> QED  BY <2>2, <2>3 DEF ListInit, ListInv, In
<1>2. ListInv /\ [ListNext]_listVars => ListInv'
  <2> SUFFICES ASSUME ListInv, [ListNext]_listVars  PROVE ListInv'
    OBVIOUS
  <2>1. CASE UNCHANGED listVars
    BY <2>1 DEF listVars, ListInv, ListTypes, In
  <2>2. CASE ListNext
    BY <2>2, HeadKeeps, TailKeeps, DelKeeps, DestroyKeeps, InitKeeps DEF ListNext
  <2> QED  BY <2>1, <2>2
<1> QED  BY <1>1, <1>2, PTL DEF ListSpec

\* ListIsSequence for any number of nodes and lists: a walk of dlist_pos_travel from
\* either end visits exactly what was added and not deleted, in order, and ends.
THEOREM ListsAreSequences == ListSpec => []ListIsSequence
<1>1. ListInv => ListIsSequence
  BY LinkedTravels DEF ListInv, ListTypes, ListIsSequence
<1> QED  BY <1>1, ListInvariant, PTL

-----------------------------------------------------------------------------
(* The logger *)

\* what the logger of a channel has had and will have, in order
Stream(ch) == output[ch] \o buf[ch]

KeeperState == [at : {"idle", "add", "adding", "del", "deleting", "closing"},
                id : Id \cup {NULL}, ch : Nat]
LogState == [at : {"idle", "range", "send", "returned"},
             found : SUBSET Chan, had : SUBSET Chan, ch : Chan \cup {0}]

LogTypes ==
  /\ keeper \in [Keeper -> KeeperState] /\ logging \in [Record -> LogState]
  /\ buf \in [Chan -> Seq(Record)] /\ output \in [Chan -> Seq(Record)]
  /\ made \in Nat

\* between the lock and the unlock the lock is the keeper's
LockHeld == \A k \in Keeper : keeper[k].at \in {"adding", "deleting", "closing"} => mux = k

\* what is looked at without the lock leaves room for every channel to come
Reserved == made + Cardinality(Adding) <= MaxLogger

\* A channel under way into the map is the newest: no entry and no Log has it.
NewIsUnknown ==
  /\ Range(logChannels) \subseteq 1 .. made
  /\ \A r \in Record : logging[r].found \subseteq 1 .. made
  /\ \A k \in Keeper : keeper[k].at = "adding" =>
       /\ keeper[k].ch = made /\ made # 0 /\ made \notin Range(logChannels)
       /\ \A r \in Record : made \notin logging[r].found

\* where the range loop of a Log stands
LoopSound ==
  \A r \in Record :
    /\ logging[r].at \in {"idle", "returned"} => logging[r].had = {}
    /\ logging[r].at = "send" => logging[r].ch \in logging[r].had
    /\ logging[r].at # "send" => logging[r].ch = 0

\* A record is in the channels its loop has had, but the one it sends to, and,
\* before Log returns, in no other.
Handed ==
  \A r \in Record, ch \in Chan :
    /\ ch \in logging[r].had \ {logging[r].ch} => r \in ToSet(Stream(ch))
    /\ r \in ToSet(Stream(ch)) =>
         logging[r].at = "returned" \/ ch \in logging[r].had \ {logging[r].ch}

LogInv == LogTypes /\ LockHeld /\ Reserved /\ NewIsUnknown /\ LoopSound /\ Handed /\ LoggedEverywhere

\* memory as the process finds it when it starts
Blank ==
  /\ logChannels = << >> /\ mux = NULL /\ made = 0
  /\ buf = [ch \in Chan |-> << >>] /\ output = [ch \in Chan |-> << >>]
  /\ keeper = [k \in Keeper |-> Idle] /\ logging = [r \in Record |-> NotCalled]

-----------------------------------------------------------------------------
\* An empty map holds no channel.
LEMMA NoEntry == Range(<< >>) = {} /\ ToSet(<< >>) = {} /\ IsInjective(<< >>)
<1>1. << >> \in Seq({}) /\ Len(<< >>) = 0
  BY EmptySeq
<1>2. DOMAIN << >> = 1 .. 0
  BY <1>1, LenProperties
<1>3. DOMAIN << >> = {}
  BY <1>2
<1> QED  BY <1>3 DEF Range, ToSet, IsInjective

\* A keeper, or a Log, that goes on leaves the others where they are.
LEMMA OneChanges ==
  ASSUME NEW S, NEW R, NEW f \in [S -> R], NEW g, NEW x \in S,
         DOMAIN g = S, g = [y \in DOMAIN g |-> g[y]],
         \A y \in S : y # x => g[y] = f[y], g[x] \in R
  PROVE  g \in [S -> R]
  OBVIOUS

\* A process that starts has logged nothing.
LEMMA BlankInv == Blank => LogInv
<1> SUFFICES ASSUME Blank PROVE LogInv
  OBVIOUS
<1>1. LogTypes
  BY EmptySeq DEF Blank, LogTypes, KeeperState, LogState, Idle, NotCalled
<1>2. /\ \A k \in Keeper : keeper[k].at = "idle"
      /\ \A r \in Record : logging[r] = NotCalled
  BY DEF Blank, Idle
<1>3. Reserved
  <2>1. Adding = {}
    BY <1>2 DEF Adding
  <2> QED  BY <2>1, FS_EmptySet, LoggerAssumption DEF Reserved, Blank
<1>4. NewIsUnknown
  BY <1>2, NoEntry DEF NewIsUnknown, Blank, NotCalled
<1>5. \A ch \in Chan : Stream(ch) = << >>
  BY EmptyConcat DEF Blank, Stream
<1>6. Handed
  BY <1>2, <1>5, NoEntry DEF Handed, NotCalled
<1>7. LoggedEverywhere
  <2>1. \A ch \in Chan : IsInjective(Stream(ch))
    BY <1>5, NoEntry
  <2>2. \A r \in Record : logging[r].at # "returned"
    BY <1>2 DEF NotCalled
  <2> QED  BY <2>1, <2>2 DEF LoggedEverywhere, Stream
<1> QED  BY <1>1, <1>2, <1>3, <1>4, <1>6, <1>7 DEF LogInv, LockHeld, LoopSound, NotCalled

\* A crash leaves nothing.
LEMMA CrashStep == Crash => LogInv'
<1>1. Crash => Blank'
  BY DEF Crash, Blank
<1>2. Blank' => LogInv'
  BY BlankInv, PTL
<1> QED  BY <1>1, <1>2

-----------------------------------------------------------------------------
(* The keepers.  None of their steps changes a channel's records or a Log.   *)

\* What is in the channels and where each Log is stays: the map may lose
\* entries, and what is new in it no Log has found.
LEMMA StreamsStay ==
  ASSUME LogInv, UNCHANGED <<buf, output, logging>>,
         \A r \in Record : logging[r].found \cap Range(logChannels')
                            \subseteq Range(logChannels)
  PROVE  Handed' /\ LoopSound' /\ LoggedEverywhere'
<1>1. \A ch : Stream(ch)' = Stream(ch)
  BY DEF Stream
<1>2. Handed' /\ LoopSound'
  BY <1>1 DEF LogInv, Handed, LoopSound
<1> QED  BY <1>2 DEF LogInv, LoggedEverywhere

\* The lookup before the lock; only where the keeper is changes.
LEMMA LooksStep ==
  ASSUME LogInv, NEW k \in Keeper, NEW id \in Id, NEW op \in {"add", "del"},
         KeeperLooks(k, id, op), ~Writing
  PROVE  LogInv'
<1>1. /\ keeper[k].at = "idle"
      /\ op = "add" => made + Cardinality(Adding) < MaxLogger
      /\ op = "del" => id \in DOMAIN logChannels
      /\ keeper' = [keeper EXCEPT ![k] =
                      [at |-> op, id |-> id, ch |-> IF op = "del" THEN logChannels[id] ELSE 0]]
      /\ UNCHANGED <<logChannels, mux, chanVars, logging>>
  BY DEF KeeperLooks
<1>2. (IF op = "del" THEN logChannels[id] ELSE 0) \in Nat
  <2>1. CASE op = "del"
    <3>1. logChannels[id] \in 1 .. made
      BY <1>1, <2>1 DEF LogInv, NewIsUnknown, Range
    <3> QED  BY <2>1, <3>1 DEF LogInv, LogTypes
  <2> QED  BY <2>1
<1>3. LogTypes'
  BY <1>1, <1>2 DEF LogInv, LogTypes, KeeperState, chanVars
<1>4. \A x \in Keeper : x # k => keeper'[x] = keeper[x]
  BY <1>1 DEF LogInv, LogTypes
<1>5. keeper'[k].at = op
  BY <1>1 DEF LogInv, LogTypes
<1>6. Reserved'
  <2>1. Adding \subseteq Keeper /\ IsFiniteSet(Adding) /\ Cardinality(Adding) \in Nat
    BY LoggerAssumption, FS_Subset, FS_CardinalityType DEF Adding
  <2>2. CASE op = "add"
    <3>1. Adding' = Adding \cup {k} /\ k \notin Adding
      BY <1>1, <1>4, <1>5, <2>2 DEF Adding
    <3>2. Cardinality(Adding') = Cardinality(Adding) + 1
      BY <2>1, <3>1, FS_AddElement
    <3> QED  BY <1>1, <2>1, <2>2, <3>2, LoggerAssumption
             DEF Reserved, chanVars, LogInv, LogTypes
  <2>3. CASE op = "del"
    <3>1. Adding' = Adding
      BY <1>1, <1>4, <1>5, <2>3 DEF Adding
    <3> QED  BY <1>1, <3>1 DEF Reserved, chanVars, LogInv
  <2> QED  BY <2>2, <2>3
<1>7. LockHeld' /\ NewIsUnknown'
  BY <1>1, <1>4, <1>5 DEF LogInv, LockHeld, NewIsUnknown, chanVars
<1> QED  BY <1>1, <1>3, <1>6, <1>7, StreamsStay DEF LogInv, chanVars

\* The lock, and for a logger that is added the next channel.
LEMMA LocksStep ==
  ASSUME LogInv, NEW k \in Keeper, KeeperLocks(k)
  PROVE  LogInv'
<1>1. /\ keeper[k].at \in {"add", "del"} /\ mux = NULL /\ mux' = k
      /\ UNCHANGED <<logChannels, buf, output, logging>>
  BY DEF KeeperLocks
<1>2. \A x \in Keeper : keeper[x].at \notin {"adding", "deleting", "closing"}
  BY <1>1, LoggerAssumption DEF LogInv, LockHeld
<1>3. /\ IsFiniteSet(Adding) /\ Cardinality(Adding) \in Nat
      /\ Adding' \subseteq Keeper
  BY LoggerAssumption, FS_Subset, FS_CardinalityType DEF Adding
<1>4. CASE keeper[k].at = "add"
  <2>1. /\ made' = made + 1
        /\ keeper' = [keeper EXCEPT ![k].at = "adding", ![k].ch = made']
    BY <1>4 DEF KeeperLocks
  <2>2. /\ \A x \in Keeper : x # k => keeper'[x] = keeper[x]
        /\ keeper'[k].at = "adding" /\ keeper'[k].ch = made'
    BY <2>1 DEF LogInv, LogTypes
  <2>3. LogTypes'
    <3>1. made' \in Nat
      BY <2>1 DEF LogInv, LogTypes
    <3>2. keeper'[k] \in KeeperState
      BY <2>1, <3>1 DEF LogInv, LogTypes, KeeperState
    <3> QED  BY <1>1, <2>1, <2>2, <3>1, <3>2, OneChanges DEF LogInv, LogTypes
  <2>4. Reserved'
    <3>1. k \in Adding /\ Adding' = Adding \ {k}
      BY <1>4, <2>2 DEF Adding
    <3>2. Cardinality(Adding') = Cardinality(Adding) - 1
      BY <1>3, <3>1, FS_RemoveElement
    <3> QED  BY <1>3, <2>1, <3>2, LoggerAssumption DEF LogInv, Reserved, LogTypes
  <2>5. LockHeld'
    BY <1>1, <1>2, <2>2 DEF LockHeld
  <2>6. NewIsUnknown'
    <3>1. 1 .. made \subseteq 1 .. made' /\ made' \notin 1 .. made /\ made' # 0
      BY <2>1 DEF LogInv, LogTypes
    <3> QED  BY <1>1, <1>2, <2>2, <3>1 DEF LogInv, NewIsUnknown
  <2> QED  BY <1>1, <2>3, <2>4, <2>5, <2>6, StreamsStay DEF LogInv
<1>5. CASE keeper[k].at = "del"
  <2>1. /\ UNCHANGED made /\ keeper' = [keeper EXCEPT ![k].at = "deleting"]
    BY <1>5 DEF KeeperLocks
  <2>2. /\ \A x \in Keeper : x # k => keeper'[x] = keeper[x]
        /\ keeper'[k].at = "deleting"
    BY <2>1 DEF LogInv, LogTypes
  <2>3. LogTypes'
    BY <1>1, <2>1 DEF LogInv, LogTypes, KeeperState
  <2>4. Adding' = Adding
    BY <1>5, <2>2 DEF Adding
  <2>5. Reserved' /\ LockHeld' /\ NewIsUnknown'
    BY <1>1, <1>2, <2>1, <2>2, <2>4 DEF LogInv, Reserved, LockHeld, NewIsUnknown
  <2> QED  BY <1>1, <2>3, <2>5, StreamsStay DEF LogInv
<1> QED  BY <1>1, <1>4, <1>5

\* The entry is written: it is the newest channel, which no Log has found.
LEMMA AddStep ==
  ASSUME LogInv, NEW k \in Keeper, AddLogger(k)
  PROVE  LogInv'
<1>1. /\ keeper[k].at = "adding"
      /\ logChannels' = [id \in DOMAIN logChannels \cup {keeper[k].id} |->
                           IF id = keeper[k].id THEN keeper[k].ch ELSE logChannels[id]]
      /\ keeper' = [keeper EXCEPT ![k] = Idle]
      /\ UNCHANGED <<made, buf, output, logging>>
  BY DEF AddLogger, chanVars
<1>2. /\ \A x \in Keeper : x # k => keeper'[x] = keeper[x]
      /\ keeper'[k].at = "idle"
  BY <1>1 DEF LogInv, LogTypes, Idle
<1>3. \A x \in Keeper : x # k => keeper[x].at \notin {"adding", "deleting", "closing"}
  BY <1>1 DEF LogInv, LockHeld
<1>4. Range(logChannels') \subseteq Range(logChannels) \cup {made}
  <2>1. keeper[k].ch = made
    BY <1>1 DEF LogInv, NewIsUnknown
  <2> QED  BY <1>1, <2>1 DEF Range
<1>5. LogTypes'
  BY <1>1 DEF LogInv, LogTypes, KeeperState, Idle
<1>6. Reserved'
  <2>1. Adding' = Adding
    BY <1>1, <1>2 DEF Adding
  <2> QED  BY <1>1, <2>1 DEF LogInv, Reserved
<1>7. LockHeld'
  BY <1>2, <1>3 DEF LockHeld
<1>8. NewIsUnknown'
  <2>1. made \in 1 .. made \/ made = 0
    BY DEF LogInv, LogTypes
  <2>2. made # 0
    BY <1>1 DEF LogInv, NewIsUnknown
  <2> QED  BY <1>1, <1>2, <1>3, <1>4, <2>1, <2>2 DEF LogInv, NewIsUnknown
<1>9. \A r \in Record : logging[r].found \cap Range(logChannels') \subseteq Range(logChannels)
  BY <1>1, <1>4 DEF LogInv, NewIsUnknown
<1> QED  BY <1>1, <1>5, <1>6, <1>7, <1>8, <1>9, StreamsStay DEF LogInv

\* The entry goes, and the channel is closed afterwards.
LEMMA DelStep ==
  ASSUME LogInv, NEW k \in Keeper,
         DelLogger(k) \/ CloseChan(k), DelLogger(k) \/ keeper[k].ch \notin shut
  PROVE  LogInv'
<1>1. /\ keeper[k].at \in {"deleting", "closing"} /\ UNCHANGED <<made, buf, output, logging>>
      /\ keeper' = [keeper EXCEPT ![k].at = "closing"] \/ keeper' = [keeper EXCEPT ![k] = Idle]
  BY DEF DelLogger, CloseChan, chanVars
<1>2. /\ \A x \in Keeper : x # k => keeper'[x] = keeper[x]
      /\ keeper'[k].at \in {"idle", "closing"}
      /\ keeper'[k].at = "closing" => UNCHANGED mux
  BY <1>1 DEF LogInv, LogTypes, KeeperState, Idle, DelLogger, CloseChan
<1>3. \A x \in Keeper : x # k => keeper[x].at \notin {"adding", "deleting", "closing"}
  BY <1>1 DEF LogInv, LockHeld
<1>4. Range(logChannels') \subseteq Range(logChannels)
  BY DEF DelLogger, CloseChan, Range, Restrict
<1>5. LogTypes'
  <2>1. CASE keeper' = [keeper EXCEPT ![k].at = "closing"]
    <3>1. keeper'[k] \in KeeperState
      BY <2>1 DEF LogInv, LogTypes, KeeperState
    <3> QED  BY <1>1, <1>2, <2>1, <3>1, OneChanges DEF LogInv, LogTypes
  <2>2. CASE keeper' = [keeper EXCEPT ![k] = Idle]
    BY <1>1, <2>2 DEF LogInv, LogTypes, KeeperState, Idle
  <2> QED  BY <1>1, <2>1, <2>2
<1>6. Reserved'
  <2>1. Adding' = Adding
    BY <1>1, <1>2 DEF Adding
  <2> QED  BY <1>1, <2>1 DEF LogInv, Reserved
<1>7. LockHeld'
  BY <1>1, <1>2, <1>3 DEF LogInv, LockHeld
<1>8. NewIsUnknown'
  BY <1>1, <1>2, <1>3, <1>4 DEF LogInv, NewIsUnknown
<1> QED  BY <1>1, <1>4, <1>5, <1>6, <1>7, <1>8, StreamsStay DEF LogInv

-----------------------------------------------------------------------------
(* Log and the loggers' goroutines.  The keepers and the map stay.           *)

\* What the keepers' invariants say while only the Logs and the channels change.
LEMMA KeepersStay ==
  ASSUME LogInv, UNCHANGED <<logChannels, mux, made, keeper>>,
         \A r \in Record : logging'[r].found \subseteq logging[r].found \cup Range(logChannels)
  PROVE  LockHeld' /\ Reserved' /\ NewIsUnknown'
<1>1. Adding' = Adding
  BY DEF Adding
<1>2. LockHeld' /\ Reserved'
  BY <1>1 DEF LogInv, LockHeld, Reserved
<1>3. NewIsUnknown'
  BY DEF LogInv, NewIsUnknown
<1> QED  BY <1>2, <1>3

\* 0 is no channel, and what is in the map is one.
LEMMA EntriesAreChannels ==
  ASSUME LogInv
  PROVE  0 \notin Chan /\ Range(logChannels) \subseteq Chan
<1>1. IsFiniteSet(Adding) /\ Cardinality(Adding) \in Nat
  BY LoggerAssumption, FS_Subset, FS_CardinalityType DEF Adding
<1>2. made <= MaxLogger /\ made \in Nat
  BY <1>1, LoggerAssumption DEF LogInv, Reserved, LogTypes
<1> QED  BY <1>2, LoggerAssumption DEF LogInv, NewIsUnknown, Chan

\* Log begins: nothing of its record is anywhere.
LEMMA LogStep ==
  ASSUME LogInv, NEW r \in Record, Log(r)
  PROVE  LogInv'
<1>1. /\ logging[r].at = "idle"
      /\ logging' = [logging EXCEPT ![r].at = "range", ![r].found = Range(logChannels)]
      /\ UNCHANGED <<logChannels, mux, made, keeper, buf, output>>
  BY DEF Log, chanVars
<1>2. /\ \A x \in Record : x # r => logging'[x] = logging[x]
      /\ logging'[r].at = "range" /\ logging'[r].found = Range(logChannels)
      /\ logging'[r].had = logging[r].had /\ logging'[r].ch = logging[r].ch
  BY <1>1 DEF LogInv, LogTypes
<1>3. LogTypes'
  <2>1. logging'[r] \in LogState
    <3>1. /\ logging[r] \in LogState /\ Range(logChannels) \subseteq Chan
          /\ logging'[r] = [logging[r] EXCEPT !.at = "range", !.found = Range(logChannels)]
      BY <1>1, EntriesAreChannels DEF LogInv, LogTypes
    <3> QED  BY <3>1 DEF LogState
  <2> QED  BY <1>1, <1>2, <2>1, OneChanges DEF LogInv, LogTypes
<1>4. \A ch : Stream(ch)' = Stream(ch)
  BY <1>1 DEF Stream
<1>5. LoopSound'
  BY <1>1, <1>2 DEF LogInv, LoopSound
<1>6. Handed'
  BY <1>1, <1>2, <1>4 DEF LogInv, Handed
<1>7. LoggedEverywhere'
  BY <1>1, <1>2, <1>4 DEF LogInv, LoggedEverywhere, Stream
<1>8. LockHeld' /\ Reserved' /\ NewIsUnknown'
  BY <1>1, <1>2, KeepersStay
<1> QED  BY <1>3, <1>5, <1>6, <1>7, <1>8 DEF LogInv

\* The loop takes an entry it has not had, or ends when it has had those of the
\* start that are still there.
LEMMA RangeStep ==
  ASSUME LogInv, NEW r \in Record, RangeNext(r), ~Writing
  PROVE  LogInv'
<1>1. /\ logging[r].at = "range" /\ logging[r].ch = 0
      /\ UNCHANGED <<logChannels, mux, made, keeper, buf, output>>
  BY DEF RangeNext, chanVars, LogInv, LoopSound
<1>2. \A ch : Stream(ch)' = Stream(ch)
  BY <1>1 DEF Stream
<1>3. ASSUME NEW ch \in Range(logChannels) \ logging[r].had,
             logging' = [logging EXCEPT ![r].at = "send", ![r].ch = ch, ![r].had = @ \cup {ch}]
      PROVE  LogInv'
  <2>1. /\ \A x \in Record : x # r => logging'[x] = logging[x]
        /\ logging'[r].at = "send" /\ logging'[r].found = logging[r].found
        /\ logging'[r].had = logging[r].had \cup {ch} /\ logging'[r].ch = ch
    BY <1>3 DEF LogInv, LogTypes
  <2>2. ch \in Chan /\ 0 \notin Chan
    BY EntriesAreChannels
  <2>3. LogTypes'
    <3>1. logging'[r] \in LogState
      <4>1. /\ logging[r] \in LogState
            /\ logging'[r] = [logging[r] EXCEPT !.at = "send", !.ch = ch, !.had = @ \cup {ch}]
        BY <1>3 DEF LogInv, LogTypes
      <4>2. logging[r].had \cup {ch} \in SUBSET Chan /\ logging[r].found \in SUBSET Chan
        BY <2>2, <4>1 DEF LogState
      <4> QED  BY <2>1, <2>2, <4>1, <4>2 DEF LogState
    <3> QED  BY <1>1, <1>3, <2>1, <3>1, OneChanges DEF LogInv, LogTypes
  <2>4. LoopSound'
    BY <2>1 DEF LogInv, LoopSound
  <2>5. logging'[r].had \ {logging'[r].ch} = logging[r].had
    BY <1>3, <2>1
  <2>6. \A x \in Chan : x \in logging[r].had \ {logging[r].ch} <=> x \in logging[r].had
    BY <1>1, <2>2
  <2>7. Handed'
    BY <1>1, <1>2, <2>1, <2>5, <2>6 DEF LogInv, Handed
  <2>8. LoggedEverywhere'
    BY <1>1, <1>2, <2>1 DEF LogInv, LoggedEverywhere, Stream
  <2>9. LockHeld' /\ Reserved' /\ NewIsUnknown'
    BY <1>1, <2>1, KeepersStay
  <2> QED  BY <2>3, <2>4, <2>7, <2>8, <2>9 DEF LogInv
<1>4. ASSUME Range(logChannels) \cap logging[r].found \subseteq logging[r].had,
             logging' = [logging EXCEPT ![r].at = "returned", ![r].had = {}]
      PROVE  LogInv'
  <2>1. /\ \A x \in Record : x # r => logging'[x] = logging[x]
        /\ logging'[r].at = "returned" /\ logging'[r].found = logging[r].found
        /\ logging'[r].had = {} /\ logging'[r].ch = logging[r].ch
    BY <1>4 DEF LogInv, LogTypes
  <2>2. LogTypes'
    <3>1. logging'[r] \in LogState
      BY <1>4 DEF LogInv, LogTypes, LogState
    <3> QED  BY <1>1, <1>4, <2>1, <3>1, OneChanges DEF LogInv, LogTypes
  <2>3. LoopSound'
    BY <1>1, <2>1 DEF LogInv, LoopSound
  <2>4. Handed'
    BY <1>1, <1>2, <2>1 DEF LogInv, Handed
  <2>5. \A ch \in logging[r].found \cap Range(logChannels) : r \in ToSet(Stream(ch))
    <3>1. \A ch \in logging[r].found \cap Range(logChannels) :
            ch \in Chan /\ ch \in logging[r].had \ {logging[r].ch}
      BY <1>1, <1>4, EntriesAreChannels
    <3> QED  BY <3>1 DEF LogInv, Handed
  <2>6. LoggedEverywhere'
    BY <1>1, <1>2, <2>1, <2>5 DEF LogInv, LoggedEverywhere, Stream
  <2>7. LockHeld' /\ Reserved' /\ NewIsUnknown'
    BY <1>1, <2>1, KeepersStay
  <2> QED  BY <2>2, <2>3, <2>4, <2>6, <2>7 DEF LogInv
<1> QED  BY <1>3, <1>4 DEF RangeNext

\* The record goes, for the first time, into the channel of the entry.
LEMMA SendRecordStep ==
  ASSUME LogInv, NEW r \in Record, SendRecord(r), logging[r].ch \notin shut
  PROVE  LogInv'
<1> PICK c \in Chan \cup {0} : c = logging[r].ch
  BY DEF LogInv, LogTypes, LogState
<1>1. /\ logging[r].at = "send"
      /\ buf' = [buf EXCEPT ![c] = Append(@, r)]
      /\ logging' = [logging EXCEPT ![r].at = "range", ![r].ch = 0]
      /\ UNCHANGED <<logChannels, mux, made, output, keeper>>
  BY DEF SendRecord
<1>2. c \in logging[r].had /\ c \in Chan /\ 0 \notin Chan
  BY <1>1, EntriesAreChannels DEF LogInv, LoopSound, LogTypes, LogState
<1>3. /\ \A x \in Record : x # r => logging'[x] = logging[x]
      /\ logging'[r].at = "range" /\ logging'[r].found = logging[r].found
      /\ logging'[r].had = logging[r].had /\ logging'[r].ch = 0
  BY <1>1 DEF LogInv, LogTypes
<1>4. LogTypes'
  <2>1. Append(buf[c], r) \in Seq(Record)
    BY <1>2, AppendElements DEF LogInv, LogTypes
  <2>2. buf' \in [Chan -> Seq(Record)]
    BY <1>1, <1>2, <2>1 DEF LogInv, LogTypes
  <2>3. logging'[r] \in LogState
    <3>1. /\ logging[r] \in LogState
          /\ logging'[r] = [logging[r] EXCEPT !.at = "range", !.ch = 0]
      BY <1>1 DEF LogInv, LogTypes
    <3> QED  BY <3>1 DEF LogState
  <2> QED  BY <1>1, <1>3, <2>2, <2>3, OneChanges DEF LogInv, LogTypes
<1>5. \A ch \in Chan : ch # c => Stream(ch)' = Stream(ch)
  BY <1>1 DEF Stream, LogInv, LogTypes
<1>6. /\ Stream(c) \in Seq(Record) /\ Stream(c)' = Append(Stream(c), r)
      /\ r \notin ToSet(Stream(c)) /\ IsInjective(Stream(c))
  <2>1. output[c] \in Seq(Record) /\ buf[c] \in Seq(Record)
    BY <1>2 DEF LogInv, LogTypes
  <2>2. buf'[c] = Append(buf[c], r) /\ output'[c] = output[c]
    BY <1>1, <1>2 DEF LogInv, LogTypes
  <2>3. output[c] \o Append(buf[c], r) = Append(output[c] \o buf[c], r)
    <3>1. \A s, t \in Seq(Record) : s \o Append(t, r) = Append(s \o t, r)
      BY QueueAppend
    <3> QED  BY <2>1, <3>1
  <2>4. r \notin ToSet(Stream(c)) /\ IsInjective(Stream(c))
    BY <1>1, <1>2 DEF LogInv, Handed, LoggedEverywhere, Stream
  <2>5. output[c] \o buf[c] \in Seq(Record)
    BY <2>1, ConcatProperties
  <2>6. Stream(c) = output[c] \o buf[c] /\ Stream(c)' = output[c] \o Append(buf[c], r)
    BY <2>2 DEF Stream
  <2> QED  BY <2>3, <2>4, <2>5, <2>6
<1>7. ToSet(Stream(c)') = ToSet(Stream(c)) \cup {r} /\ IsInjective(Stream(c)')
  BY <1>6, AppendElements, InjectiveAppend
<1>8. LoopSound'
  BY <1>1, <1>3 DEF LogInv, LoopSound
<1>9. Handed'
  <2> SUFFICES ASSUME NEW x \in Record, NEW ch \in Chan
               PROVE  /\ ch \in logging'[x].had \ {logging'[x].ch} => x \in ToSet(Stream(ch)')
                      /\ x \in ToSet(Stream(ch)') =>
                           \/ logging'[x].at = "returned"
                           \/ ch \in logging'[x].had \ {logging'[x].ch}
    BY DEF Handed, Stream
  <2>1. /\ ch \in logging[x].had \ {logging[x].ch} => x \in ToSet(Stream(ch))
        /\ x \in ToSet(Stream(ch)) => \/ logging[x].at = "returned"
                                      \/ ch \in logging[x].had \ {logging[x].ch}
    BY DEF LogInv, Handed
  <2>2. CASE x = r
    <3>1. logging[x].ch = c /\ c # 0
      BY <1>2, <2>2
    <3>2. CASE ch = c
      BY <1>2, <1>3, <1>7, <2>2, <3>1, <3>2
    <3>3. CASE ch # c
      BY <1>1, <1>2, <1>3, <1>5, <2>1, <2>2, <3>1, <3>3
    <3> QED  BY <3>2, <3>3
  <2>3. CASE x # r
    BY <1>3, <1>5, <1>7, <2>1, <2>3
  <2> QED  BY <2>2, <2>3
<1>10. LoggedEverywhere'
  <2>1. \A ch \in Chan : IsInjective(Stream(ch)')
    BY <1>5, <1>7 DEF LogInv, LoggedEverywhere, Stream
  <2>2. \A ch \in Chan : ToSet(Stream(ch)) \subseteq ToSet(Stream(ch)')
    BY <1>5, <1>7
  <2>3. ASSUME NEW x \in Record, logging'[x].at = "returned",
               NEW ch \in logging'[x].found \cap Range(logChannels')
        PROVE  x \in ToSet(Stream(ch)')
    <3>1. x # r /\ logging'[x] = logging[x]
      BY <1>3, <2>3
    <3>2. ch \in logging[x].found \cap Range(logChannels) /\ ch \in Chan
      BY <1>1, <2>3, <3>1, EntriesAreChannels
    <3>3. x \in ToSet(Stream(ch))
      BY <2>3, <3>1, <3>2 DEF LogInv, LoggedEverywhere, Stream
    <3> QED  BY <2>2, <3>2, <3>3
  <2> QED  BY <2>1, <2>3 DEF LoggedEverywhere, Stream
<1>11. LockHeld' /\ Reserved' /\ NewIsUnknown'
  BY <1>1, <1>3, KeepersStay
<1> QED  BY <1>4, <1>8, <1>9, <1>10, <1>11 DEF LogInv

\* A logger's goroutine takes the oldest record: its stream is what it was.
LEMMA OutputStep ==
  ASSUME LogInv, NEW c \in Chan, LogOutput(c)
  PROVE  LogInv'
<1>1. /\ buf[c] # << >>
      /\ output' = [output EXCEPT ![c] = Append(@, Head(buf[c]))]
      /\ buf' = [buf EXCEPT ![c] = Tail(@)]
      /\ UNCHANGED <<logChannels, mux, made, keeper, logging>>
  BY DEF LogOutput
<1>2. output[c] \in Seq(Record) /\ buf[c] \in Seq(Record)
  BY DEF LogInv, LogTypes
<1>3. Head(buf[c]) \in Record /\ Tail(buf[c]) \in Seq(Record)
  BY <1>1, <1>2, TailElements
<1>4. Append(output[c], Head(buf[c])) \in Seq(Record)
  BY <1>2, <1>3, AppendElements
<1>5. LogTypes'
  BY <1>1, <1>3, <1>4 DEF LogInv, LogTypes
<1>6. \A ch \in Chan : ch # c => Stream(ch)' = Stream(ch)
  BY <1>1 DEF Stream, LogInv, LogTypes
<1>7. Stream(c)' = Stream(c)
  <2>1. output'[c] = Append(output[c], Head(buf[c])) /\ buf'[c] = Tail(buf[c])
    BY <1>1 DEF LogInv, LogTypes
  <2>2. Append(output[c], Head(buf[c])) \o Tail(buf[c]) = output[c] \o buf[c]
    BY <1>1, <1>2, QueueMoves
  <2> QED  BY <2>1, <2>2 DEF Stream
<1>8. Handed' /\ LoopSound'
  BY <1>1, <1>6, <1>7 DEF LogInv, Handed, LoopSound
<1>9. LoggedEverywhere'
  BY <1>1, <1>6, <1>7, EntriesAreChannels DEF LogInv, LoggedEverywhere, Stream
<1>10. LockHeld' /\ Reserved' /\ NewIsUnknown'
  BY <1>1, KeepersStay
<1> QED  BY <1>5, <1>8, <1>9, <1>10 DEF LogInv

-----------------------------------------------------------------------------
\* Every step of the loggers keeps the invariant; a crash leaves it true of what
\* is left, which is nothing.
LEMMA LogInvStep ==
  ASSUME LogInv, [LogNext]_logVars
  PROVE  LogInv'
<1>1. ASSUME NEW k \in Keeper, NEW id \in Id, NEW op \in {"add", "del"}, KeeperLooks(k, id, op)
      PROVE  LogInv'
  <2>1. Writing => Crash
    BY <1>1 DEF KeeperLooks
  <2> QED  BY <1>1, <2>1, CrashStep, LooksStep
<1>2. ASSUME NEW k \in Keeper, KeeperLocks(k) \/ AddLogger(k) \/ DelLogger(k)
      PROVE  LogInv'
  <2>1. KeeperLocks(k) => LogInv'
    BY LocksStep
  <2>2. AddLogger(k) => LogInv'
    BY AddStep
  <2>3. ASSUME DelLogger(k) PROVE LogInv'
    BY <2>3, DelStep
  <2> QED  BY <1>2, <2>1, <2>2, <2>3
<1>3. ASSUME NEW k \in Keeper, CloseChan(k)
      PROVE  LogInv'
  <2>1. keeper[k].ch \in shut => Crash
    BY <1>3 DEF CloseChan
  <2> QED  BY <1>3, <2>1, CrashStep, DelStep
<1>4. ASSUME NEW r \in Record, Log(r) \/ RangeNext(r) \/ SendRecord(r)
      PROVE  LogInv'
  <2>1. CASE Log(r)
    BY <2>1, LogStep
  <2>2. CASE RangeNext(r)
    <3>1. Writing => Crash
      BY <2>2 DEF RangeNext
    <3> QED  BY <2>2, <3>1, CrashStep, RangeStep
  <2>3. CASE SendRecord(r)
    <3>1. logging[r].ch \in shut => Crash
      BY <2>3 DEF SendRecord
    <3> QED  BY <2>3, <3>1, CrashStep, SendRecordStep
  <2> QED  BY <1>4, <2>1, <2>2, <2>3
<1>5. ASSUME NEW ch \in Chan, LogOutput(ch)
      PROVE  LogInv'
  BY <1>5, OutputStep
<1>6. CASE UNCHANGED logVars
  <2>1. \A ch : Stream(ch)' = Stream(ch)
    BY <1>6 DEF logVars, Stream
  <2>2. Handed' /\ LoopSound' /\ LoggedEverywhere'
    BY <1>6, StreamsStay DEF logVars
  <2>3. LockHeld' /\ Reserved' /\ NewIsUnknown'
    BY <1>6, KeepersStay DEF logVars
  <2> QED  BY <1>6, <2>2, <2>3 DEF logVars, LogInv, LogTypes
<1> QED  BY <1>1, <1>2, <1>3, <1>4, <1>5, <1>6 DEF LogNext

\* In every state the process can reach, the invariant holds.
THEOREM LogInvariant == LogSpec => []LogInv
<1>1. LogInit => LogInv
  BY BlankInv DEF LogInit, Blank
<1>2. LogInv /\ [LogNext]_logVars => LogInv'
  BY LogInvStep
<1> QED  BY <1>1, <1>2, PTL DEF LogSpec

\* Log hands its record, once, to every logger that was registered when it was
\* called and still is when it returns, though broadcast ranges over the map
\* without the lock while loggers come and go.
THEOREM LoggersGetRecords == LogSpec => []LoggedEverywhere
<1>1. LogInv => LoggedEverywhere
  BY DEF LogInv
<1> QED  BY <1>1, LogInvariant, PTL
=============================================================================
