------------------------- MODULE MasterWorkersProofs -------------------------
(***************************************************************************)
(* Theorems about module MasterWorkers, for any number of workers and      *)
(* connections and any faults: the connections go round the entries of     *)
(* child_sockets, and no edge of epoll is lost.                            *)
(***************************************************************************)
EXTENDS MasterWorkers, SequenceFacts

MwTypes ==
  /\ i \in 0 .. n /\ j \in Worker /\ sockets \in Worker \cup {NULL} /\ near \in BOOLEAN
  /\ master \in {"start", "wait", "accept", "send", "dead"}
  /\ backlog \in Seq(Connection) /\ passed \in Seq(Connection)
  /\ infd \in Connection \cup {NULL} /\ (master = "send" => infd \in Connection)
  /\ edge \in BOOLEAN /\ failed \in BOOLEAN
  /\ up \subseteq Worker /\ ready \in [Worker -> BOOLEAN]
  /\ worker \in [Worker -> {"wait", "recv"}]
  /\ channel \in [Worker -> Worker \cup {NULL}]
  /\ child_sockets \in [Worker -> Worker \cup {NULL}]
  /\ pair \in [Worker -> Seq(Connection)] /\ received \in [Worker -> Seq(Connection)]

\* As long as workers are started nothing has been passed on; those to come do
\* not run, and have no pair.
Started ==
  /\ master = "start" =>
       passed = << >> /\ \A w \in Worker : received[w] = << >> /\ pair[w] = << >>
  /\ \A w \in Worker : w >= i => w \notin up /\ channel[w] = NULL

\* A pair has one reader: each turn makes a new pair, and the one of the turn
\* before is used again only when nobody has its other end.
OneReader ==
  /\ \A w \in Worker : channel[w] # NULL => channel[w] < i
  /\ sockets # NULL => sockets < i
  /\ near => sockets # NULL /\ \A w \in Worker : channel[w] # sockets
  /\ \A v, w \in Worker : channel[v] = channel[w] /\ channel[v] # NULL => v = w

\* the entry that is next
InTurn == master # "dead" => j = Len(passed) % n

\* NoLostEdge of the master, from its start on
EdgeKept == master \in {"start", "wait"} /\ ~edge /\ ~failed => backlog = << >>

\* NoLostEdge of the workers
EventKept ==
  \A w \in up :
    channel[w] # NULL /\ worker[w] = "wait" /\ ~ready[w] => pair[channel[w]] = << >>

MwInv == MwTypes /\ Started /\ OneReader /\ InTurn /\ EdgeKept /\ EventKept /\ RoundRobin

-----------------------------------------------------------------------------
\* Division with a remainder has one result.
LEMMA Remainder ==
  ASSUME NEW d \in Nat \ {0}, NEW q \in Nat, NEW r \in 0 .. d - 1
  PROVE  (d * q + r) % d = r
  OBVIOUS

\* The step to the next worker is a step of the count.
LEMMA NextTurn ==
  ASSUME NEW d \in Nat \ {0}, NEW m \in Nat
  PROVE  m % d \in 0 .. d - 1 /\ ((m % d) + 1) % d = (m + 1) % d
<1>1. m % d \in 0 .. d - 1 /\ m = d * (m \div d) + (m % d) /\ m \div d \in Nat
  OBVIOUS
<1>2. PICK q \in Nat, r \in 0 .. d - 1 : q = m \div d /\ r = m % d
  BY <1>1
<1>3. CASE r + 1 \in 0 .. d - 1
  <2>1. m + 1 = d * q + (r + 1) /\ r + 1 = d * 0 + (r + 1)
    BY <1>1, <1>2
  <2>2. (d * q + (r + 1)) % d = r + 1 /\ (d * 0 + (r + 1)) % d = r + 1
    BY <1>3, Remainder
  <2> QED  BY <1>1, <1>2, <2>1, <2>2
<1>4. CASE r + 1 = d
  <2>1. m + 1 = d * (q + 1) + 0 /\ r + 1 = d * 1 + 0
    BY <1>1, <1>2, <1>4
  <2>2. (d * (q + 1) + 0) % d = 0 /\ (d * 1 + 0) % d = 0
    BY Remainder
  <2> QED  BY <1>1, <1>2, <2>1, <2>2
<1> QED  BY <1>3, <1>4

-----------------------------------------------------------------------------
(* Shares.                                                                   *)

\* A share is a matter of what was passed on and of the entries.
LEMMA ShareStays ==
  ASSUME UNCHANGED <<passed, child_sockets>>
  PROVE  \A s, p : IsShare(s, p)' <=> IsShare(s, p)
<1>1. \A p : Turns(p)' = Turns(p)
  BY DEF Turns
<1> QED  BY <1>1 DEF IsShare

\* Before anything is passed on every share is empty.
LEMMA ShareEmpty == passed = << >> => \A p : IsShare(<< >>, p)
<1> SUFFICES ASSUME NEW p, passed = << >>
             PROVE  IsShare(<< >>, p)
  OBVIOUS
<1>1. Len(passed) = 0 /\ Len(<< >>) = 0
  BY EmptyConcat
<1>2. Turns(p) = {}
  BY <1>1 DEF Turns
<1>3. [x \in 1 .. 0 |-> 0] \in [1 .. 0 -> {}]
  OBVIOUS
<1> QED  BY <1>1, <1>2, <1>3 DEF IsShare

\* The same of the next state.
LEMMA ShareEmptyNext == (passed = << >> => \A p : IsShare(<< >>, p))'
  BY ShareEmpty, PTL

\* A connection that is passed on adds to the share of its pair and to no other.
LEMMA ShareGrows ==
  ASSUME MwTypes, NEW c \in Connection, passed' = Append(passed, c), UNCHANGED child_sockets,
         NEW p, NEW s \in Seq(Connection), IsShare(s, p)
  PROVE  /\ child_sockets[Len(passed) % n] # p => IsShare(s, p)'
         /\ child_sockets[Len(passed) % n] = p => IsShare(Append(s, c), p)'
<1> DEFINE N == Len(passed)
<1>0. PICK L \in Nat : L = Len(s)
  BY LenProperties
<1>1. /\ N \in Nat /\ Len(passed') = N + 1 /\ passed'[N + 1] = c
      /\ \A k \in 1 .. N : passed'[k] = passed[k]
  BY AppendElements, LenProperties DEF MwTypes
<1>2. PICK turn \in [1 .. L -> Turns(p)] :
        /\ \A x, y \in 1 .. L : x < y => turn[x] < turn[y]
        /\ \A k \in Turns(p) : \E x \in 1 .. L : turn[x] = k
        /\ \A x \in 1 .. L : s[x] = passed[turn[x]]
  BY <1>0 DEF IsShare
<1>3. Turns(p) \subseteq 1 .. N
  BY DEF Turns
<1> HIDE DEF N
<1>4. CASE child_sockets[N % n] # p
  <2>1. Turns(p)' = Turns(p)
    <3>1. ASSUME NEW k \in 1 .. N + 1, child_sockets[(k - 1) % n] = p
          PROVE  k \in 1 .. N
      <4>1. k = N + 1 => k - 1 = N
        BY <1>1
      <4> QED  BY <1>1, <1>4, <3>1, <4>1
    <3> QED  BY <1>1, <3>1 DEF Turns, N
  <2>2. \A x \in 1 .. L : s[x] = passed'[turn[x]]
    BY <1>1, <1>2, <1>3
  <2>3. turn \in [1 .. Len(s) -> Turns(p)']
    BY <1>0, <1>2, <2>1
  <2>4. /\ \A x, y \in 1 .. Len(s) : x < y => turn[x] < turn[y]
        /\ \A k \in Turns(p)' : \E x \in 1 .. Len(s) : turn[x] = k
        /\ \A x \in 1 .. Len(s) : s[x] = passed'[turn[x]]
    BY <1>0, <1>2, <2>1, <2>2
  <2>5. IsShare(s, p)'
    BY <2>3, <2>4 DEF IsShare
  <2> QED  BY <1>4, <2>5 DEF N
<1>5. CASE child_sockets[N % n] = p
  <2>0. PICK t : t = Append(s, c)
    OBVIOUS
  <2> DEFINE more == [x \in 1 .. L + 1 |-> IF x = L + 1 THEN N + 1 ELSE turn[x]]
  <2>1. Turns(p)' = Turns(p) \cup {N + 1}
    <3>1. (N + 1) - 1 = N
      BY <1>1
    <3>2. \A k \in 1 .. N + 1 : k \in 1 .. N \/ k = N + 1
      BY <1>1
    <3>3. 1 .. N \subseteq 1 .. N + 1 /\ N + 1 \in 1 .. N + 1
      BY <1>1
    <3> QED  BY <1>1, <1>5, <3>1, <3>2, <3>3 DEF Turns, N
  <2>2. Len(t) = L + 1 /\ t[L + 1] = c /\ \A x \in 1 .. L : t[x] = s[x]
    BY <1>0, <2>0, AppendElements
  <2>3. \A x \in 1 .. L + 1 : x \in 1 .. L \/ x = L + 1
    BY <1>1
  <2>4. \A x \in 1 .. L : turn[x] \in 1 .. N /\ turn[x] \in Turns(p) /\ x # L + 1 /\ x \in 1 .. L + 1
    BY <1>1, <1>2, <1>3
  <2>5. more \in [1 .. L + 1 -> Turns(p)']
    BY <1>2, <2>1, <2>3
  <2>6. more[L + 1] = N + 1 /\ \A x \in 1 .. L : more[x] = turn[x]
    BY <1>1, <2>4
  <2> HIDE DEF more
  <2>7. \A x, y \in 1 .. L + 1 : x < y => more[x] < more[y]
    <3> SUFFICES ASSUME NEW x \in 1 .. L + 1, NEW y \in 1 .. L + 1, x < y
                 PROVE  more[x] < more[y]
      OBVIOUS
    <3>1. x \in 1 .. L
      BY <1>1
    <3>2. CASE y \in 1 .. L
      BY <1>2, <2>6, <3>1, <3>2
    <3>3. CASE y = L + 1
      BY <1>1, <2>4, <2>6, <3>1, <3>3
    <3> QED  BY <2>3, <3>2, <3>3
  <2>8. \A k \in Turns(p)' : \E x \in 1 .. L + 1 : more[x] = k
    <3> SUFFICES ASSUME NEW k \in Turns(p)'
                 PROVE  \E x \in 1 .. L + 1 : more[x] = k
      OBVIOUS
    <3>1. CASE k = N + 1
      BY <1>1, <2>6, <3>1
    <3>2. CASE k \in Turns(p)
      BY <1>2, <2>4, <2>6, <3>2
    <3> QED  BY <2>1, <3>1, <3>2
  <2>9. \A x \in 1 .. L + 1 : t[x] = passed'[more[x]]
    <3> SUFFICES ASSUME NEW x \in 1 .. L + 1
                 PROVE  t[x] = passed'[more[x]]
      OBVIOUS
    <3>1. CASE x = L + 1
      BY <1>1, <2>2, <2>6, <3>1
    <3>2. CASE x \in 1 .. L
      BY <1>1, <1>2, <2>2, <2>4, <2>6, <3>2
    <3> QED  BY <2>3, <3>1, <3>2
  <2>10. PICK f : f = more
    OBVIOUS
  <2>11. /\ f \in [1 .. Len(t) -> Turns(p)']
         /\ \A x, y \in 1 .. Len(t) : x < y => f[x] < f[y]
         /\ \A k \in Turns(p)' : \E x \in 1 .. Len(t) : f[x] = k
         /\ \A x \in 1 .. Len(t) : t[x] = passed'[f[x]]
    BY <2>2, <2>5, <2>7, <2>8, <2>9, <2>10
  <2>12. IsShare(t, p)'
    BY <2>11 DEF IsShare
  <2> QED  BY <1>5, <2>0, <2>12 DEF N
<1> QED  BY <1>4, <1>5 DEF N

-----------------------------------------------------------------------------
(* The steps.                                                                *)

\* Before the first step nothing runs.
LEMMA MwInitInv == MwInit => MwInv
<1> SUFFICES ASSUME MwInit PROVE MwInv
  OBVIOUS
<1>1. /\ 0 \in 0 .. n /\ 0 \in Worker /\ 0 % n = 0 /\ Len(<< >>) = 0
      /\ << >> \in Seq(Connection)
  <2>1. n * 0 + 0 = 0 /\ 0 \in 0 .. n - 1 /\ 0 \in 0 .. n
    BY MasterWorkersAssumption
  <2>2. 0 % n = 0
    BY <2>1, Remainder, MasterWorkersAssumption
  <2> QED  BY <2>1, <2>2, EmptySeq DEF Worker
<1>2. MwTypes
  BY <1>1 DEF MwInit, MwTypes
<1>3. Started /\ OneReader /\ EdgeKept /\ EventKept /\ RoundRobin
  BY DEF MwInit, Started, OneReader, EdgeKept, EventKept, RoundRobin
<1>4. InTurn
  BY <1>1 DEF MwInit, InTurn
<1> QED  BY <1>2, <1>3, <1>4 DEF MwInv

\* Clients, and the master between two sends: the workers do not notice.
LEMMA MasterStep ==
  ASSUME MwInv, \/ \E c \in Connection : Connect(c)
                \/ StartMaster \/ MasterWake \/ AcceptOne \/ AcceptAgain \/ AcceptError
                \/ MasterDies
  PROVE  MwInv'
<1>1. /\ UNCHANGED <<startVars, j, passed, workerVars, pair>>
      /\ master' = "start" => master = "start"
      /\ master' # "dead" => master # "dead"
  BY DEF Connect, StartMaster, MasterWake, AcceptOne, AcceptAgain, AcceptError, MasterDies
<1>2. RoundRobin'
  <2>1. \A s, p : IsShare(s, p)' <=> IsShare(s, p)
    BY <1>1, ShareStays DEF startVars
  <2> QED  BY <1>1, <2>1 DEF MwInv, RoundRobin, workerVars
<1>3. Started' /\ OneReader' /\ InTurn' /\ EventKept'
  BY <1>1 DEF MwInv, Started, OneReader, InTurn, EventKept, startVars, workerVars
<1>4. /\ backlog' \in Seq(Connection) /\ infd' \in Connection \cup {NULL}
      /\ master' = "send" => infd' \in Connection
      /\ edge' \in BOOLEAN /\ failed' \in BOOLEAN
      /\ master' \in {"start", "wait", "accept", "send", "dead"}
      /\ EdgeKept'
  <2>1. ASSUME NEW c \in Connection, Connect(c)
        PROVE  backlog' \in Seq(Connection) /\ edge' = TRUE /\ UNCHANGED <<infd, master, failed>>
    BY <2>1, AppendElements DEF Connect, MwInv, MwTypes
  <2>2. CASE AcceptOne
    <3>1. /\ backlog # << >> /\ infd' = Head(backlog) /\ backlog' = Tail(backlog)
          /\ master' = "send" /\ UNCHANGED <<edge, failed>>
      BY <2>2 DEF AcceptOne
    <3>2. Head(backlog) \in Connection /\ Tail(backlog) \in Seq(Connection)
      BY <3>1, TailElements DEF MwInv, MwTypes
    <3> QED  BY <3>1, <3>2 DEF MwInv, MwTypes, EdgeKept
  <2>3. CASE StartMaster \/ MasterWake \/ AcceptAgain \/ AcceptError \/ MasterDies
    BY <2>3 DEF StartMaster, MasterWake, AcceptAgain, AcceptError, MasterDies,
                MwInv, MwTypes, EdgeKept
  <2>4. CASE \E c \in Connection : Connect(c)
    BY <2>1, <2>4 DEF MwInv, MwTypes, EdgeKept
  <2> QED  BY <2>2, <2>3, <2>4
<1>5. MwTypes'
  BY <1>1, <1>4 DEF MwInv, MwTypes, startVars, workerVars
<1> QED  BY <1>2, <1>3, <1>4, <1>5 DEF MwInv

\* A turn of the starting loop: the new worker's pair is its own, or it has none.
LEMMA StartStep ==
  ASSUME MwInv, NEW paired \in BOOLEAN, NEW forked \in BOOLEAN, StartWorker(paired, forked)
  PROVE  MwInv'
<1>0. PICK p : p = IF paired THEN i ELSE sockets
  OBVIOUS
<1>00. PICK open : open = (paired \/ near)
  OBVIOUS
<1>1. /\ master = "start" /\ i < n /\ i' = i + 1 /\ sockets' = p
      /\ near' = (open /\ ~forked)
      /\ child_sockets' = IF forked THEN [child_sockets EXCEPT ![i] = p] ELSE child_sockets
      /\ up' = IF forked THEN up \cup {i} ELSE up
      /\ channel' = IF forked /\ open THEN [channel EXCEPT ![i] = p] ELSE channel
      /\ UNCHANGED <<masterVars, ready, worker, received, pair>>
  BY <1>0, <1>00 DEF StartWorker
<1>2. /\ i \in Worker /\ i' \in 0 .. n /\ p \in Worker \cup {NULL} /\ i \in Nat /\ n \in Nat
      /\ Worker \subseteq Nat
  BY <1>0, <1>1, MasterWorkersAssumption DEF MwInv, MwTypes, Worker
<1>3. MwTypes'
  BY <1>00, <1>1, <1>2 DEF MwInv, MwTypes, masterVars
<1>4. /\ channel[i] = NULL /\ i \notin up
      /\ \A w \in Worker : w # i => channel'[w] = channel[w]
      /\ channel'[i] = IF forked /\ open THEN p ELSE NULL
  BY <1>1, <1>2 DEF MwInv, MwTypes, Started
<1>5. Started'
  <2>1. \A w \in Worker : w >= i + 1 => w >= i /\ w # i
    BY <1>2
  <2> QED  BY <1>1, <1>2, <1>4, <2>1 DEF MwInv, Started, masterVars
<1>6. open => p # NULL /\ \A w \in Worker : channel[w] # p
  <2>1. CASE paired
    BY <1>0, <1>2, <2>1, MasterWorkersAssumption DEF MwInv, OneReader, Worker
  <2>2. CASE ~paired
    BY <1>0, <1>00, <2>2 DEF MwInv, OneReader
  <2> QED  BY <2>1, <2>2
<1>7. OneReader'
  <2>1. p # NULL => p < i + 1
    BY <1>0, <1>2 DEF MwInv, OneReader, MwTypes
  <2>2. \A w \in Worker : channel[w] # NULL => channel[w] < i + 1
    <3>1. \A w \in Worker : channel[w] # NULL => channel[w] \in Nat /\ channel[w] < i
      BY <1>2 DEF MwInv, OneReader, MwTypes
    <3> QED  BY <1>2, <3>1
  <2>3. \A w \in Worker : channel'[w] # NULL => channel'[w] < i'
    BY <1>1, <1>4, <2>1, <2>2
  <2>4. near' => p # NULL /\ \A w \in Worker : channel'[w] # p
    BY <1>1, <1>6
  <2>5. ASSUME NEW v \in Worker, NEW w \in Worker,
               channel'[v] = channel'[w], channel'[v] # NULL
        PROVE  v = w
    BY <1>4, <1>6, <2>5 DEF MwInv, OneReader
  <2> QED  BY <1>1, <2>1, <2>3, <2>4, <2>5 DEF OneReader
<1>8. /\ passed = << >> /\ passed' = << >>
      /\ \A w \in Worker : received'[w] = << >> /\ pair'[w] = << >>
  BY <1>1 DEF MwInv, Started, masterVars
<1>9. RoundRobin'
  <2>1. \A q : IsShare(<< >>, q)'
    BY <1>8, ShareEmptyNext
  <2>2. \A w \in up' : w \in Worker /\ (channel'[w] # NULL => channel'[w] \in Worker)
    BY <1>3 DEF MwTypes
  <2>3. \A w \in up' : channel'[w] # NULL => received'[w] \o pair'[channel'[w]] = << >>
    BY <1>8, <2>2, EmptyConcat
  <2> QED  BY <2>1, <2>3 DEF RoundRobin
<1>10. EventKept'
  BY <1>3, <1>8 DEF EventKept, MwTypes
<1>11. InTurn' /\ EdgeKept'
  BY <1>1 DEF MwInv, InTurn, EdgeKept, masterVars
<1> QED  BY <1>3, <1>5, <1>7, <1>9, <1>10, <1>11 DEF MwInv

\* A connection is passed to the pair of the entry that is next, whose reader is
\* told of it.
LEMMA SendStep ==
  ASSUME MwInv, SendFd
  PROVE  MwInv'
<1>0. PICK p : p = child_sockets[j]
  OBVIOUS
<1>00. PICK c : c = infd
  OBVIOUS
<1>1. /\ master = "send" /\ c \in Connection
      /\ pair' = IF p = NULL THEN pair ELSE [pair EXCEPT ![p] = Append(@, c)]
      /\ ready' = [w \in Worker |-> ready[w] \/ (p # NULL /\ w \in Readers(p))]
      /\ passed' = Append(passed, c) /\ infd' = NULL
      /\ j' = (j + 1) % n /\ master' = "accept"
      /\ UNCHANGED <<startVars, backlog, edge, failed, up, channel, worker, received>>
  BY <1>0, <1>00 DEF SendFd, NextWorker, AfterSend, MwInv, MwTypes
<1>2. /\ passed \in Seq(Connection) /\ passed' \in Seq(Connection)
      /\ Len(passed) \in Nat /\ Len(passed') = Len(passed) + 1
  BY <1>1, AppendElements, LenProperties DEF MwInv, MwTypes
<1>3. j = Len(passed) % n /\ j' = Len(passed') % n /\ j' \in Worker
  <2>1. j = Len(passed) % n
    BY <1>1 DEF MwInv, InTurn
  <2>2. ((Len(passed) % n) + 1) % n = (Len(passed) + 1) % n /\ (Len(passed) + 1) % n \in 0 .. n - 1
    <3>1. \A m \in Nat : m % n \in 0 .. n - 1 /\ ((m % n) + 1) % n = (m + 1) % n
      BY NextTurn, MasterWorkersAssumption
    <3>2. Len(passed) + 1 \in Nat
      BY <1>2
    <3> QED  BY <1>2, <3>1, <3>2
  <2> QED  BY <1>1, <1>2, <2>1, <2>2 DEF Worker
<1>4. p \in Worker \cup {NULL}
  BY <1>0 DEF MwInv, MwTypes
<1>5. /\ \A q \in Worker : q # p => pair'[q] = pair[q]
      /\ p # NULL => p \in Worker /\ pair'[p] = Append(pair[p], c) /\ pair[p] \in Seq(Connection)
  BY <1>1, <1>4 DEF MwInv, MwTypes
<1>6. pair' \in [Worker -> Seq(Connection)]
  <2>1. p # NULL => Append(pair[p], c) \in Seq(Connection)
    BY <1>1, <1>5, AppendElements
  <2> QED  BY <1>1, <1>4, <2>1 DEF MwInv, MwTypes
<1>7. MwTypes'
  BY <1>1, <1>2, <1>3, <1>6 DEF MwInv, MwTypes, startVars
<1>8. Started' /\ OneReader' /\ EdgeKept'
  BY <1>1 DEF MwInv, Started, OneReader, EdgeKept, startVars
<1>9. InTurn'
  BY <1>3 DEF InTurn
<1>10. EventKept'
  <2> SUFFICES ASSUME NEW w \in up, channel[w] # NULL, worker[w] = "wait", ~ready'[w]
               PROVE  pair'[channel[w]] = << >>
    BY <1>1 DEF EventKept
  <2>1. w \in Worker /\ channel[w] \in Worker /\ ~ready[w]
    BY <1>1 DEF MwInv, MwTypes
  <2>2. channel[w] # p
    BY <1>1, <2>1 DEF Readers
  <2> QED  BY <1>5, <2>1, <2>2 DEF MwInv, EventKept
<1>11. RoundRobin'
  <2> SUFFICES ASSUME NEW w \in up, channel[w] # NULL
               PROVE  IsShare(received[w] \o pair[channel[w]], channel[w])'
    BY <1>1 DEF RoundRobin
  <2>1. PICK q \in Worker : q = channel[w]
    BY DEF MwInv, MwTypes
  <2>2. PICK r \in Seq(Connection) : r = received[w]
    BY DEF MwInv, MwTypes
  <2>3. PICK b \in Seq(Connection) : b = pair[q]
    BY DEF MwInv, MwTypes
  <2>4. PICK s \in Seq(Connection) : s = r \o b /\ IsShare(s, q)
    BY <2>1, <2>2, <2>3, ConcatProperties DEF MwInv, RoundRobin
  <2>5. /\ p # q => IsShare(s, q)'
        /\ p = q => IsShare(Append(s, c), q)'
    <3>1. /\ MwTypes /\ passed' = Append(passed, c) /\ UNCHANGED child_sockets
          /\ child_sockets[Len(passed) % n] = p
      BY <1>0, <1>1, <1>3 DEF MwInv, startVars
    <3> QED  BY <1>1, <2>4, <3>1, ShareGrows
  <2>6. Append(s, c) = r \o Append(b, c)
    <3>1. \A a, d \in Seq(Connection) : \A e \in Connection : a \o Append(d, e) = Append(a \o d, e)
      BY QueueAppend
    <3> QED  BY <1>1, <2>4, <3>1
  <2>7. /\ p # q => pair'[q] = b
        /\ p = q => pair'[q] = Append(b, c)
    BY <1>5, <2>1, <2>3, MasterWorkersAssumption
  <2>8. channel'[w] = q /\ received'[w] = r
    BY <1>1, <2>1, <2>2
  <2>9. CASE p # q
    BY <2>4, <2>5, <2>7, <2>8, <2>9
  <2>10. CASE p = q
    BY <2>5, <2>6, <2>7, <2>8, <2>10
  <2> QED  BY <2>9, <2>10
<1> QED  BY <1>7, <1>8, <1>9, <1>10, <1>11 DEF MwInv

\* The master that finds no reader is dead, and nobody reads the pair.
LEMMA BrokenStep ==
  ASSUME MwInv, SendBroken
  PROVE  MwInv'
<1>0. PICK p : p = child_sockets[j]
  OBVIOUS
<1>00. PICK c : c = infd
  OBVIOUS
<1>1. /\ master = "send" /\ c \in Connection /\ p # NULL /\ Readers(p) = {}
      /\ master' = "dead" /\ passed' = Append(passed, c) /\ infd' = NULL
      /\ UNCHANGED <<startVars, backlog, edge, j, failed, workerVars, pair>>
  BY <1>0, <1>00 DEF SendBroken, MwInv, MwTypes
<1>2. passed' \in Seq(Connection)
  BY <1>1, AppendElements DEF MwInv, MwTypes
<1>3. MwTypes'
  BY <1>1, <1>2 DEF MwInv, MwTypes, startVars, workerVars
<1>4. Started' /\ OneReader' /\ InTurn' /\ EdgeKept' /\ EventKept'
  BY <1>1 DEF MwInv, Started, OneReader, InTurn, EdgeKept, EventKept, startVars, workerVars
<1>5. RoundRobin'
  <2> SUFFICES ASSUME NEW w \in up, channel[w] # NULL
               PROVE  IsShare(received[w] \o pair[channel[w]], channel[w])'
    BY <1>1 DEF RoundRobin, workerVars
  <2>1. PICK q \in Worker : q = channel[w] /\ q # p
    BY <1>1 DEF MwInv, MwTypes, Readers
  <2>2. PICK s \in Seq(Connection) : s = received[w] \o pair[q] /\ IsShare(s, q)
    <3>1. received[w] \in Seq(Connection) /\ pair[q] \in Seq(Connection)
      BY DEF MwInv, MwTypes
    <3>2. received[w] \o pair[q] \in Seq(Connection)
      BY <3>1, ConcatProperties
    <3> QED  BY <2>1, <3>2 DEF MwInv, RoundRobin
  <2>3. IsShare(s, q)'
    <3>1. /\ MwTypes /\ passed' = Append(passed, c) /\ UNCHANGED child_sockets
          /\ child_sockets[Len(passed) % n] # q
      BY <1>0, <1>1, <2>1 DEF MwInv, InTurn, startVars
    <3> QED  BY <1>1, <2>2, <3>1, ShareGrows
  <2>4. channel'[w] = q /\ received'[w] \o pair'[q] = s
    BY <1>1, <2>1, <2>2 DEF workerVars
  <2> QED  BY <2>3, <2>4
<1> QED  BY <1>3, <1>4, <1>5 DEF MwInv

\* What stays when only the workers and their pairs change.
LEMMA MasterStays ==
  ASSUME MwInv, UNCHANGED <<startVars, masterVars>>, up' \subseteq up,
         \A w \in Worker : channel'[w] \in {channel[w], NULL},
         \A w \in Worker : /\ received[w] = << >> /\ (\A q \in Worker : pair[q] = << >>)
                            => received'[w] = << >> /\ pair'[w] = << >>
  PROVE  Started' /\ OneReader' /\ InTurn' /\ EdgeKept'
<1>1. InTurn' /\ EdgeKept'
  BY DEF MwInv, InTurn, EdgeKept, masterVars
<1>2. Started'
  BY DEF MwInv, Started, startVars, masterVars
<1>3. OneReader'
  BY DEF MwInv, OneReader, startVars
<1> QED  BY <1>1, <1>2, <1>3

\* A worker that runs and whose channel, connections and pair are as before has
\* its share.
LEMMA ShareKept ==
  ASSUME MwInv, UNCHANGED <<startVars, masterVars>>, NEW w \in up, channel[w] # NULL,
         UNCHANGED <<channel[w]>>,
         received'[w] \o pair'[channel[w]] = received[w] \o pair[channel[w]]
  PROVE  IsShare(received[w] \o pair[channel[w]], channel[w])'
<1>1. PICK q, s : q = channel[w] /\ s = received[w] \o pair[q]
  OBVIOUS
<1>2. IsShare(s, q)
  BY <1>1 DEF MwInv, RoundRobin
<1>3. IsShare(s, q)'
  BY <1>2, ShareStays DEF startVars, masterVars
<1> QED  BY <1>1, <1>3

\* A worker sees its event, or looks again, or dies of the closed end.
LEMMA WakeStep ==
  ASSUME MwInv, NEW w \in Worker, WorkerWake(w) \/ RecvAgain(w)
  PROVE  MwInv'
<1>1. /\ w \in up /\ channel[w] # NULL
      /\ UNCHANGED <<startVars, masterVars, channel, received, pair>>
      /\ up' \subseteq up
  BY DEF WorkerWake, RecvAgain
<1>2. MwTypes'
  <2>1. CASE WorkerWake(w)
    BY <1>1, <2>1 DEF WorkerWake, MwInv, MwTypes, startVars, masterVars
  <2>2. CASE RecvAgain(w)
    BY <1>1, <2>2 DEF RecvAgain, MwInv, MwTypes, startVars, masterVars
  <2> QED  BY <2>1, <2>2
<1>3. Started' /\ OneReader' /\ InTurn' /\ EdgeKept'
  BY <1>1, MasterStays
<1>4. EventKept'
  <2>1. CASE WorkerWake(w)
    <3>1. /\ worker' = [worker EXCEPT ![w] = "recv"] /\ ready' = [ready EXCEPT ![w] = FALSE]
          /\ up' = up
      BY <2>1 DEF WorkerWake
    <3> QED  BY <1>1, <3>1 DEF MwInv, MwTypes, EventKept
  <2>2. CASE RecvAgain(w)
    <3>1. /\ worker' = [worker EXCEPT ![w] = "wait"] /\ ready' = ready
          /\ pair[channel[w]] = << >>
      BY <2>2 DEF RecvAgain
    <3> QED  BY <1>1, <3>1 DEF MwInv, MwTypes, EventKept
  <2> QED  BY <2>1, <2>2
<1>5. RoundRobin'
  BY <1>1, ShareKept DEF RoundRobin
<1> QED  BY <1>2, <1>3, <1>4, <1>5 DEF MwInv

\* A worker takes the oldest connection of its pair; nobody else reads it.
LEMMA RecvStep ==
  ASSUME MwInv, NEW w \in Worker, RecvFd(w)
  PROVE  MwInv'
<1>1. PICK p \in Worker : p = channel[w]
  BY DEF RecvFd, MwInv, MwTypes
<1>2. /\ w \in up /\ worker[w] = "recv" /\ pair[p] # << >>
      /\ received' = [received EXCEPT ![w] = Append(@, Head(pair[p]))]
      /\ pair' = [pair EXCEPT ![p] = Tail(@)]
      /\ UNCHANGED <<startVars, masterVars, up, channel, ready, worker>>
  BY <1>1 DEF RecvFd
<1>3. /\ received[w] \in Seq(Connection) /\ pair[p] \in Seq(Connection)
      /\ Head(pair[p]) \in Connection /\ Tail(pair[p]) \in Seq(Connection)
  BY <1>2, TailElements DEF MwInv, MwTypes
<1>4. Append(received[w], Head(pair[p])) \in Seq(Connection)
  BY <1>3, AppendElements
<1>5. MwTypes'
  BY <1>2, <1>3, <1>4 DEF MwInv, MwTypes, startVars, masterVars
<1>6. /\ \A v \in Worker : v # w => received'[v] = received[v] /\ channel[v] # p
      /\ received'[w] = Append(received[w], Head(pair[p]))
      /\ \A q \in Worker : q # p => pair'[q] = pair[q]
      /\ pair'[p] = Tail(pair[p])
  BY <1>1, <1>2, MasterWorkersAssumption DEF MwInv, MwTypes, OneReader, Worker
<1>7. Started' /\ OneReader' /\ InTurn' /\ EdgeKept'
  BY <1>2, MasterStays
<1>8. EventKept'
  <2> SUFFICES ASSUME NEW v \in up, channel[v] # NULL, worker[v] = "wait", ~ready[v]
               PROVE  pair'[channel[v]] = << >>
    BY <1>2 DEF EventKept
  <2>1. v # w /\ v \in Worker /\ channel[v] \in Worker
    BY <1>2 DEF MwInv, MwTypes
  <2> QED  BY <1>6, <2>1 DEF MwInv, EventKept
<1>9. received'[w] \o pair'[p] = received[w] \o pair[p]
  <2>1. \A a, b \in Seq(Connection) : b # << >> => Append(a, Head(b)) \o Tail(b) = a \o b
    BY QueueMoves
  <2> QED  BY <1>2, <1>3, <1>6, <2>1
<1>10. RoundRobin'
  <2> SUFFICES ASSUME NEW v \in up, channel[v] # NULL
               PROVE  IsShare(received[v] \o pair[channel[v]], channel[v])'
    BY <1>2 DEF RoundRobin
  <2>1. v \in Worker /\ channel[v] \in Worker
    BY DEF MwInv, MwTypes
  <2>2. received'[v] \o pair'[channel[v]] = received[v] \o pair[channel[v]]
    <3>1. CASE v = w
      BY <1>1, <1>9, <3>1
    <3>2. CASE v # w
      BY <1>6, <2>1, <3>2
    <3> QED  BY <3>1, <3>2
  <2> QED  BY <1>2, <2>2, ShareKept
<1> QED  BY <1>5, <1>7, <1>8, <1>10 DEF MwInv

\* A worker that dies, or loses its channel, takes nothing from the others.
LEMMA LossStep ==
  ASSUME MwInv, NEW w \in Worker, CloseChannel(w) \/ Die(w)
  PROVE  MwInv'
<1>1. /\ w \in up /\ UNCHANGED <<startVars, masterVars, ready, worker, received>>
      /\ \/ up' = up /\ channel[w] # NULL /\ channel' = [channel EXCEPT ![w] = NULL]
            /\ pair' = [pair EXCEPT ![channel[w]] = << >>]
         \/ up' = up \ {w} /\ channel' = channel
            /\ pair' = [q \in Worker |-> IF q = channel[w] THEN << >> ELSE pair[q]]
  BY DEF CloseChannel, Die
<1>2. /\ \A v \in up' : v \in up /\ v \in Worker
      /\ \A v \in up' : channel'[v] # NULL => v # w /\ channel'[v] = channel[v]
      /\ \A q \in Worker : q # channel[w] => pair'[q] = pair[q]
      /\ \A q \in Worker : pair'[q] \in {pair[q], << >>}
      /\ \A v \in Worker : channel'[v] \in {channel[v], NULL}
  BY <1>1 DEF MwInv, MwTypes
<1>3. MwTypes'
  <2>1. << >> \in Seq(Connection)
    BY EmptySeq
  <2>2. pair' \in [Worker -> Seq(Connection)]
    BY <1>1, <2>1 DEF MwInv, MwTypes
  <2>3. channel' \in [Worker -> Worker \cup {NULL}] /\ up' \subseteq Worker
    BY <1>1 DEF MwInv, MwTypes
  <2> QED  BY <1>1, <2>2, <2>3 DEF MwInv, MwTypes, startVars, masterVars
<1>4. Started' /\ OneReader' /\ InTurn' /\ EdgeKept'
  <2>1. up' \subseteq up
    BY <1>2
  <2> QED  BY <1>1, <1>2, <2>1, MasterStays
<1>5. ASSUME NEW v \in up', channel'[v] # NULL
      PROVE  /\ v \in up /\ channel'[v] = channel[v] /\ channel[v] \in Worker
             /\ pair'[channel[v]] = pair[channel[v]]
  <2>1. v # w /\ v \in up /\ channel'[v] = channel[v] /\ channel[v] \in Worker /\ v \in Worker
    BY <1>2, <1>5 DEF MwInv, MwTypes
  <2>2. channel[v] # channel[w]
    BY <1>5, <2>1 DEF MwInv, OneReader
  <2> QED  BY <1>2, <2>1, <2>2
<1>6. EventKept'
  BY <1>1, <1>5 DEF MwInv, EventKept
<1>7. RoundRobin'
  <2> SUFFICES ASSUME NEW v \in up', channel'[v] # NULL
               PROVE  IsShare(received[v] \o pair[channel[v]], channel[v])'
    BY DEF RoundRobin
  <2>1. /\ v \in up /\ channel[v] # NULL /\ channel'[v] = channel[v]
        /\ received'[v] \o pair'[channel[v]] = received[v] \o pair[channel[v]]
    <3>1. received' = received
      BY <1>1
    <3>2. /\ v \in up /\ channel'[v] = channel[v]
          /\ pair'[channel[v]] = pair[channel[v]]
      BY <1>5
    <3> QED  BY <3>1, <3>2
  <2> QED  BY <1>1, <2>1, ShareKept
<1> QED  BY <1>3, <1>4, <1>6, <1>7 DEF MwInv

-----------------------------------------------------------------------------
\* The invariant holds in every state.
THEOREM MwInvariant == MwSpec => []MwInv
<1>1. MwInv /\ [MwNext]_mwVars => MwInv'
  <2> SUFFICES ASSUME MwInv, [MwNext]_mwVars PROVE MwInv'
    OBVIOUS
  <2>1. CASE (\E c \in Connection : Connect(c)) \/ MasterDies
    BY <2>1, MasterStep
  <2>2. CASE Master
    <3>1. CASE \E paired, forked \in BOOLEAN : StartWorker(paired, forked)
      BY <3>1, StartStep
    <3>2. CASE SendFd
      BY <3>2, SendStep
    <3>3. CASE SendBroken
      BY <3>3, BrokenStep
    <3>4. CASE StartMaster \/ MasterWake \/ AcceptOne \/ AcceptAgain \/ AcceptError
      BY <3>4, MasterStep
    <3> QED  BY <2>2, <3>1, <3>2, <3>3, <3>4 DEF Master, Start
  <2>3. ASSUME NEW w \in Worker, WorkerStep(w) \/ Die(w)
        PROVE  MwInv'
    <3>1. CASE RecvFd(w)
      BY <3>1, RecvStep
    <3>2. CASE WorkerWake(w) \/ RecvAgain(w)
      BY <3>2, WakeStep
    <3>3. CASE CloseChannel(w) \/ Die(w)
      BY <3>3, LossStep
    <3> QED  BY <2>3, <3>1, <3>2, <3>3 DEF WorkerStep
  <2>4. CASE UNCHANGED mwVars
    <3>1. UNCHANGED <<startVars, masterVars, workerVars, pair>>
      BY <2>4 DEF mwVars
    <3>2. \A s, p : IsShare(s, p)' <=> IsShare(s, p)
      BY <3>1, ShareStays DEF startVars, masterVars
    <3>3. RoundRobin'
      BY <3>1, <3>2 DEF MwInv, RoundRobin, workerVars
    <3>4. MwTypes' /\ Started' /\ OneReader' /\ InTurn' /\ EdgeKept' /\ EventKept'
      BY <3>1 DEF MwInv, MwTypes, Started, OneReader, InTurn, EdgeKept, EventKept,
                  startVars, masterVars, workerVars
    <3> QED  BY <3>3, <3>4 DEF MwInv
  <2> QED  BY <2>1, <2>2, <2>3, <2>4 DEF MwNext
<1> QED  BY <1>1, MwInitInv, PTL DEF MwSpec

\* A worker that lives has got, or will find in its pair, exactly the connections
\* of its entries of child_sockets, in order, for any number of workers, whatever
\* socketpair or fork failed and whoever died.
THEOREM ConnectionsGoRound == MwSpec => []RoundRobin
<1>1. MwInv => RoundRobin
  BY DEF MwInv
<1> QED  BY <1>1, MwInvariant, PTL

\* Neither the master nor a worker sleeps while a connection that no event
\* announces waits for it, unless accept failed.
THEOREM EdgesKept == MwSpec => []NoLostEdge
<1>1. MwInv => NoLostEdge
  BY DEF MwInv, EdgeKept, EventKept, NoLostEdge
<1> QED  BY <1>1, MwInvariant, PTL
=============================================================================
