---------------------------- MODULE MasterWorkers ----------------------------
(***************************************************************************)
(* mw_server.c: the master makes a socket pair and forks a worker, n       *)
(* times, then accepts connections and passes them to its workers in turn; *)
(* a worker (handle_accept of mw_worker.c with single_mode = 0) takes them *)
(* from its end of the pair.  Both sides listen with edge-triggered epoll. *)
(* socketpair and fork may fail, and processes may die.                    *)
(***************************************************************************)
EXTENDS Null, Naturals, Sequences, SequencesExt, FiniteSets

CONSTANTS
  Connection,  \* the connections clients make
  n,           \* n_workers
  PairCap,     \* connections a socket pair buffers before sendmsg blocks
  AcceptFails, \* may accept fail with another error than EAGAIN?
  MaxFaults    \* how many calls fail at the start, and processes die

ASSUME MasterWorkersAssumption ==
  /\ n \in Nat \ {0} /\ PairCap \in Nat \ {0} /\ MaxFaults \in Nat
  /\ AcceptFails \in BOOLEAN /\ NULL \notin Connection \cup (0 .. n - 1)

Worker == 0 .. n - 1     \* and the pair made for it

VARIABLES
  i,             \* the loop of master_workers_server
  sockets,       \* the pair in sockets[2], or NULL before there is one
  near,          \* the master holds sockets[0], the worker's end, of that pair
  child_sockets, \* the pair whose sockets[1] is in the array, or NULL: the
                 \* entry is what malloc left there, which is no socket
  up,            \* the workers that run
  channel,       \* the pair a worker takes connections from, or NULL
  backlog,       \* connections the kernel has completed, oldest first
  edge,          \* the listening socket has an event not yet reported
  master,        \* the master: "start", "wait", "accept", "send" or "dead"
  infd,          \* the connection it has accepted and not passed on
  j,             \* the entry that is next
  pair,          \* connections under way on each pair
  ready,         \* the worker's socket has an event it has not seen
  worker,        \* where each worker is: "wait" or "recv"
  received,      \* connections each worker has got, in order
  passed,        \* connections the master has given to send_fd_by_socket
  failed,        \* accept failed since the last event
  faults         \* how many faults there were

startVars  == <<i, sockets, near, child_sockets>>
masterVars == <<backlog, edge, master, infd, j, passed, failed>>
workerVars == <<up, channel, ready, worker, received>>
mwVars     == <<startVars, masterVars, workerVars, pair, faults>>

MwInit ==
  /\ i = 0 /\ sockets = NULL /\ near = FALSE
  /\ child_sockets = [w \in Worker |-> NULL]
  /\ up = {} /\ channel = [w \in Worker |-> NULL]
  /\ backlog = <<>> /\ edge = FALSE /\ master = "start" /\ infd = NULL /\ j = 0
  /\ pair = [p \in Worker |-> <<>>] /\ ready = [w \in Worker |-> FALSE]
  /\ worker = [w \in Worker |-> "wait"] /\ received = [w \in Worker |-> <<>>]
  /\ passed = <<>> /\ failed = FALSE /\ faults = 0

Seen == ToSet(backlog) \cup ({infd} \ {NULL}) \cup ToSet(passed)

\* a client connects: the kernel raises the edge again
Connect(c) ==
  /\ c \notin Seen
  /\ backlog' = Append(backlog, c) /\ edge' = TRUE
  /\ UNCHANGED <<startVars, master, infd, j, passed, failed, workerVars, pair,
                 faults>>

-----------------------------------------------------------------------------
(* master_workers_server.                                                   *)

\* One turn of the loop: when socketpair fails the pair of the turn before is
\* used again, whose sockets[0] the master has closed unless fork failed then
StartWorker(paired, forked) ==
  LET p    == IF paired THEN i ELSE sockets
      open == paired \/ near
      f    == Cardinality({x \in {1, 2} : ~<<paired, forked>>[x]})
  IN  /\ master = "start" /\ i < n /\ faults + f <= MaxFaults
      /\ i' = i + 1 /\ sockets' = p /\ faults' = faults + f
      /\ near' = (open /\ ~forked)
      /\ child_sockets' = IF forked THEN [child_sockets EXCEPT ![i] = p] ELSE child_sockets
      /\ up' = IF forked THEN up \cup {i} ELSE up
      /\ channel' = IF forked /\ open THEN [channel EXCEPT ![i] = p] ELSE channel
      /\ UNCHANGED <<masterVars, ready, worker, received, pair>>

\* the loop is over: master_process
StartMaster ==
  /\ master = "start" /\ i = n /\ master' = "wait"
  /\ UNCHANGED <<startVars, backlog, edge, infd, j, passed, failed, workerVars,
                 pair, faults>>

-----------------------------------------------------------------------------
(* master_process.                                                          *)

MasterWake ==
  /\ master = "wait" /\ edge
  /\ edge' = FALSE /\ master' = "accept" /\ failed' = FALSE
  /\ UNCHANGED <<startVars, backlog, infd, j, passed, workerVars, pair, faults>>

\* faulty variant: one connection per event
AfterSendWait == "wait"

\* the inner loop goes on until EAGAIN
AfterSend == "accept"

AcceptOne ==
  /\ master = "accept" /\ backlog # <<>>
  /\ infd' = Head(backlog) /\ backlog' = Tail(backlog) /\ master' = "send"
  /\ UNCHANGED <<startVars, edge, j, passed, failed, workerVars, pair, faults>>

AcceptAgain ==
  /\ master = "accept" /\ backlog = <<>> /\ master' = "wait"
  /\ UNCHANGED <<startVars, backlog, edge, infd, j, passed, failed, workerVars,
                 pair, faults>>

\* any other error (the process is out of descriptors) also leaves the loop
AcceptError ==
  /\ AcceptFails /\ master = "accept" /\ backlog # <<>>
  /\ master' = "wait" /\ failed' = TRUE
  /\ UNCHANGED <<startVars, backlog, edge, infd, j, passed, workerVars, pair,
                 faults>>

\* faulty variant: the turn does not move on
NextSame(k) == k

NextWorker(k) == (k + 1) % n

Readers(p) == {w \in up : channel[w] = p}

\* send_fd_by_socket, the step to the next worker, close(infd).  An entry that
\* is no socket makes sendmsg fail, and the connection is closed all the same.
SendFd ==
  LET p == child_sockets[j]
  IN  /\ master = "send"
      /\ p # NULL => Readers(p) # {} /\ Len(pair[p]) < PairCap
      /\ pair' = IF p = NULL THEN pair ELSE [pair EXCEPT ![p] = Append(@, infd)]
      /\ ready' = [w \in Worker |-> ready[w] \/ (p # NULL /\ w \in Readers(p))]
      /\ passed' = Append(passed, infd) /\ infd' = NULL
      /\ j' = NextWorker(j) /\ master' = AfterSend
      /\ UNCHANGED <<startVars, backlog, edge, failed, up, channel, worker,
                     received, faults>>

\* nobody has the other end any more: SIGPIPE ends the master
SendBroken ==
  LET p == child_sockets[j]
  IN  /\ master = "send" /\ p # NULL /\ Readers(p) = {}
      /\ master' = "dead" /\ passed' = Append(passed, infd) /\ infd' = NULL
      /\ UNCHANGED <<startVars, backlog, edge, j, failed, workerVars, pair, faults>>

-----------------------------------------------------------------------------
(* A worker: process_io and handle_accept with recv_fd_from_socket.         *)

\* The master's end of a worker's pair is closed: the master is dead, and so
\* are the workers forked later, which inherited it and never close it (a worker
\* closes only what is in its own sockets[1])
Hangup(w) ==
  /\ master = "dead"
  /\ \A v \in up : v > channel[w] => child_sockets[v] = channel[w]

WorkerWake(w) ==
  /\ w \in up /\ channel[w] # NULL /\ worker[w] = "wait" /\ ready[w] /\ ~Hangup(w)
  /\ ready' = [ready EXCEPT ![w] = FALSE] /\ worker' = [worker EXCEPT ![w] = "recv"]
  /\ UNCHANGED <<startVars, masterVars, up, channel, received, pair, faults>>

\* faulty variant: it waits for a second connection
RecvBatch(w) ==
  LET p == channel[w]
  IN  /\ w \in up /\ worker[w] = "recv" /\ p # NULL
      /\ Len(pair[p]) > 1
      /\ received' = [received EXCEPT ![w] = @ \o pair[p]]
      /\ pair' = [pair EXCEPT ![p] = <<>>]
      /\ UNCHANGED <<startVars, masterVars, up, channel, ready, worker, faults>>

RecvFd(w) ==
  LET p == channel[w]
  IN  /\ w \in up /\ worker[w] = "recv" /\ p # NULL
      /\ pair[p] # <<>>
      /\ received' = [received EXCEPT ![w] = Append(@, Head(pair[p]))]
      /\ pair' = [pair EXCEPT ![p] = Tail(@)]
      /\ UNCHANGED <<startVars, masterVars, up, channel, ready, worker, faults>>

\* EAGAIN; when the other end is closed recvmsg returns 0 with no control
\* message, and the worker dies of the null pointer CMSG_FIRSTHDR gives it
RecvAgain(w) ==
  /\ w \in up /\ worker[w] = "recv" /\ channel[w] # NULL /\ pair[channel[w]] = <<>>
  /\ worker' = [worker EXCEPT ![w] = "wait"]
  /\ up' = IF Hangup(w) THEN up \ {w} ELSE up
  /\ UNCHANGED <<startVars, masterVars, channel, ready, received, pair, faults>>

\* EPOLLHUP is looked at before EPOLLIN: handle_fd_error closes the channel,
\* with what is in it
CloseChannel(w) ==
  /\ w \in up /\ channel[w] # NULL /\ worker[w] = "wait" /\ Hangup(w)
  /\ pair' = [pair EXCEPT ![channel[w]] = <<>>]
  /\ channel' = [channel EXCEPT ![w] = NULL]
  /\ UNCHANGED <<startVars, masterVars, up, ready, worker, received, faults>>

\* a worker or the master is killed
Die(w) ==
  /\ faults < MaxFaults /\ faults' = faults + 1
  /\ w \in up /\ up' = up \ {w}
  /\ pair' = [p \in Worker |-> IF p = channel[w] THEN <<>> ELSE pair[p]]
  /\ UNCHANGED <<startVars, masterVars, channel, ready, worker, received>>

MasterDies ==
  /\ faults < MaxFaults /\ faults' = faults + 1
  /\ master # "dead" /\ master' = "dead"
  /\ UNCHANGED <<startVars, backlog, edge, infd, j, passed, failed, workerVars, pair>>

Start == (\E paired, forked \in BOOLEAN : StartWorker(paired, forked)) \/ StartMaster
Master == Start \/ MasterWake \/ AcceptOne \/ AcceptAgain \/ AcceptError \/ SendFd \/ SendBroken
WorkerStep(w) == WorkerWake(w) \/ RecvFd(w) \/ RecvAgain(w) \/ CloseChannel(w)

MwNext ==
  \/ \E c \in Connection : Connect(c)
  \/ Master \/ MasterDies
  \/ \E w \in Worker : WorkerStep(w) \/ Die(w)

MwSpec == MwInit /\ [][MwNext]_mwVars

\* The kernel schedules every process that can run.
MwFairSpec == MwSpec /\ WF_mwVars(Master) /\ \A w \in Worker : WF_mwVars(WorkerStep(w))

-----------------------------------------------------------------------------
\* the turns of the pair p, or of no pair: the master's k-th connection belongs
\* to the entry k - 1, counted round and round
Turns(p) == {k \in 1 .. Len(passed) : child_sockets[(k - 1) % n] = p}

\* s is what was passed on in the turns of p, in their order: turn numbers s
\* from the first to the last of them
IsShare(s, p) ==
  \E turn \in [1 .. Len(s) -> Turns(p)] :
    /\ \A x, y \in 1 .. Len(s) : x < y => turn[x] < turn[y]
    /\ \A k \in Turns(p) : \E x \in 1 .. Len(s) : turn[x] = k
    /\ \A x \in 1 .. Len(s) : s[x] = passed[turn[x]]

\* The connections go round the entries of child_sockets.  A worker that lives
\* has got, or will find in its pair, exactly those of its entries, in the
\* order they were accepted, whatever failed at the start (with socketpair two
\* entries share a worker) and whoever else died.
RoundRobin ==
  \A w \in up :
    channel[w] # NULL => IsShare(received[w] \o pair[channel[w]], channel[w])

\* An edge is not lost: while the master waits with nothing reported, no
\* connection is in the backlog, unless accept failed; and a worker that waits
\* with nothing reported has taken everything from its socket pair.
NoLostEdge ==
  /\ master = "wait" /\ ~edge /\ ~failed => backlog = <<>>
  /\ \A w \in up :
       channel[w] # NULL /\ worker[w] = "wait" /\ ~ready[w] => pair[channel[w]] = <<>>

\* Every connection reaches a worker, even with workers that did not start,
\* except those whose turn is an entry without a socket; as long as accept does
\* not fail and nobody dies.
AllServed ==
  \A c \in Connection :
    c \in Seen ~>
      \/ failed \/ master = "dead" \/ \E k \in Turns(NULL) : passed[k] = c
      \/ \E w \in Worker : c \in ToSet(received[w]) \/ (w < i /\ channel[w] # NULL /\ w \notin up)
=============================================================================
