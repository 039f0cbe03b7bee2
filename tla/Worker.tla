------------------------------- MODULE Worker -------------------------------
(***************************************************************************)
(* One worker process of artorias: the event loop of mw_worker.c, the      *)
(* threads (Lua coroutines) and resources of thread.c, and the socket      *)
(* calls of lm_socket.c that a coroutine makes while it runs.              *)
(*                                                                         *)
(* A thread and a resource are blocks of the memory pool; a recycled block *)
(* may be handed out again, so a pointer that is kept too long denotes a   *)
(* different object.  Payloads, times and errno values are abstracted; the *)
(* two timer trees are the sets of their members (their pointer structure  *)
(* is in module TimerTree).                                                *)
(*                                                                         *)
(* The phase "untracked" ends a behaviour where this view no longer says   *)
(* what the code does next; section "Where the module stops" lists the     *)
(* four steps that lead there.  Everything stated below is about the       *)
(* states before such a step.                                              *)
(***************************************************************************)
EXTENDS Naturals, Sequences, FiniteSets

CONSTANTS
  Thread,      \* blocks that can hold an as_thread_t
  Res,         \* blocks that can hold an as_thread_res_t
  cfd,         \* ctx->cfd_res, the resource of the listening or channel fd
  NULL,        \* the null pointer
  JUNK,        \* what Lua has written over a pointer in a block it was given
  MaxEvents,   \* _MAX_EVENTS, the size of the array given to epoll_wait
  AddOutcome,  \* what EPOLL_CTL_ADD may answer: {TRUE} or {TRUE, FALSE}
  EvMask,      \* the event masks the scripts pass to ev_begin
  MaxDangling, \* how many failed connects are explored
  MaxLost,     \* how many connections without a coroutine are explored
  SingleMode   \* process()'s single_mode: SIGINT ends the loop

ASSUME WorkerAssumption ==
  /\ Thread \cap Res = {}
  /\ NULL \notin Thread \cup Res \cup {"io", "sleep"}
  /\ JUNK \notin Thread \cup {NULL}
  /\ cfd \notin Res \cup {NULL}
  /\ MaxEvents \in Nat \ {0}
  /\ AddOutcome \subseteq BOOLEAN
  /\ EvMask \subseteq SUBSET {"in", "out"}
  /\ MaxDangling \in Nat /\ MaxLost \in Nat
  /\ SingleMode \in BOOLEAN

VARIABLES
  phase,        \* where the loop of process() is
  keep_running, \* the flag init_handler clears
  batch,        \* events returned by epoll_wait and not yet handled
  expired,      \* threads taken out of a timer tree and not yet resumed
  cur,          \* the thread whose coroutine is running, or NULL
  arg,          \* what the last resume pushed: [type, res]
  stop_threads, \* ctx->stop_threads: the threads to free, in order
  next_stop,    \* loop index of process_stop_threads (1-based)
  cfd_open,     \* the listening or channel fd has not been closed
  lost,         \* accepted fds that were put in no resource and stay open
  status,       \* th->status; "FREE" when the block is in the memory pool
  mode,         \* th->mode
  pool,         \* th->pool: NULL, "io" or "sleep"
  tree,         \* the members of ctx->io_pool and ctx->sleep_pool
  mfd_res,      \* th->mfd_res
  resl,         \* th->resl, as a set
  wait,         \* the continuation the suspended coroutine is in: [k, res]
  live,         \* resource blocks that are allocated
  rth,          \* res->th (a recycled block keeps it until the block is used)
  rstatus,      \* res->status
  freef,        \* res->freef # NULL
  open,         \* resource blocks whose fd is open
  watched,      \* resource blocks whose fd is registered with epfd
  interest,     \* the events epfd reports for it (besides ERR and HUP)
  custom,       \* blocks that a socket userdata of lm_socket.new points to
  dangling      \* recycled blocks a userdata still points to (failed new)

loopVars == <<phase, keep_running, batch, expired, cur, arg, stop_threads,
              next_stop, cfd_open, lost>>
thVars   == <<status, mode, pool, tree, mfd_res, resl, wait>>
resVars  == <<live, rth, rstatus, freef, open, watched, interest, custom,
              dangling>>
vars     == <<loopVars, thVars, resVars>>

IO     == {"in", "out"}
Pools  == {"io", "sleep"}
IoWaits == {"read", "send", "yield"}
SleepWaits == {"sleep", "ev"}
Phases == {"start", "poll", "io", "accept", "io_timeout", "sleep", "stop",
           "final", "drain", "close", "done", "untracked"}
NoArg  == [type |-> "NONE", res |-> NULL]
NoWait == [k |-> "start", res |-> NULL]

Allocated == {t \in Thread : status[t] # "FREE"}

Init ==
  /\ phase = "start" /\ keep_running = TRUE
  /\ batch = {} /\ expired = {} /\ cur = NULL /\ arg = NoArg
  /\ stop_threads = << >> /\ next_stop = 1 /\ cfd_open = TRUE
  /\ lost = 0
  /\ status = [t \in Thread |-> "FREE"]
  /\ mode = [t \in Thread |-> "SIMPLE"]
  /\ pool = [t \in Thread |-> NULL]
  /\ tree = [p \in Pools |-> {}]
  /\ mfd_res = [t \in Thread |-> NULL]
  /\ resl = [t \in Thread |-> {}]
  /\ wait = [t \in Thread |-> NoWait]
  /\ live = {} /\ rth = [r \in Res |-> NULL]
  /\ rstatus = [r \in Res |-> "IDLE"]
  /\ freef = [r \in Res |-> FALSE]
  /\ open = {} /\ watched = {} /\ interest = [r \in Res |-> {}]
  /\ custom = {} /\ dangling = {}

-----------------------------------------------------------------------------
(* Helpers of thread.c.  Each one says what happens to the variables it     *)
(* names; the actions below list what they leave alone.                     *)

\* faulty variant: every thread goes to the io tree
AddToWrongPool(t, p) ==
  /\ pool' = [pool EXCEPT ![t] = "io"]
  /\ tree' = [tree EXCEPT !["io"] = @ \cup {t}]

\* asthread_th_add_to_pool (the callers never pass NULL or a STOP thread)
asthread_th_add_to_pool(t, p) ==
  /\ pool' = [pool EXCEPT ![t] = p]
  /\ tree' = [tree EXCEPT ![p] = @ \cup {t}]

\* faulty variant: the node stays in the tree
ForgetPoolOnly(t) == pool' = [pool EXCEPT ![t] = NULL] /\ UNCHANGED tree

\* asthread_th_del_from_pool
asthread_th_del_from_pool(t) ==
  /\ pool' = [pool EXCEPT ![t] = NULL]
  /\ tree' = IF pool[t] = NULL THEN tree
             ELSE [tree EXCEPT ![pool[t]] = @ \ {t}]

\* asthread_th_is_stop
asthread_th_is_stop(t) == status[t] = "STOP"

\* faulty variant: th->pool is not cleared
StopKeepsPool(t) ==
  /\ status' = [status EXCEPT ![t] = "STOP"]
  /\ stop_threads' = Append(stop_threads, t)
  /\ UNCHANGED <<pool, tree>>

\* faulty variant: the thread is not put in the array
StopNotQueued(t) ==
  /\ status' = [status EXCEPT ![t] = "STOP"]
  /\ pool' = [pool EXCEPT ![t] = NULL]
  /\ UNCHANGED <<stop_threads, tree>>

\* asthread_th_to_stop: pool is cleared before asthread_th_add_to_array looks
\* at it, so a thread taken out by a timeout is not deleted a second time
asthread_th_to_stop(t) ==
  /\ status' = [status EXCEPT ![t] = "STOP"]
  /\ pool' = [pool EXCEPT ![t] = NULL]
  /\ stop_threads' = Append(stop_threads, t)
  /\ UNCHANGED tree

\* asthread_res_ev_add on the resource r: EPOLL_CTL_MOD fails when the fd is
\* not registered, and then the status is left as it is
asthread_res_ev_add(r, events) ==
  /\ interest' = IF r \in watched THEN [interest EXCEPT ![r] = events]
                 ELSE interest
  /\ rstatus' = IF r \in watched THEN [rstatus EXCEPT ![r] = "EV"] ELSE rstatus

\* asthread_res_ev_del on every resource of the thread
asthread_remove_res_from_epfd(t) ==
  LET del == {r \in resl[t] : rstatus[r] # "EV" /\ r \in watched}
  IN  /\ interest' = [r \in Res |-> IF r \in del THEN {} ELSE interest[r]]
      /\ rstatus' = [r \in Res |-> IF r \in del THEN "IDLE" ELSE rstatus[r]]

\* faulty variant: the custom sockets are not closed
ReleaseMfdOnly(t) ==
  LET closed == {mfd_res[t]}
  IN  /\ rth' = [r \in Res |-> IF r \in resl[t] THEN NULL ELSE rth[r]]
      /\ freef' = [r \in Res |-> IF r \in resl[t] THEN FALSE ELSE freef[r]]
      /\ open' = open \ closed
      /\ watched' = watched \ closed
      /\ interest' = [r \in Res |-> IF r \in closed THEN {} ELSE interest[r]]

\* faulty variant: res->th is not cleared
ReleaseKeepsTh(t) ==
  LET closed == {r \in resl[t] : freef[r]}
  IN  /\ freef' = [r \in Res |-> IF r \in resl[t] THEN FALSE ELSE freef[r]]
      /\ open' = open \ closed
      /\ watched' = watched \ closed
      /\ interest' = [r \in Res |-> IF r \in closed THEN {} ELSE interest[r]]
      /\ UNCHANGED rth

\* asthread_th_free: every resource loses its thread, and its fd is closed
\* through freef, once
asthread_th_free(t) ==
  LET closed == {r \in resl[t] : freef[r]}
  IN  /\ rth' = [r \in Res |-> IF r \in resl[t] THEN NULL ELSE rth[r]]
      /\ freef' = [r \in Res |-> IF r \in resl[t] THEN FALSE ELSE freef[r]]
      /\ open' = open \ closed
      /\ watched' = watched \ closed
      /\ interest' = [r \in Res |-> IF r \in closed THEN {} ELSE interest[r]]

\* asthread_th_free, then memp_recycle of mfd_res and of the thread: the body
\* of process_stop_threads and of r_thread_from_pool.  What a recycled thread
\* block still holds is not kept: no step reads it before Accept writes it
\* again (FreeTwice is the one that would).  A recycled resource block does
\* keep its th, until LuaReuses.
FreeThread(t) ==
  /\ asthread_th_free(t)
  /\ live' = live \ {mfd_res[t]}
  /\ status' = [status EXCEPT ![t] = "FREE"]
  /\ mode' = [mode EXCEPT ![t] = "SIMPLE"]
  /\ mfd_res' = [mfd_res EXCEPT ![t] = NULL]
  /\ resl' = [resl EXCEPT ![t] = {}]
  /\ wait' = [wait EXCEPT ![t] = NoWait]
  /\ UNCHANGED <<rstatus, custom, dangling, pool, tree>>

\* thread_resume: the arguments are pushed and the coroutine runs
thread_resume(t, type, r) ==
  IF asthread_th_is_stop(t) THEN UNCHANGED <<cur, arg>>
  ELSE /\ cur' = t
       /\ arg' = [type |-> type, res |-> r]

-----------------------------------------------------------------------------
(* The loop of process().                                                   *)

\* The events epoll_wait may report: ERR/HUP for every registered fd, the
\* others only when asked for; an fd is reported once per call.
Reportable ==
  {e \in [res : watched, ev : IO \cup {"err"}] :
       e.ev = "err" \/ e.ev \in interest[e.res]}
    \cup (IF cfd_open THEN [res : {cfd}, ev : {"in", "err"}] ELSE {})

Batches ==
  {b \in SUBSET Reportable :
      /\ Cardinality(b) <= MaxEvents
      /\ \A e, f \in b : e.res = f.res => e = f}

\* while (keep_running) { stop_threads->n = 0; epoll_wait(...)
EpollWait ==
  /\ phase \in {"start", "poll"} /\ keep_running
  /\ \E b \in Batches : batch' = b
  /\ stop_threads' = << >>
  /\ phase' = "io"
  /\ UNCHANGED <<keep_running, expired, cur, arg, next_stop, cfd_open, lost,
                 thVars, resVars>>

\* handle_fd_read, handle_fd_write and handle_fd_error of a thread's resource
HandleFd(r, ev) ==
  LET e == [res |-> r, ev |-> ev]
      t == rth[r]
  IN  /\ phase = "io" /\ cur = NULL /\ e \in batch /\ t # JUNK
      /\ batch' = batch \ {e}
      /\ IF asthread_th_is_stop(t)
         THEN UNCHANGED <<cur, arg, thVars, interest, rstatus>>
         ELSE /\ asthread_th_del_from_pool(t)
              /\ IF mode[t] = "SIMPLE" THEN asthread_remove_res_from_epfd(t)
                 ELSE UNCHANGED <<interest, rstatus>>
              /\ thread_resume(t, IF ev = "err" THEN "IO_ERROR" ELSE "IO", r)
              /\ UNCHANGED <<status, mode, mfd_res, resl, wait>>
      /\ UNCHANGED <<phase, keep_running, expired, stop_threads, next_stop,
                     cfd_open, lost, live, rth, freef, open, watched, custom,
                     dangling>>

\* handle_fd_error on ctx->cfd_res
CloseCfd ==
  /\ phase = "io" /\ cur = NULL
  /\ [res |-> cfd, ev |-> "err"] \in batch
  /\ batch' = batch \ {[res |-> cfd, ev |-> "err"]}
  /\ cfd_open' = FALSE
  /\ UNCHANGED <<phase, keep_running, expired, cur, arg, stop_threads,
                 next_stop, lost, thVars, resVars>>

\* handle_accept is entered; its loop is the three actions that follow
HandleAccept ==
  /\ phase = "io" /\ cur = NULL
  /\ [res |-> cfd, ev |-> "in"] \in batch
  /\ batch' = batch \ {[res |-> cfd, ev |-> "in"]}
  /\ phase' = "accept"
  /\ UNCHANGED <<keep_running, expired, cur, arg, stop_threads, next_stop,
                 cfd_open, lost, thVars, resVars>>

\* One turn of the loop: a thread and its mfd_res are allocated, linked and
\* registered (EPOLL_CTL_ADD may fail), and the chunk is started.
Accept(t, r, added) ==
  /\ phase = "accept" /\ cur = NULL
  /\ status[t] = "FREE" /\ r \notin live
  /\ status' = [status EXCEPT ![t] = "READY"]
  /\ mode' = [mode EXCEPT ![t] = "SIMPLE"]
  /\ pool' = [pool EXCEPT ![t] = NULL]
  /\ mfd_res' = [mfd_res EXCEPT ![t] = r]
  /\ resl' = [resl EXCEPT ![t] = {r}]
  /\ wait' = [wait EXCEPT ![t] = NoWait]
  /\ live' = live \cup {r}
  /\ rth' = [rth EXCEPT ![r] = t]
  /\ rstatus' = [rstatus EXCEPT ![r] = "IDLE"]
  /\ freef' = [freef EXCEPT ![r] = TRUE]
  /\ open' = open \cup {r}
  /\ watched' = IF added THEN watched \cup {r} ELSE watched
  /\ interest' = [interest EXCEPT ![r] = {}]
  /\ cur' = t /\ arg' = NoArg
  /\ UNCHANGED <<phase, keep_running, batch, expired, stop_threads, next_stop,
                 cfd_open, lost, tree, custom, dangling>>

\* The other turn of the loop: no coroutine could be made for the connection,
\* the thread block is recycled, and the loop goes on without closing fd.
AcceptRefused ==
  /\ phase = "accept" /\ cur = NULL
  /\ lost < MaxLost
  /\ lost' = lost + 1
  /\ UNCHANGED <<phase, keep_running, batch, expired, cur, arg, stop_threads,
                 next_stop, cfd_open, thVars, resVars>>

\* accept or recvmsg returned -1
AcceptDone ==
  /\ phase = "accept" /\ cur = NULL
  /\ phase' = "io"
  /\ UNCHANGED <<keep_running, batch, expired, cur, arg, stop_threads,
                 next_stop, cfd_open, lost, thVars, resVars>>

\* asthread_remove_timeout_threads when the root is due, or nothing is: the
\* members that leave the tree are those the walk hands out (which ones they
\* are is the subject of module TimerTree); th->pool keeps its value.  The
\* branch for a root that is not due is LeftBranch.
TakeExpired(p, S) ==
  /\ S \subseteq tree[p]
  /\ expired' = S
  /\ tree' = [tree EXCEPT ![p] = @ \ S]

\* process_io_timeout
ProcessIoTimeout ==
  /\ phase = "io" /\ cur = NULL /\ batch = {}
  /\ \E S \in SUBSET tree["io"] : TakeExpired("io", S)
  /\ phase' = "io_timeout"
  /\ UNCHANGED <<keep_running, batch, cur, arg, stop_threads, next_stop,
                 cfd_open, lost, status, mode, pool, mfd_res, resl, wait,
                 resVars>>

\* faulty variant: a thread in LOOP_SOCKS mode is dropped
IoTimeoutDropsLoop(t) ==
  /\ phase = "io_timeout" /\ cur = NULL /\ t \in expired
  /\ expired' = expired \ {t}
  /\ IF mode[t] = "SIMPLE"
     THEN asthread_remove_res_from_epfd(t) /\ thread_resume(t, "IO_TIMEOUT", NULL)
     ELSE UNCHANGED <<interest, rstatus, cur, arg>>
  /\ UNCHANGED <<phase, keep_running, batch, stop_threads, next_stop, cfd_open,
                 lost, thVars, live, rth, freef, open, watched, custom, dangling>>

\* p_io_timeout_thread on a thread of the removed subtree
IoTimeout(t) ==
  /\ phase = "io_timeout" /\ cur = NULL /\ t \in expired
  /\ expired' = expired \ {t}
  /\ IF ~asthread_th_is_stop(t) /\ mode[t] = "SIMPLE"
     THEN asthread_remove_res_from_epfd(t)
     ELSE UNCHANGED <<interest, rstatus>>
  /\ thread_resume(t, "IO_TIMEOUT", NULL)
  /\ UNCHANGED <<phase, keep_running, batch, stop_threads, next_stop, cfd_open,
                 lost, thVars, live, rth, freef, open, watched, custom, dangling>>

\* process_sleep
ProcessSleep ==
  /\ phase = "io_timeout" /\ cur = NULL /\ expired = {}
  /\ \E S \in SUBSET tree["sleep"] : TakeExpired("sleep", S)
  /\ phase' = "sleep"
  /\ UNCHANGED <<keep_running, batch, cur, arg, stop_threads, next_stop,
                 cfd_open, lost, status, mode, pool, mfd_res, resl, wait,
                 resVars>>

\* p_sleep_thread on a thread of the removed subtree
WakeSleeper(t) ==
  /\ phase = "sleep" /\ cur = NULL /\ t \in expired
  /\ expired' = expired \ {t}
  /\ thread_resume(t, "SLEEP", NULL)
  /\ UNCHANGED <<phase, keep_running, batch, stop_threads, next_stop, cfd_open,
                 lost, thVars, resVars>>

\* faulty variant: the loop index starts one too low
ProcessStopFromZero ==
  /\ phase = "sleep" /\ cur = NULL /\ expired = {}
  /\ phase' = "stop" /\ next_stop' = 0
  /\ UNCHANGED <<keep_running, batch, expired, cur, arg, stop_threads,
                 cfd_open, lost, thVars, resVars>>

\* process_stop_threads is entered at the end of an iteration
ProcessStop ==
  /\ phase = "sleep" /\ cur = NULL /\ expired = {}
  /\ phase' = "stop" /\ next_stop' = 1
  /\ UNCHANGED <<keep_running, batch, expired, cur, arg, stop_threads,
                 cfd_open, lost, thVars, resVars>>

\* one turn of the loop of process_stop_threads
StopOne ==
  /\ phase = "stop" /\ next_stop <= Len(stop_threads)
  /\ FreeThread(stop_threads[next_stop])
  /\ next_stop' = next_stop + 1
  /\ UNCHANGED <<phase, keep_running, batch, expired, cur, arg, stop_threads,
                 cfd_open, lost>>

\* the loop condition is tested again
EndIteration ==
  /\ phase = "stop" /\ next_stop > Len(stop_threads)
  /\ phase' = "poll"
  /\ UNCHANGED <<keep_running, batch, expired, cur, arg, stop_threads,
                 next_stop, cfd_open, lost, thVars, resVars>>

\* SIGINT (test_worker_process only): init_handler, at any point
Sigint ==
  /\ SingleMode /\ keep_running
  /\ keep_running' = FALSE
  /\ UNCHANGED <<phase, batch, expired, cur, arg, stop_threads, next_stop,
                 cfd_open, lost, thVars, resVars>>

\* after the loop: process_stop_threads once more, on the array as it is; it
\* goes through only when the last iteration stopped no thread (FreeTwice)
LeaveLoop ==
  /\ phase = "poll" /\ ~keep_running
  /\ phase' = "final" /\ next_stop' = 1
  /\ UNCHANGED <<keep_running, batch, expired, cur, arg, stop_threads,
                 cfd_open, lost, thVars, resVars>>

\* recycle_threads_from_pool is entered
EndFinal ==
  /\ phase = "final" /\ next_stop > Len(stop_threads)
  /\ phase' = "drain"
  /\ UNCHANGED <<keep_running, batch, expired, cur, arg, stop_threads,
                 next_stop, cfd_open, lost, thVars, resVars>>

\* r_thread_from_pool on a member of io_pool or sleep_pool; the node is not
\* unlinked, the walk just never comes back to it
RecycleFromPool(t) ==
  /\ phase = "drain" /\ status[t] # "FREE"
  /\ t \in tree["io"] \cup tree["sleep"]
  /\ FreeThread(t)
  /\ UNCHANGED loopVars

\* faulty variant: the sleep tree is not walked
EndDrainEarly ==
  /\ phase = "drain"
  /\ \A t \in tree["io"] : status[t] = "FREE"
  /\ phase' = "close"
  /\ UNCHANGED <<keep_running, batch, expired, cur, arg, stop_threads,
                 next_stop, cfd_open, lost, thVars, resVars>>

\* both trees are done; lua_close is entered
EndDrain ==
  /\ phase = "drain"
  /\ \A t \in tree["io"] \cup tree["sleep"] : status[t] = "FREE"
  /\ phase' = "close"
  /\ UNCHANGED <<keep_running, batch, expired, cur, arg, stop_threads,
                 next_stop, cfd_open, lost, thVars, resVars>>

-----------------------------------------------------------------------------
(* What the coroutine of thread t does while it runs: the calls of          *)
(* lm_socket.c, in any order the script likes.                              *)

Running(t) == cur = t /\ t # NULL

\* lcf_socket_new, successful
SocketNew(t, r, added) ==
  /\ Running(t) /\ r \notin live
  /\ live' = live \cup {r}
  /\ rth' = [rth EXCEPT ![r] = t]
  /\ rstatus' = [rstatus EXCEPT ![r] = "IDLE"]
  /\ freef' = [freef EXCEPT ![r] = TRUE]
  /\ open' = open \cup {r}
  /\ watched' = IF added THEN watched \cup {r} ELSE watched
  /\ interest' = [interest EXCEPT ![r] = {}]
  /\ resl' = [resl EXCEPT ![t] = @ \cup {r}]
  /\ custom' = custom \cup {r}
  /\ UNCHANGED <<loopVars, status, mode, pool, tree, mfd_res, wait, dangling>>

\* lcf_socket_new when make_client_socket fails: the block is recycled and
\* sock->res keeps pointing to it
SocketNewFails(t, r) ==
  /\ Running(t) /\ r \notin live
  /\ Cardinality(dangling) < MaxDangling
  /\ dangling' = dangling \cup {r}
  /\ UNCHANGED <<loopVars, thVars, live, rth, rstatus, freef, open, watched,
                 interest, custom>>

\* faulty variant: the resource stays in the thread's list
CloseKeepsListed(r) ==
  /\ open' = IF freef[r] THEN open \ {r} ELSE open
  /\ watched' = IF freef[r] THEN watched \ {r} ELSE watched
  /\ interest' = IF freef[r] THEN [interest EXCEPT ![r] = {}] ELSE interest
  /\ live' = live \ {r}
  /\ UNCHANGED <<resl, rth, rstatus, freef>>

\* lcf_socket_close, the body that is also __gc, on the block r
lcf_socket_close(r) ==
  /\ resl' = IF rth[r] = NULL THEN resl
             ELSE [resl EXCEPT ![rth[r]] = @ \ {r}]
  /\ open' = IF freef[r] THEN open \ {r} ELSE open
  /\ watched' = IF freef[r] THEN watched \ {r} ELSE watched
  /\ interest' = IF freef[r] THEN [interest EXCEPT ![r] = {}] ELSE interest
  /\ live' = live \ {r}
  /\ UNCHANGED <<rth, rstatus, freef>>

\* A suspended coroutine keeps on its stack the socket it waits on.
OnAStack(r) ==
  \E t \in Thread : t # cur /\ status[t] \in {"RUN", "SLEEP"} /\ wait[t].res = r

\* faulty variant: the type is not looked at, and the userdata of get_msock
\* closes the connection like a custom one
CloseAnyType(r) ==
  /\ cur # NULL \/ phase \in {"accept", "close"}
  /\ r \in live /\ ~OnAStack(r)
  /\ lcf_socket_close(r)
  /\ custom' = custom \ {r}
  /\ UNCHANGED <<loopVars, status, mode, pool, tree, mfd_res, wait, dangling>>

\* Lua allocates and collects: in a coroutine that runs, when handle_accept
\* makes the next one, and in lua_close
LuaRuns == cur # NULL \/ phase \in {"accept", "close"}

\* close() called by the script, or __gc run by the collector, on the userdata
\* of a custom socket
SocketClose(r) ==
  /\ LuaRuns
  /\ r \in custom /\ ~OnAStack(r)
  /\ lcf_socket_close(r)
  /\ custom' = custom \ {r}
  /\ UNCHANGED <<loopVars, status, mode, pool, tree, mfd_res, wait, dangling>>

\* Lua, whose allocator takes blocks of the same mem_pool, is given a recycled
\* resource block and writes over it.  Only the blocks that an event of the
\* batch still points to are of interest: no other is read before it is
\* initialised again.
LuaReuses(r) ==
  /\ LuaRuns /\ r \notin live
  /\ \E e \in batch : e.res = r
  /\ rth' = [rth EXCEPT ![r] = JUNK]
  /\ UNCHANGED <<loopVars, thVars, live, rstatus, freef, open, watched,
                 interest, custom, dangling>>

\* __gc on the userdata of a failed lm_socket.new: the same body, on a block
\* that is free or belongs to somebody else by now (not followed when Lua has
\* written over it).  Not a step of Next: the specification SpecGc adds it.
CloseDangling(r) ==
  /\ cur # NULL /\ r \in dangling /\ rth[r] # JUNK
  /\ lcf_socket_close(r)
  /\ dangling' = dangling \ {r}
  /\ UNCHANGED <<loopVars, status, mode, pool, tree, mfd_res, wait, custom>>

\* the arguments of ev_begin: sockets, and the events to wait for on each
EvMaps == UNION {[S -> EvMask] : S \in SUBSET Res}

\* lcf_socket_ev_begin over own sockets, ev giving the events of each
EvBegin(t, ev) ==
  /\ Running(t)
  /\ DOMAIN ev \subseteq resl[t]
  /\ rstatus' = [r \in Res |-> IF r \in DOMAIN ev THEN "EV" ELSE rstatus[r]]
  /\ interest' = [r \in Res |-> IF r \in DOMAIN ev \cap watched THEN ev[r]
                                ELSE interest[r]]
  /\ mode' = [mode EXCEPT ![t] = "LOOP_SOCKS"]
  /\ UNCHANGED <<loopVars, status, pool, tree, mfd_res, resl, wait, live, rth,
                 freef, open, watched, custom, dangling>>

\* lcf_socket_ev_end
EvEnd(t) ==
  /\ Running(t) /\ mode[t] = "LOOP_SOCKS"
  /\ mode' = [mode EXCEPT ![t] = "SIMPLE"]
  /\ asthread_remove_res_from_epfd(t)
  /\ UNCHANGED <<loopVars, status, pool, tree, mfd_res, resl, wait, live, rth,
                 freef, open, watched, custom, dangling>>

\* the coroutine yields: control is back in the loop
Suspend == cur' = NULL /\ arg' = NoArg

\* what the script waits for: sock:read and sock:send (after EAGAIN) refuse
\* LOOP_SOCKS mode; the plain yield of socket.lua's ready_for_read does not
MayYieldForIo(t, k, io) ==
  \/ k = "read" /\ io = "in" /\ mode[t] = "SIMPLE"
  \/ k = "send" /\ io = "out" /\ mode[t] = "SIMPLE"
  \/ k = "yield" /\ io = "in"

\* th_yield_for_io
YieldForIo(t, r, k, io) ==
  /\ Running(t) /\ r \in resl[t]
  /\ MayYieldForIo(t, k, io)
  /\ status' = [status EXCEPT ![t] = "RUN"]
  /\ asthread_th_add_to_pool(t, "io")
  /\ asthread_res_ev_add(r, {io})
  /\ wait' = [wait EXCEPT ![t] = [k |-> k, res |-> r]]
  /\ Suspend
  /\ UNCHANGED <<phase, keep_running, batch, expired, stop_threads, next_stop,
                 cfd_open, lost, mode, mfd_res, resl, live, rth, freef, open,
                 watched, custom, dangling>>

\* th_yield_for_sleep and th_yield_for_ev
YieldForSleep(t, k) ==
  /\ Running(t)
  /\ status' = [status EXCEPT ![t] = "SLEEP"]
  /\ asthread_th_add_to_pool(t, "sleep")
  /\ wait' = [wait EXCEPT ![t] = [k |-> k, res |-> NULL]]
  /\ Suspend
  /\ UNCHANGED <<phase, keep_running, batch, expired, stop_threads, next_stop,
                 cfd_open, lost, mode, mfd_res, resl, resVars>>

\* faulty variant: the thread is recycled at once instead of at the end of
\* the iteration
StopAtOnce(t) ==
  /\ Running(t)
  /\ FreeThread(t)
  /\ Suspend
  /\ UNCHANGED <<phase, keep_running, batch, expired, stop_threads, next_stop,
                 cfd_open, lost>>

\* the coroutine returns, raises an error or yields something else
ThreadStop(t) ==
  /\ Running(t)
  /\ asthread_th_to_stop(t)
  /\ wait' = [wait EXCEPT ![t] = NoWait]
  /\ Suspend
  /\ UNCHANGED <<phase, keep_running, batch, expired, next_stop, cfd_open,
                 lost, mode, mfd_res, resl, resVars>>

\* memp_destroy; the process ends
Finish ==
  /\ phase = "close" /\ custom = {}
  /\ phase' = "done"
  /\ UNCHANGED <<keep_running, batch, expired, cur, arg, stop_threads,
                 next_stop, cfd_open, lost, thVars, resVars>>

Terminated == phase \in {"done", "untracked"} /\ UNCHANGED vars

-----------------------------------------------------------------------------
(* Where the module stops.                                                  *)

Untracked ==
  /\ phase' = "untracked"
  /\ UNCHANGED <<keep_running, batch, expired, cur, arg, stop_threads,
                 next_stop, cfd_open, lost, thVars, resVars>>

MoreThanOne(S) == \E t, u \in S : t # u

\* asthread_remove_timeout_threads on a tree whose root is not due but a node
\* to its left is: the walk climbs out of the cut subtree, hands out threads
\* that are not due, and leaves the root linked (TimerTree!RemoveFromLeft).
\* From here the trees are not the sets of their members any more.
LeftBranch ==
  /\ cur = NULL /\ batch = {} /\ expired = {}
  /\ \/ phase = "io" /\ MoreThanOne(tree["io"])
     \/ phase = "io_timeout" /\ MoreThanOne(tree["sleep"])
  /\ Untracked

\* an event of the batch leads to a block that Lua has written over: res->th
\* is whatever stands there
StaleEvent(r, ev) ==
  /\ phase = "io" /\ cur = NULL
  /\ [res |-> r, ev |-> ev] \in batch /\ rth[r] = JUNK
  /\ Untracked

\* the pass after the loop, when the last iteration stopped a thread: the
\* thread and its mfd_res are recycled a second time, and memp_recycle takes
\* the link of the free list for the block's class
FreeTwice ==
  /\ phase = "final" /\ next_stop <= Len(stop_threads)
  /\ Untracked

\* SIGINT before the first iteration: stop_threads->n was never set
SkipLoop ==
  /\ phase = "start" /\ ~keep_running
  /\ Untracked

-----------------------------------------------------------------------------
LoopStep ==
  \/ EpollWait \/ CloseCfd \/ HandleAccept \/ AcceptRefused \/ AcceptDone
  \/ \E r \in Res, ev \in IO \cup {"err"} : HandleFd(r, ev)
  \/ \E t \in Thread, r \in Res, added \in AddOutcome : Accept(t, r, added)
  \/ ProcessIoTimeout \/ ProcessSleep \/ ProcessStop
  \/ \E t \in Thread : IoTimeout(t) \/ WakeSleeper(t) \/ RecycleFromPool(t)
  \/ StopOne \/ EndIteration \/ LeaveLoop \/ EndFinal \/ EndDrain \/ Finish
  \/ LeftBranch \/ FreeTwice \/ SkipLoop
  \/ \E r \in Res, ev \in IO \cup {"err"} : StaleEvent(r, ev)

\* the steps with which a coroutine gives control back
Leave(t) ==
  \/ \E r \in Res, k \in IoWaits, io \in IO : YieldForIo(t, r, k, io)
  \/ \E k \in SleepWaits : YieldForSleep(t, k)
  \/ ThreadStop(t)

LuaStep(t) ==
  \/ \E r \in Res, added \in AddOutcome : SocketNew(t, r, added)
  \/ \E r \in Res : SocketNewFails(t, r)
  \/ \E ev \in EvMaps : EvBegin(t, ev)
  \/ EvEnd(t)
  \/ Leave(t)

Next ==
  \/ LoopStep
  \/ \E t \in Thread : LuaStep(t)
  \/ \E r \in Res : SocketClose(r) \/ LuaReuses(r)
  \/ Sigint
  \/ Terminated

Spec == Init /\ [][Next]_vars

\* with the collection of the userdata a failed connect leaves behind
SpecGc == Init /\ [][Next \/ \E r \in Res : CloseDangling(r)]_vars

\* The loop goes on by itself, and a script gives control back after finitely
\* many calls (an assumption on the scripts: the loop has no preemption).
Fairness ==
  /\ WF_vars(LoopStep)
  /\ \A t \in Thread : WF_vars(Leave(t))

FairSpec == Spec /\ Fairness

-----------------------------------------------------------------------------
(* Properties.                                                              *)

\* Type correctness of the loop's, the threads' and the resources' state; the
\* index of process_stop_threads is that of an element.
TypeOK ==
  /\ phase \in Phases /\ keep_running \in BOOLEAN
  /\ batch \subseteq [res : Res \cup {cfd}, ev : IO \cup {"err"}]
  /\ expired \subseteq Thread /\ cur \in Thread \cup {NULL}
  /\ arg \in [type : {"NONE", "IO", "IO_ERROR", "IO_TIMEOUT", "SLEEP"},
              res : Res \cup {NULL}]
  /\ stop_threads \in Seq(Thread) /\ next_stop \in Nat \ {0}
  /\ cfd_open \in BOOLEAN /\ lost \in Nat
  /\ status \in [Thread -> {"FREE", "READY", "RUN", "SLEEP", "STOP"}]
  /\ mode \in [Thread -> {"SIMPLE", "LOOP_SOCKS"}]
  /\ pool \in [Thread -> Pools \cup {NULL}]
  /\ tree \in [Pools -> SUBSET Thread]
  /\ mfd_res \in [Thread -> Res \cup {NULL}]
  /\ resl \in [Thread -> SUBSET Res]
  /\ wait \in [Thread -> [k : IoWaits \cup SleepWaits \cup {"start"},
                          res : Res \cup {NULL}]]
  /\ live \subseteq Res
  /\ rth \in [Res -> Thread \cup {NULL, JUNK}]
  /\ rstatus \in [Res -> {"IDLE", "EV"}]
  /\ freef \in [Res -> BOOLEAN]
  /\ open \subseteq Res /\ watched \subseteq Res
  /\ interest \in [Res -> SUBSET IO]
  /\ custom \subseteq Res /\ dangling \subseteq Res

\* process_io follows events[i].data.ptr and res->th without any check.  An
\* event still to be handled leads to a thread that has not been recycled,
\* although an earlier handler of the same batch may have stopped that thread,
\* or closed the resource and given its block to another connection.  The one
\* thing that breaks this is Lua taking the block of a closed resource: a
\* block that is still allocated never loses its thread that way.
EventsOwned ==
  \A e \in batch : e.res # cfd =>
    rth[e.res] \in Allocated \/ (rth[e.res] = JUNK /\ e.res \notin live)

Looping == phase \notin {"drain", "close", "done", "untracked"}

\* The places from which a suspended or running thread can still be reached.
InOnePlace(t) ==
  \/ /\ t = cur
     /\ t \notin expired \cup tree["io"] \cup tree["sleep"]
  \/ /\ t \in expired
     /\ t # cur /\ t \notin tree["io"] \cup tree["sleep"]
  \/ /\ t \in tree["io"]
     /\ t # cur /\ t \notin expired \cup tree["sleep"]
  \/ /\ t \in tree["sleep"]
     /\ t # cur /\ t \notin expired \cup tree["io"]

\* No thread is lost and none is reachable twice: as long as the loop runs and
\* has not cut a tree below its root (LeftBranch), a thread that has not
\* stopped is the running one, or waits in exactly one timer tree, or has just
\* been taken out of one; a thread that has stopped, or was recycled, is in
\* none of them.
ThreadReachableOnce ==
  Looping =>
    \A t \in Thread :
      IF status[t] \in {"FREE", "STOP"}
      THEN t # cur /\ t \notin expired \cup tree["io"] \cup tree["sleep"]
      ELSE InOnePlace(t)

\* When an event is about to be handled, th->pool names the tree the thread
\* really is in (asthread_th_del_from_pool runs rb_tree_delete on it without
\* looking); only a thread already resumed or taken out by a timeout has a
\* pool that is out of date.  Like ThreadReachableOnce this is about the
\* behaviours before LeftBranch.
PoolPointerValid ==
  Looping =>
    \A t \in Allocated :
      /\ \A p \in Pools : t \in tree[p] => pool[t] = p
      /\ pool[t] # NULL /\ t # cur /\ t \notin expired => t \in tree[pool[t]]

\* Every stopped thread is in the part of stop_threads that is still to be
\* processed, exactly once: process_stop_threads recycles each thread once
\* and forgets none (the loop, not the extra pass after it).
StopQueueSound ==
  phase \notin {"start", "poll", "final", "drain", "close", "done",
                "untracked"} =>
    LET first == IF phase = "stop" THEN next_stop ELSE 1
    IN  /\ \A i, j \in 1 .. Len(stop_threads) :
             stop_threads[i] = stop_threads[j] => i = j
        /\ \A t \in Thread :
             status[t] = "STOP" <=>
               \E i \in first .. Len(stop_threads) : stop_threads[i] = t

\* th->resl of an allocated thread lists only allocated blocks that point
\* back to it: asthread_th_free closes the fds of this thread and of no other.
ResListSound ==
  \A t \in Allocated : \A r \in resl[t] : r \in live /\ rth[r] = t

\* An fd that was put in a resource and is open belongs to a listed resource of
\* an allocated thread whose freef is set, so that stopping the thread closes
\* it.  The fds counted by lost are in no resource: those do leak.
OpenFdOwned ==
  \A r \in open : r \in live /\ freef[r] /\ rth[r] \in Allocated
                    /\ r \in resl[rth[r]]

\* The connection a thread was started for is its own, open and allocated
\* until the thread is recycled: nothing but asthread_th_free closes it.
ConnectionHeld ==
  \A t \in Allocated : mfd_res[t] \in (live \cap open \cap resl[t]) \ custom

\* A socket userdata that outlives its thread sees res->th = NULL, never a
\* recycled thread (lcf_socket_close unlinks from res->th).
UserdataOwnerLive ==
  \A r \in custom : r \in live /\ rth[r] \in Allocated \cup {NULL}

\* When process() gets to its end, every fd that was put in a thread's resource
\* is closed and every thread and resource is back in the memory pool, whatever
\* the coroutines were doing at SIGINT.  It does not get there when the last
\* iteration stopped a thread (FreeTwice) or there was none (SkipLoop), and it
\* closes neither the fds counted by lost nor cfd and epfd.
NothingLeftAtExit ==
  phase = "done" =>
    Allocated = {} /\ open = {} /\ live = {} /\ watched = {}

\* The code passed to a resumed coroutine is one its continuation expects:
\* a sleeper never gets IO_TIMEOUT and a reader never gets SLEEP, as long as
\* no tree was cut below its root (LeftBranch).  An event of a socket, which
\* may also reach a sleeper, is not the subject here.
ResumeCodeFits ==
  cur # NULL =>
    /\ arg.type = "IO_TIMEOUT" => wait[cur].k \in IoWaits
    /\ arg.type = "SLEEP" => wait[cur].k \in SleepWaits

\* A coroutine waiting in sock:read is resumed by an event of that socket
\* (k_socket_read reads from the resource of the event).
WokenByAwaited ==
  cur # NULL /\ arg.type = "IO" /\ wait[cur].k \in {"read", "send"}
    => arg.res = wait[cur].res

\* The pass of process_stop_threads after the loop recycles no thread that
\* has been recycled before.
FinalPassFreesOnce ==
  phase = "final" =>
    \A i \in next_stop .. Len(stop_threads) : status[stop_threads[i]] # "FREE"

-----------------------------------------------------------------------------
(* The inductive invariant: the invariants above and what they rest on.      *)

\* which parts of the loop's own state are in use in which phase
PhaseSound ==
  /\ batch # {} => phase \in {"io", "accept", "untracked"}
  /\ cur # NULL => phase \in {"io", "accept", "io_timeout", "sleep"}
  /\ expired # {} => phase \in {"io_timeout", "sleep"}

\* a watched fd is open, a recycled thread block refers to nothing, and an
\* allocated resource has exactly one kind of owner that will recycle it
BlocksSound ==
  /\ watched \subseteq open
  /\ \A t \in Thread \ Allocated : resl[t] = {} /\ mfd_res[t] = NULL
  /\ \A r \in live : r \in custom \/ \E t \in Allocated : mfd_res[t] = r
  /\ \A r \in custom : rth[r] # NULL => r \in resl[rth[r]]

\* the threads handed to process_stop_threads: none is left when the
\* iteration ends, and those before the index have been recycled
StopsDone ==
  /\ phase \in {"start", "poll", "final", "drain", "close", "done"} =>
       \A t \in Thread : status[t] # "STOP"
  /\ phase \in {"poll", "final"} =>
       \A i \in 1 .. Len(stop_threads) : status[stop_threads[i]] = "FREE"
  /\ phase = "stop" =>
       \A i \in 1 .. Len(stop_threads) :
          i < next_stop => status[stop_threads[i]] = "FREE"

\* a member of the io tree is in an io wait, a member of the sleep tree is not
WaitsSound ==
  /\ Looping =>
       /\ \A t \in tree["io"] : wait[t].k \in IoWaits
       /\ \A t \in tree["sleep"] : wait[t].k \in SleepWaits
  /\ phase = "io_timeout" => \A t \in expired : wait[t].k \in IoWaits
  /\ phase = "sleep" => \A t \in expired : wait[t].k \in SleepWaits

\* what is left to recycle once the loop is over
ExitSound ==
  /\ phase = "drain" => Allocated \subseteq tree["io"] \cup tree["sleep"]
  /\ phase \in {"close", "done"} => Allocated = {}
  /\ phase = "done" => custom = {}

ResSound == /\ ResListSound /\ OpenFdOwned /\ ConnectionHeld
            /\ UserdataOwnerLive /\ BlocksSound

PlaceSound == ThreadReachableOnce /\ PoolPointerValid /\ ExitSound

IInv ==
  /\ TypeOK /\ PhaseSound /\ EventsOwned /\ ResSound /\ PlaceSound
  /\ StopQueueSound /\ StopsDone /\ WaitsSound /\ ResumeCodeFits

\* A stopped thread is eventually recycled, together with its fds, unless a
\* tree is cut below its root before the end of the iteration (LeftBranch).
StopsAreFreed ==
  \A t \in Thread :
    status[t] = "STOP" ~> status[t] = "FREE" \/ phase = "untracked"

\* A thread taken out of a timer tree is eventually resumed: it is in no
\* tree and no event has to come for it, so nothing else would wake it.
ExpiredAreResumed ==
  \A t \in Thread : t \in expired ~> cur = t

=============================================================================
