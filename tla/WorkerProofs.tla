---------------------------- MODULE WorkerProofs ----------------------------
(***************************************************************************)
(* Proofs about one worker process, for any number of threads, resources   *)
(* and events, with and without SIGINT, failed connects and failed         *)
(* registrations.  IInv of module Worker is the inductive invariant: its   *)
(* parts are shown to be kept one after the other, each from the whole.    *)
(* Like the module they are about the behaviours before LeftBranch,        *)
(* StaleEvent, FreeTwice and SkipLoop, each of which is shown to keep IInv *)
(* and ends in the phase "untracked", where little is claimed.             *)
(***************************************************************************)
EXTENDS Worker, TLAPS

USE WorkerAssumption

\* Freeing a thread keeps the types of the variables it changes.
LEMMA FreeThreadType ==
  ASSUME TypeOK, NEW t \in Thread, FreeThread(t)
  PROVE  /\ status' \in [Thread -> {"FREE", "READY", "RUN", "SLEEP", "STOP"}]
         /\ mode' \in [Thread -> {"SIMPLE", "LOOP_SOCKS"}]
         /\ pool' \in [Thread -> Pools \cup {NULL}]
         /\ tree' \in [Pools -> SUBSET Thread]
         /\ mfd_res' \in [Thread -> Res \cup {NULL}]
         /\ resl' \in [Thread -> SUBSET Res]
         /\ wait' \in [Thread -> [k : IoWaits \cup SleepWaits \cup {"start"},
                                  res : Res \cup {NULL}]]
         /\ live' \subseteq Res
         /\ rth' \in [Res -> Thread \cup {NULL, JUNK}]
         /\ rstatus' \in [Res -> {"IDLE", "EV"}]
         /\ freef' \in [Res -> BOOLEAN]
         /\ open' \subseteq Res /\ watched' \subseteq Res
         /\ interest' \in [Res -> SUBSET IO]
         /\ custom' \subseteq Res /\ dangling' \subseteq Res
<1>1. /\ rth' \in [Res -> Thread \cup {NULL, JUNK}]
      /\ open' \subseteq Res /\ watched' \subseteq Res
  BY DEF TypeOK, FreeThread, asthread_th_free
<1>6. freef' \in [Res -> BOOLEAN]
  BY DEF TypeOK, FreeThread, asthread_th_free
<1>2. interest' \in [Res -> SUBSET IO]
  BY DEF TypeOK, FreeThread, asthread_th_free
<1>3. /\ status' \in [Thread -> {"FREE", "READY", "RUN", "SLEEP", "STOP"}]
      /\ mode' \in [Thread -> {"SIMPLE", "LOOP_SOCKS"}]
      /\ mfd_res' \in [Thread -> Res \cup {NULL}]
      /\ resl' \in [Thread -> SUBSET Res]
  BY DEF TypeOK, FreeThread
<1>4. wait' \in [Thread -> [k : IoWaits \cup SleepWaits \cup {"start"},
                           res : Res \cup {NULL}]]
  BY DEF TypeOK, FreeThread, NoWait
<1>5. /\ pool' \in [Thread -> Pools \cup {NULL}] /\ tree' \in [Pools -> SUBSET Thread]
      /\ live' \subseteq Res /\ rstatus' \in [Res -> {"IDLE", "EV"}]
      /\ custom' \subseteq Res /\ dangling' \subseteq Res
  BY DEF TypeOK, FreeThread
<1> QED
  BY <1>1, <1>2, <1>3, <1>4, <1>5, <1>6

\* asthread_th_del_from_pool keeps the types of pool and tree.
LEMMA DelFromPoolType ==
  ASSUME TypeOK, NEW t \in Thread, asthread_th_del_from_pool(t)
  PROVE  /\ pool' \in [Thread -> Pools \cup {NULL}]
         /\ tree' \in [Pools -> SUBSET Thread]
<1>1. pool \in [Thread -> Pools \cup {NULL}] /\ tree \in [Pools -> SUBSET
     Thread]
  BY DEF TypeOK
<1> QED
  BY <1>1 DEF asthread_th_del_from_pool

\* asthread_remove_res_from_epfd keeps the types of interest and rstatus.
LEMMA RemoveResType ==
  ASSUME TypeOK, NEW t, asthread_remove_res_from_epfd(t)
  PROVE  /\ interest' \in [Res -> SUBSET IO]
         /\ rstatus' \in [Res -> {"IDLE", "EV"}]
<1>1. interest \in [Res -> SUBSET IO] /\ rstatus \in [Res -> {"IDLE", "EV"}]
  BY DEF TypeOK
<1> QED
  BY <1>1 DEF asthread_remove_res_from_epfd

\* Every step keeps the types (an event handler needs EventsOwned: it follows
\* res->th).
LEMMA TypeStep == ASSUME TypeOK, EventsOwned, [Next]_vars PROVE TypeOK'
<1> USE DEF TypeOK, IO, Pools, IoWaits, SleepWaits, Phases, NoArg, NoWait,
     vars, loopVars, thVars, resVars
<1>1. CASE EpollWait
  BY <1>1 DEF EpollWait, Batches, Reportable
<1>2. CASE CloseCfd
  BY <1>2 DEF CloseCfd
<1>3. CASE HandleAccept
  BY <1>3 DEF HandleAccept
<1>4. CASE AcceptDone
  BY <1>4 DEF AcceptDone
<1>5. ASSUME NEW r \in Res, NEW ev \in IO \cup {"err"}, HandleFd(r, ev) PROVE
     TypeOK'
  <2> DEFINE e == [res |-> r, ev |-> ev]
  <2>0. e \in batch /\ e.res = r /\ r # cfd
    BY <1>5 DEF HandleFd
  <2>1. rth[r] \in Thread
    BY <1>5, <2>0 DEF EventsOwned, Allocated, HandleFd
  <2> DEFINE t == rth[r]
  <2>2. CASE asthread_th_is_stop(t)
    BY <1>5, <2>1, <2>2 DEF HandleFd
  <2>3. CASE ~asthread_th_is_stop(t)
    <3>0. asthread_th_del_from_pool(t)
      BY <1>5, <2>3 DEF HandleFd
    <3>1. /\ pool' \in [Thread -> Pools \cup {NULL}]
          /\ tree' \in [Pools -> SUBSET Thread]
      BY <3>0, <2>1, DelFromPoolType
    <3>2. /\ interest' \in [Res -> SUBSET IO]
          /\ rstatus' \in [Res -> {"IDLE", "EV"}]
      BY <1>5, <2>3, RemoveResType DEF HandleFd
    <3>3. /\ cur' \in Thread \cup {NULL}
          /\ arg' \in [type : {"NONE", "IO", "IO_ERROR", "IO_TIMEOUT", "SLEEP"},
                       res : Res \cup {NULL}]
      BY <1>5, <2>1, <2>3 DEF HandleFd, thread_resume
    <3> QED
      BY <1>5, <2>3, <3>1, <3>2, <3>3 DEF HandleFd
  <2> QED
    BY <2>2, <2>3
<1>6. ASSUME NEW t \in Thread, NEW r \in Res, NEW added \in AddOutcome,
     Accept(t, r, added) PROVE TypeOK'
  BY <1>6 DEF Accept
<1>7. CASE ProcessIoTimeout
  BY <1>7 DEF ProcessIoTimeout, TakeExpired
<1>8. CASE ProcessSleep
  BY <1>8 DEF ProcessSleep, TakeExpired
<1>9. CASE ProcessStop
  BY <1>9 DEF ProcessStop
<1>10. ASSUME NEW t \in Thread, IoTimeout(t) PROVE TypeOK'
  BY <1>10 DEF IoTimeout, asthread_remove_res_from_epfd, thread_resume,
       asthread_th_is_stop
<1>11. ASSUME NEW t \in Thread, WakeSleeper(t) PROVE TypeOK'
  BY <1>11 DEF WakeSleeper, thread_resume, asthread_th_is_stop
<1>12. ASSUME NEW t \in Thread, RecycleFromPool(t) PROVE TypeOK'
  BY <1>12, FreeThreadType DEF RecycleFromPool
<1>13. CASE StopOne
  <2>1. stop_threads[next_stop] \in Thread
    BY <1>13 DEF StopOne
  <2> QED
    BY <1>13, <2>1, FreeThreadType DEF StopOne
<1>14. CASE EndIteration
  BY <1>14 DEF EndIteration
<1>15. CASE LeaveLoop
  BY <1>15 DEF LeaveLoop
<1>16. CASE EndFinal
  BY <1>16 DEF EndFinal
<1>17. CASE EndDrain
  BY <1>17 DEF EndDrain
<1>18. CASE Finish
  BY <1>18 DEF Finish
<1>19. ASSUME NEW t \in Thread, NEW r \in Res, NEW added \in AddOutcome,
     SocketNew(t, r, added) PROVE TypeOK'
  BY <1>19 DEF SocketNew, Running
<1>20. ASSUME NEW t \in Thread, NEW r \in Res, SocketNewFails(t, r) PROVE
     TypeOK'
  BY <1>20 DEF SocketNewFails, Running
<1>21. ASSUME NEW t \in Thread, NEW ev \in EvMaps, EvBegin(t, ev) PROVE TypeOK'
  <2>1. ev \in [DOMAIN ev -> SUBSET IO]
    BY DEF EvMaps
  <2> QED
    BY <1>21, <2>1 DEF EvBegin
<1>22. ASSUME NEW t \in Thread, EvEnd(t) PROVE TypeOK'
  BY <1>22 DEF EvEnd, Running, asthread_remove_res_from_epfd
<1>23. ASSUME NEW t \in Thread, NEW r \in Res, NEW k \in IoWaits, NEW io \in
     IO, YieldForIo(t, r, k, io) PROVE TypeOK'
  BY <1>23 DEF YieldForIo, Running, Suspend, asthread_th_add_to_pool,
       asthread_res_ev_add
<1>24. ASSUME NEW t \in Thread, NEW k \in SleepWaits, YieldForSleep(t, k)
     PROVE TypeOK'
  BY <1>24 DEF YieldForSleep, Running, Suspend, asthread_th_add_to_pool
<1>25. ASSUME NEW t \in Thread, ThreadStop(t) PROVE TypeOK'
  BY <1>25 DEF ThreadStop, Running, Suspend, asthread_th_to_stop
<1>26. ASSUME NEW r \in Res, SocketClose(r) PROVE TypeOK'
  <2>1. resl' \in [Thread -> SUBSET Res]
    BY <1>26 DEF SocketClose, lcf_socket_close
  <2>2. interest' \in [Res -> SUBSET IO]
    BY <1>26 DEF SocketClose, lcf_socket_close
  <2>3. /\ open' \subseteq Res /\ watched' \subseteq Res /\ live' \subseteq Res
        /\ custom' \subseteq Res /\ UNCHANGED <<rth, rstatus, freef, dangling>>
    BY <1>26 DEF SocketClose, lcf_socket_close
  <2>4. UNCHANGED <<loopVars, status, mode, pool, tree, mfd_res, wait>>
    BY <1>26 DEF SocketClose
  <2> QED
    BY <2>1, <2>2, <2>3, <2>4
<1>27. CASE Sigint
  BY <1>27 DEF Sigint
<1>28. CASE Terminated
  BY <1>28 DEF Terminated
<1>29. CASE UNCHANGED vars
  BY <1>29
<1>30. CASE AcceptRefused
  BY <1>30 DEF AcceptRefused
<1>31. CASE LeftBranch
  BY <1>31 DEF LeftBranch, Untracked
<1>32. CASE FreeTwice
  BY <1>32 DEF FreeTwice, Untracked
<1>33. CASE SkipLoop
  BY <1>33 DEF SkipLoop, Untracked
<1>34. ASSUME NEW r \in Res, NEW ev \in IO \cup {"err"}, StaleEvent(r, ev)
      PROVE  TypeOK'
  BY <1>34 DEF StaleEvent, Untracked
<1>35. ASSUME NEW r \in Res, LuaReuses(r)
      PROVE  TypeOK'
  BY <1>35 DEF LuaReuses, LuaRuns
<1> HIDE DEF TypeOK, IO, Pools, IoWaits, SleepWaits, Phases, NoArg, NoWait
<1> QED
  BY <1>1, <1>2, <1>3, <1>4, <1>5, <1>6, <1>7, <1>8, <1>9, <1>10, <1>11,
       <1>12, <1>13, <1>14, <1>15, <1>16, <1>17, <1>18, <1>19, <1>20, <1>21,
       <1>22, <1>23, <1>24, <1>25, <1>26, <1>27, <1>28, <1>29,
       <1>30, <1>31, <1>32, <1>33, <1>34, <1>35 DEF Next,
       LoopStep, LuaStep, Leave

\* The thread whose coroutine runs is allocated and has not stopped.
LEMMA CurAllocated ==
  ASSUME TypeOK, PhaseSound, ThreadReachableOnce
  PROVE  cur # NULL => cur \in Allocated /\ status[cur] # "STOP"
BY DEF TypeOK, PhaseSound, ThreadReachableOnce, Looping, Allocated

\* Freeing a thread keeps the ownership invariants of the resources: no other
\* thread lists one of its resources, so closing them disturbs nobody.
LEMMA FreeThreadRes ==
  ASSUME TypeOK, ResSound, NEW t \in Thread, FreeThread(t)
  PROVE  ResSound'
<1> DEFINE closed == {r \in resl[t] : freef[r]}
<1>1. Allocated' = Allocated \ {t}
  BY DEF TypeOK, FreeThread, Allocated
<1>2. \A s \in Allocated \ {t} : resl'[s] = resl[s] /\ mfd_res'[s] = mfd_res[s]
  BY DEF TypeOK, FreeThread, Allocated
<1>3. \A s \in Allocated \ {t} : \A r \in resl[s] : r \notin resl[t] /\ r #
     mfd_res[t]
  BY DEF TypeOK, ResSound, ResListSound, BlocksSound, ConnectionHeld, Allocated
<1>4. /\ open' = open \ closed /\ watched' = watched \ closed
      /\ live' = live \ {mfd_res[t]} /\ custom' = custom
  BY DEF FreeThread, asthread_th_free
<1>5. \A r \in Res : rth'[r] = IF r \in resl[t] THEN NULL ELSE rth[r]
  BY DEF TypeOK, FreeThread, asthread_th_free
<1>5a. \A r \in Res : r \notin resl[t] => freef'[r] = freef[r]
  BY DEF TypeOK, FreeThread, asthread_th_free
<1>6. ResListSound'
  <2> SUFFICES ASSUME NEW s \in Allocated \ {t}, NEW r \in resl[s]
               PROVE  r \in live' /\ rth'[r] = s
    BY <1>1, <1>2 DEF ResListSound
  <2>1. r \in Res /\ r \in live /\ rth[r] = s
    BY DEF ResSound, ResListSound, TypeOK, Allocated
  <2> QED
    BY <2>1, <1>3, <1>4, <1>5
<1>7. OpenFdOwned'
  <2> SUFFICES ASSUME NEW r \in open'
               PROVE  /\ r \in live' /\ freef'[r] /\ rth'[r] \in Allocated'
                      /\ r \in resl'[rth'[r]]
    BY DEF OpenFdOwned
  <2>1. r \in Res /\ r \in open /\ r \notin closed /\ freef[r] /\ rth[r] \in
       Allocated /\ r \in resl[rth[r]] /\ r \in live
    BY <1>4 DEF ResSound, OpenFdOwned, TypeOK
  <2>2. rth[r] # t
    BY <2>1
  <2>3. r \notin resl[t] /\ r # mfd_res[t]
    BY <2>1, <2>2, <1>3
  <2>4. rth'[r] = rth[r]
    BY <2>1, <2>3, <1>5
  <2>5. freef'[r]
    BY <2>1, <2>3, <1>5a
  <2> QED
    BY <2>1, <2>2, <2>3, <2>4, <2>5, <1>1, <1>2, <1>4
<1>8. ConnectionHeld'
  BY <1>1, <1>2, <1>3, <1>4 DEF ResSound, ConnectionHeld
<1>9. UserdataOwnerLive'
  <2> SUFFICES ASSUME NEW r \in custom
               PROVE  r \in live' /\ rth'[r] \in Allocated' \cup {NULL}
    BY <1>4 DEF UserdataOwnerLive
  <2>1. r \in Res /\ r \in live /\ rth[r] \in Allocated \cup {NULL}
    BY DEF ResSound, UserdataOwnerLive, TypeOK
  <2>2. r # mfd_res[t]
    <3>1. CASE t \in Allocated
      BY <3>1 DEF ResSound, ConnectionHeld
    <3>2. CASE t \notin Allocated
      BY <2>1, <3>2 DEF ResSound, BlocksSound
    <3> QED
      BY <3>1, <3>2
  <2>3. r \notin resl[t] => rth[r] # t
    BY <2>1 DEF ResSound, BlocksSound
  <2> QED
    BY <2>1, <2>2, <2>3, <1>1, <1>4, <1>5
<1>10. BlocksSound'
  BY <1>1, <1>2, <1>3, <1>4, <1>5 DEF ResSound, BlocksSound, TypeOK,
       FreeThread, Allocated
<1> QED
  BY <1>6, <1>7, <1>8, <1>9, <1>10 DEF ResSound

\* Every step keeps the ownership invariants of the resources.
LEMMA ResSoundStep ==
  ASSUME TypeOK, PhaseSound, ThreadReachableOnce, ResSound, [Next]_vars
  PROVE  ResSound'
<1> USE DEF ResSound, ResListSound, OpenFdOwned, ConnectionHeld,
     UserdataOwnerLive, BlocksSound, Allocated, loopVars, thVars, resVars,
     vars
<1>1. CASE EpollWait
  BY <1>1 DEF EpollWait, Batches, Reportable
<1>2. CASE CloseCfd
  BY <1>2 DEF CloseCfd
<1>3. CASE HandleAccept
  BY <1>3 DEF HandleAccept
<1>4. CASE AcceptDone
  BY <1>4 DEF AcceptDone
<1>5. ASSUME NEW r \in Res, NEW ev \in IO \cup {"err"}, HandleFd(r, ev)
      PROVE  ResSound'
  BY <1>5, CurAllocated DEF TypeOK, HandleFd, asthread_th_del_from_pool,
       asthread_remove_res_from_epfd, thread_resume, asthread_th_is_stop
<1>6. ASSUME NEW t \in Thread, NEW r \in Res, NEW added \in AddOutcome,
     Accept(t, r, added)
      PROVE  ResSound'
  BY <1>6, CurAllocated DEF TypeOK, Accept
<1>7. CASE ProcessIoTimeout
  BY <1>7 DEF ProcessIoTimeout, TakeExpired
<1>8. CASE ProcessSleep
  BY <1>8 DEF ProcessSleep, TakeExpired
<1>9. CASE ProcessStop
  BY <1>9 DEF ProcessStop
<1>10. ASSUME NEW t \in Thread, IoTimeout(t)
      PROVE  ResSound'
  BY <1>10, CurAllocated DEF TypeOK, IoTimeout, asthread_remove_res_from_epfd,
       thread_resume, asthread_th_is_stop
<1>11. ASSUME NEW t \in Thread, WakeSleeper(t)
      PROVE  ResSound'
  BY <1>11 DEF WakeSleeper, thread_resume, asthread_th_is_stop
<1>12. ASSUME NEW t \in Thread, RecycleFromPool(t)
      PROVE  ResSound'
  BY <1>12, FreeThreadRes DEF RecycleFromPool
<1>13. CASE StopOne
  <2>1. stop_threads[next_stop] \in Thread
    BY <1>13 DEF StopOne, TypeOK
  <2> QED
    BY <1>13, <2>1, FreeThreadRes DEF StopOne
<1>14. CASE EndIteration
  BY <1>14 DEF EndIteration
<1>15. CASE LeaveLoop
  BY <1>15 DEF LeaveLoop
<1>16. CASE EndFinal
  BY <1>16 DEF EndFinal
<1>17. CASE EndDrain
  BY <1>17 DEF EndDrain
<1>18. CASE Finish
  BY <1>18 DEF Finish
<1>19. ASSUME NEW t \in Thread, NEW r \in Res, NEW added \in AddOutcome,
     SocketNew(t, r, added)
      PROVE  ResSound'
  BY <1>19, CurAllocated DEF TypeOK, SocketNew, Running
<1>20. ASSUME NEW t \in Thread, NEW r \in Res, SocketNewFails(t, r)
      PROVE  ResSound'
  BY <1>20 DEF SocketNewFails, Running
<1>21. ASSUME NEW t \in Thread, NEW ev \in EvMaps, EvBegin(t, ev)
      PROVE  ResSound'
  BY <1>21 DEF EvBegin, Running, EvMaps
<1>22. ASSUME NEW t \in Thread, EvEnd(t)
      PROVE  ResSound'
  BY <1>22 DEF EvEnd, Running, asthread_remove_res_from_epfd
<1>23. ASSUME NEW t \in Thread, NEW r \in Res, NEW k \in IoWaits, NEW io \in
     IO, YieldForIo(t, r, k, io)
      PROVE  ResSound'
  BY <1>23, CurAllocated DEF TypeOK, YieldForIo, Running, Suspend,
       asthread_th_add_to_pool, asthread_res_ev_add
<1>24. ASSUME NEW t \in Thread, NEW k \in SleepWaits, YieldForSleep(t, k)
      PROVE  ResSound'
  BY <1>24, CurAllocated DEF TypeOK, YieldForSleep, Running, Suspend,
       asthread_th_add_to_pool
<1>25. ASSUME NEW t \in Thread, ThreadStop(t)
      PROVE  ResSound'
  BY <1>25, CurAllocated DEF TypeOK, ThreadStop, Running, Suspend,
       asthread_th_to_stop
<1>26. ASSUME NEW r \in Res, SocketClose(r)
      PROVE  ResSound'
  BY <1>26, CurAllocated DEF TypeOK, SocketClose, LuaRuns, lcf_socket_close
<1>27. CASE Sigint
  BY <1>27 DEF Sigint
<1>28. CASE Terminated
  BY <1>28 DEF Terminated
<1>29. CASE UNCHANGED vars
  BY <1>29
<1>30. CASE AcceptRefused
  BY <1>30 DEF AcceptRefused
<1>31. CASE LeftBranch
  BY <1>31 DEF LeftBranch, Untracked
<1>32. CASE FreeTwice
  BY <1>32 DEF FreeTwice, Untracked
<1>33. CASE SkipLoop
  BY <1>33 DEF SkipLoop, Untracked
<1>34. ASSUME NEW r \in Res, NEW ev \in IO \cup {"err"}, StaleEvent(r, ev)
      PROVE  ResSound'
  BY <1>34 DEF StaleEvent, Untracked
<1>35. ASSUME NEW r \in Res, LuaReuses(r)
      PROVE  ResSound'
  BY <1>35 DEF LuaReuses, LuaRuns
<1> HIDE DEF ResSound, ResListSound, OpenFdOwned, ConnectionHeld,
     UserdataOwnerLive, BlocksSound, Allocated, loopVars, thVars, resVars,
     vars
<1> QED
  BY <1>1, <1>2, <1>3, <1>4, <1>5, <1>6, <1>7, <1>8, <1>9, <1>10,
     <1>11, <1>12, <1>13, <1>14, <1>15, <1>16, <1>17, <1>18, <1>19, <1>20,
     <1>21, <1>22, <1>23, <1>24, <1>25, <1>26, <1>27, <1>28, <1>29,
     <1>30, <1>31, <1>32, <1>33, <1>34, <1>35
     DEF Next, LoopStep, LuaStep, Leave

\* Every step keeps batch, cur and expired empty outside their phases.
LEMMA PhaseStep == ASSUME TypeOK, PhaseSound, [Next]_vars PROVE PhaseSound'
<1> USE DEF PhaseSound, loopVars, thVars, resVars, vars
<1>1. CASE EpollWait
  BY <1>1 DEF EpollWait, Batches, Reportable
<1>2. CASE CloseCfd
  BY <1>2 DEF CloseCfd
<1>3. CASE HandleAccept
  BY <1>3 DEF HandleAccept
<1>4. CASE AcceptDone
  BY <1>4 DEF AcceptDone
<1>5. ASSUME NEW r \in Res, NEW ev \in IO \cup {"err"}, HandleFd(r, ev)
      PROVE  PhaseSound'
  BY <1>5 DEF HandleFd, asthread_th_del_from_pool,
       asthread_remove_res_from_epfd, thread_resume, asthread_th_is_stop
<1>6. ASSUME NEW t \in Thread, NEW r \in Res, NEW added \in AddOutcome,
     Accept(t, r, added)
      PROVE  PhaseSound'
  BY <1>6 DEF Accept
<1>7. CASE ProcessIoTimeout
  BY <1>7 DEF ProcessIoTimeout, TakeExpired
<1>8. CASE ProcessSleep
  BY <1>8 DEF ProcessSleep, TakeExpired
<1>9. CASE ProcessStop
  BY <1>9 DEF ProcessStop
<1>10. ASSUME NEW t \in Thread, IoTimeout(t)
      PROVE  PhaseSound'
  BY <1>10 DEF IoTimeout, asthread_remove_res_from_epfd, thread_resume,
       asthread_th_is_stop
<1>11. ASSUME NEW t \in Thread, WakeSleeper(t)
      PROVE  PhaseSound'
  BY <1>11 DEF WakeSleeper, thread_resume, asthread_th_is_stop
<1>12. ASSUME NEW t \in Thread, RecycleFromPool(t)
      PROVE  PhaseSound'
  BY <1>12 DEF RecycleFromPool, FreeThread, asthread_th_free
<1>13. CASE StopOne
  BY <1>13 DEF StopOne, FreeThread, asthread_th_free
<1>14. CASE EndIteration
  BY <1>14 DEF EndIteration
<1>15. CASE LeaveLoop
  BY <1>15 DEF LeaveLoop
<1>16. CASE EndFinal
  BY <1>16 DEF EndFinal
<1>17. CASE EndDrain
  BY <1>17 DEF EndDrain
<1>18. CASE Finish
  BY <1>18 DEF Finish
<1>19. ASSUME NEW t \in Thread, NEW r \in Res, NEW added \in AddOutcome,
     SocketNew(t, r, added)
      PROVE  PhaseSound'
  BY <1>19 DEF SocketNew, Running
<1>20. ASSUME NEW t \in Thread, NEW r \in Res, SocketNewFails(t, r)
      PROVE  PhaseSound'
  BY <1>20 DEF SocketNewFails, Running
<1>21. ASSUME NEW t \in Thread, NEW ev \in EvMaps, EvBegin(t, ev)
      PROVE  PhaseSound'
  BY <1>21 DEF EvBegin, Running, EvMaps
<1>22. ASSUME NEW t \in Thread, EvEnd(t)
      PROVE  PhaseSound'
  BY <1>22 DEF EvEnd, Running, asthread_remove_res_from_epfd
<1>23. ASSUME NEW t \in Thread, NEW r \in Res, NEW k \in IoWaits, NEW io \in
     IO, YieldForIo(t, r, k, io)
      PROVE  PhaseSound'
  BY <1>23 DEF YieldForIo, Running, Suspend, asthread_th_add_to_pool,
       asthread_res_ev_add
<1>24. ASSUME NEW t \in Thread, NEW k \in SleepWaits, YieldForSleep(t, k)
      PROVE  PhaseSound'
  BY <1>24 DEF YieldForSleep, Running, Suspend, asthread_th_add_to_pool
<1>25. ASSUME NEW t \in Thread, ThreadStop(t)
      PROVE  PhaseSound'
  BY <1>25 DEF ThreadStop, Running, Suspend, asthread_th_to_stop
<1>26. ASSUME NEW r \in Res, SocketClose(r)
      PROVE  PhaseSound'
  BY <1>26 DEF SocketClose, LuaRuns, lcf_socket_close
<1>27. CASE Sigint
  BY <1>27 DEF Sigint
<1>28. CASE Terminated
  BY <1>28 DEF Terminated
<1>29. CASE UNCHANGED vars
  BY <1>29
<1>30. CASE AcceptRefused
  BY <1>30 DEF AcceptRefused
<1>31. CASE LeftBranch
  BY <1>31 DEF LeftBranch, Untracked
<1>32. CASE FreeTwice
  BY <1>32 DEF FreeTwice, Untracked
<1>33. CASE SkipLoop
  BY <1>33 DEF SkipLoop, Untracked
<1>34. ASSUME NEW r \in Res, NEW ev \in IO \cup {"err"}, StaleEvent(r, ev)
      PROVE  PhaseSound'
  BY <1>34 DEF StaleEvent, Untracked
<1>35. ASSUME NEW r \in Res, LuaReuses(r)
      PROVE  PhaseSound'
  BY <1>35 DEF LuaReuses, LuaRuns
<1> HIDE DEF PhaseSound, loopVars, thVars, resVars, vars
<1> QED
  BY <1>1, <1>2, <1>3, <1>4, <1>5, <1>6, <1>7, <1>8, <1>9, <1>10,
     <1>11, <1>12, <1>13, <1>14, <1>15, <1>16, <1>17, <1>18, <1>19, <1>20,
     <1>21, <1>22, <1>23, <1>24, <1>25, <1>26, <1>27, <1>28, <1>29,
     <1>30, <1>31, <1>32, <1>33, <1>34, <1>35
     DEF Next, LoopStep, LuaStep, Leave

\* Every step keeps the pending events attached to allocated threads: threads
\* are recycled only in phases where no event is pending.
LEMMA EventsOwnedStep ==
  ASSUME TypeOK, PhaseSound, ThreadReachableOnce, ResSound, EventsOwned,
         [Next]_vars
  PROVE  EventsOwned'
<1> USE DEF EventsOwned, Allocated, loopVars, thVars, resVars, vars
<1>1. CASE EpollWait
  BY <1>1 DEF EpollWait, Batches, Reportable, ResSound, OpenFdOwned, BlocksSound
<1>2. CASE CloseCfd
  BY <1>2 DEF CloseCfd
<1>3. CASE HandleAccept
  BY <1>3 DEF HandleAccept
<1>4. CASE AcceptDone
  BY <1>4 DEF AcceptDone
<1>5. ASSUME NEW r \in Res, NEW ev \in IO \cup {"err"}, HandleFd(r, ev)
      PROVE  EventsOwned'
  BY <1>5 DEF HandleFd, asthread_th_del_from_pool,
       asthread_remove_res_from_epfd, thread_resume, asthread_th_is_stop
<1>6. ASSUME NEW t \in Thread, NEW r \in Res, NEW added \in AddOutcome,
     Accept(t, r, added)
      PROVE  EventsOwned'
  BY <1>6, CurAllocated DEF TypeOK, Accept
<1>7. CASE ProcessIoTimeout
  BY <1>7 DEF ProcessIoTimeout, TakeExpired
<1>8. CASE ProcessSleep
  BY <1>8 DEF ProcessSleep, TakeExpired
<1>9. CASE ProcessStop
  BY <1>9 DEF ProcessStop
<1>10. ASSUME NEW t \in Thread, IoTimeout(t)
      PROVE  EventsOwned'
  BY <1>10 DEF IoTimeout, asthread_remove_res_from_epfd, thread_resume,
       asthread_th_is_stop
<1>11. ASSUME NEW t \in Thread, WakeSleeper(t)
      PROVE  EventsOwned'
  BY <1>11 DEF WakeSleeper, thread_resume, asthread_th_is_stop
<1>12. ASSUME NEW t \in Thread, RecycleFromPool(t)
      PROVE  EventsOwned'
  BY <1>12 DEF PhaseSound, RecycleFromPool, FreeThread, asthread_th_free
<1>13. CASE StopOne
  BY <1>13 DEF PhaseSound, StopOne, FreeThread, asthread_th_free
<1>14. CASE EndIteration
  BY <1>14 DEF EndIteration
<1>15. CASE LeaveLoop
  BY <1>15 DEF LeaveLoop
<1>16. CASE EndFinal
  BY <1>16 DEF EndFinal
<1>17. CASE EndDrain
  BY <1>17 DEF EndDrain
<1>18. CASE Finish
  BY <1>18 DEF Finish
<1>19. ASSUME NEW t \in Thread, NEW r \in Res, NEW added \in AddOutcome,
     SocketNew(t, r, added)
      PROVE  EventsOwned'
  BY <1>19, CurAllocated DEF TypeOK, SocketNew, Running
<1>20. ASSUME NEW t \in Thread, NEW r \in Res, SocketNewFails(t, r)
      PROVE  EventsOwned'
  BY <1>20 DEF SocketNewFails, Running
<1>21. ASSUME NEW t \in Thread, NEW ev \in EvMaps, EvBegin(t, ev)
      PROVE  EventsOwned'
  BY <1>21 DEF EvBegin, Running, EvMaps
<1>22. ASSUME NEW t \in Thread, EvEnd(t)
      PROVE  EventsOwned'
  BY <1>22 DEF EvEnd, Running, asthread_remove_res_from_epfd
<1>23. ASSUME NEW t \in Thread, NEW r \in Res, NEW k \in IoWaits, NEW io \in
     IO, YieldForIo(t, r, k, io)
      PROVE  EventsOwned'
  BY <1>23, CurAllocated DEF TypeOK, YieldForIo, Running, Suspend,
       asthread_th_add_to_pool, asthread_res_ev_add
<1>24. ASSUME NEW t \in Thread, NEW k \in SleepWaits, YieldForSleep(t, k)
      PROVE  EventsOwned'
  BY <1>24, CurAllocated DEF TypeOK, YieldForSleep, Running, Suspend,
       asthread_th_add_to_pool
<1>25. ASSUME NEW t \in Thread, ThreadStop(t)
      PROVE  EventsOwned'
  BY <1>25, CurAllocated DEF TypeOK, ThreadStop, Running, Suspend,
       asthread_th_to_stop
<1>26. ASSUME NEW r \in Res, SocketClose(r)
      PROVE  EventsOwned'
  BY <1>26 DEF SocketClose, LuaRuns, lcf_socket_close
<1>27. CASE Sigint
  BY <1>27 DEF Sigint
<1>28. CASE Terminated
  BY <1>28 DEF Terminated
<1>29. CASE UNCHANGED vars
  BY <1>29
<1>30. CASE AcceptRefused
  BY <1>30 DEF AcceptRefused
<1>31. CASE LeftBranch
  BY <1>31 DEF LeftBranch, Untracked
<1>32. CASE FreeTwice
  BY <1>32 DEF FreeTwice, Untracked
<1>33. CASE SkipLoop
  BY <1>33 DEF SkipLoop, Untracked
<1>34. ASSUME NEW r \in Res, NEW ev \in IO \cup {"err"}, StaleEvent(r, ev)
      PROVE  EventsOwned'
  BY <1>34 DEF StaleEvent, Untracked
<1>35. ASSUME NEW r \in Res, LuaReuses(r)
      PROVE  EventsOwned'
  BY <1>35 DEF LuaReuses, LuaRuns
<1> HIDE DEF EventsOwned, Allocated, loopVars, thVars, resVars, vars
<1> QED
  BY <1>1, <1>2, <1>3, <1>4, <1>5, <1>6, <1>7, <1>8, <1>9, <1>10,
     <1>11, <1>12, <1>13, <1>14, <1>15, <1>16, <1>17, <1>18, <1>19, <1>20,
     <1>21, <1>22, <1>23, <1>24, <1>25, <1>26, <1>27, <1>28, <1>29,
     <1>30, <1>31, <1>32, <1>33, <1>34, <1>35
     DEF Next, LoopStep, LuaStep, Leave

\* What an event handler does to a thread that has not stopped: it takes it out
\* of the one tree it is in and makes it the running one.
LEMMA HandleFdEffect ==
  ASSUME TypeOK, PhaseSound, EventsOwned, PlaceSound,
         NEW r \in Res, NEW ev \in IO \cup {"err"}, HandleFd(r, ev),
         ~asthread_th_is_stop(rth[r])
  PROVE  /\ phase = "io" /\ expired = {} /\ cur = NULL /\ cur' = rth[r]
         /\ rth[r] \in Thread /\ status[rth[r]] \notin {"FREE", "STOP"}
         /\ pool' = [pool EXCEPT ![rth[r]] = NULL]
         /\ \A q \in Pools : tree'[q] = tree[q] \ {rth[r]}
         /\ arg'.type \in {"IO", "IO_ERROR"}
         /\ UNCHANGED <<phase, status, expired, stop_threads, next_stop, wait>>
<1> DEFINE e == [res |-> r, ev |-> ev]
           t == rth[r]
<1>1. /\ asthread_th_del_from_pool(t) /\ cur = NULL /\ cur' = t /\ phase = "io"
      /\ arg'.type \in {"IO", "IO_ERROR"}
      /\ UNCHANGED <<phase, status, expired, stop_threads, next_stop, wait>>
  BY DEF HandleFd, thread_resume, asthread_th_is_stop
<1>2. e \in batch /\ e.res = r /\ r # cfd
  BY DEF HandleFd
<1>2a. t # JUNK
  BY DEF HandleFd
<1>3. expired = {} /\ t \in Thread /\ status[t] \notin {"FREE", "STOP"}
  BY <1>1, <1>2, <1>2a DEF EventsOwned, Allocated, PhaseSound, asthread_th_is_stop
<1>4. pool[t] \in Pools /\ t \in tree[pool[t]]
  BY <1>1, <1>3 DEF TypeOK, Pools, PlaceSound, ThreadReachableOnce,
                    PoolPointerValid, InOnePlace, Looping, Allocated
<1>5. \A q \in Pools : q # pool[t] => t \notin tree[q]
  BY <1>1, <1>3, <1>4 DEF Pools, PlaceSound, PoolPointerValid, Looping,
       Allocated
<1>6. tree' = [tree EXCEPT ![pool[t]] = @ \ {t}]
  BY <1>1, <1>4 DEF asthread_th_del_from_pool, Pools
<1>7. \A q \in Pools : tree'[q] = tree[q] \ {t}
  BY <1>4, <1>5, <1>6 DEF TypeOK
<1> QED
  BY <1>1, <1>3, <1>7 DEF asthread_th_del_from_pool

\* Every step keeps every unfinished thread in exactly one place.
LEMMA ReachStep ==
  ASSUME TypeOK, PhaseSound, EventsOwned, ResSound, PlaceSound, StopQueueSound,
         StopsDone, [Next]_vars
  PROVE  ThreadReachableOnce'
<1> USE DEF PlaceSound, ThreadReachableOnce, PoolPointerValid, ExitSound,
     InOnePlace, Looping, Allocated, loopVars, thVars, resVars, vars
<1>1. CASE EpollWait
  BY <1>1 DEF EpollWait, Batches, Reportable, TypeOK, PhaseSound, Pools
<1>2. CASE CloseCfd
  BY <1>2 DEF CloseCfd, TypeOK, PhaseSound, Pools
<1>3. CASE HandleAccept
  BY <1>3 DEF HandleAccept, TypeOK, PhaseSound, Pools
<1>4. CASE AcceptDone
  BY <1>4 DEF AcceptDone, TypeOK, PhaseSound, Pools
<1>5. ASSUME NEW r \in Res, NEW ev \in IO \cup {"err"}, HandleFd(r, ev)
      PROVE  ThreadReachableOnce'
  <2>1. CASE asthread_th_is_stop(rth[r])
    BY <1>5, <2>1 DEF HandleFd, TypeOK
  <2>2. CASE ~asthread_th_is_stop(rth[r])
    BY <1>5, <2>2, HandleFdEffect DEF TypeOK, Pools
  <2> QED
    BY <2>1, <2>2
<1>6. ASSUME NEW t \in Thread, NEW r \in Res, NEW added \in AddOutcome,
     Accept(t, r, added)
      PROVE  ThreadReachableOnce'
  BY <1>6 DEF Accept, TypeOK, PhaseSound, Pools
<1>7. CASE ProcessIoTimeout
  BY <1>7 DEF ProcessIoTimeout, TakeExpired, TypeOK, PhaseSound, Pools
<1>8. CASE ProcessSleep
  BY <1>8 DEF ProcessSleep, TakeExpired, TypeOK, PhaseSound, Pools
<1>9. CASE ProcessStop
  BY <1>9 DEF ProcessStop, TypeOK, PhaseSound, Pools
<1>10. ASSUME NEW t \in Thread, IoTimeout(t)
      PROVE  ThreadReachableOnce'
  BY <1>10 DEF IoTimeout, asthread_remove_res_from_epfd, thread_resume,
       asthread_th_is_stop, TypeOK, PhaseSound, Pools
<1>11. ASSUME NEW t \in Thread, WakeSleeper(t)
      PROVE  ThreadReachableOnce'
  BY <1>11 DEF WakeSleeper, thread_resume, asthread_th_is_stop, TypeOK,
       PhaseSound, Pools
<1>12. ASSUME NEW t \in Thread, RecycleFromPool(t)
      PROVE  ThreadReachableOnce'
  BY <1>12 DEF RecycleFromPool, FreeThread, asthread_th_free, TypeOK,
       PhaseSound, Pools
<1>13. CASE StopOne
  <2> DEFINE s == stop_threads[next_stop]
  <2>1. s \in Thread
    BY <1>13 DEF StopOne, TypeOK
  <2>2. /\ phase = "stop"
        /\ status' = [status EXCEPT ![s] = "FREE"]
        /\ UNCHANGED <<pool, tree, phase, cur, expired>>
    BY <1>13 DEF StopOne, FreeThread
  <2>3. status[s] \in {"FREE", "STOP"}
    BY <1>13 DEF StopOne, StopsDone, StopQueueSound, TypeOK
  <2> QED
    BY <2>1, <2>2, <2>3 DEF TypeOK
<1>14. CASE EndIteration
  BY <1>14 DEF EndIteration, TypeOK, PhaseSound, Pools
<1>15. CASE LeaveLoop
  BY <1>15 DEF LeaveLoop, TypeOK, PhaseSound, Pools
<1>16. CASE EndFinal
  BY <1>16 DEF EndFinal, TypeOK, PhaseSound, Pools
<1>17. CASE EndDrain
  BY <1>17 DEF EndDrain, TypeOK, PhaseSound, Pools
<1>18. CASE Finish
  BY <1>18 DEF Finish, TypeOK, PhaseSound, Pools
<1>19. ASSUME NEW t \in Thread, NEW r \in Res, NEW added \in AddOutcome,
     SocketNew(t, r, added)
      PROVE  ThreadReachableOnce'
  BY <1>19 DEF SocketNew, Running, TypeOK, PhaseSound, Pools
<1>20. ASSUME NEW t \in Thread, NEW r \in Res, SocketNewFails(t, r)
      PROVE  ThreadReachableOnce'
  BY <1>20 DEF SocketNewFails, Running, TypeOK, PhaseSound, Pools
<1>21. ASSUME NEW t \in Thread, NEW ev \in EvMaps, EvBegin(t, ev)
      PROVE  ThreadReachableOnce'
  BY <1>21 DEF EvBegin, Running, EvMaps, TypeOK, PhaseSound, Pools
<1>22. ASSUME NEW t \in Thread, EvEnd(t)
      PROVE  ThreadReachableOnce'
  BY <1>22 DEF EvEnd, Running, asthread_remove_res_from_epfd, TypeOK,
       PhaseSound, Pools
<1>23. ASSUME NEW t \in Thread, NEW r \in Res, NEW k \in IoWaits, NEW io \in
     IO, YieldForIo(t, r, k, io)
      PROVE  ThreadReachableOnce'
  BY <1>23 DEF YieldForIo, Running, Suspend, asthread_th_add_to_pool,
       asthread_res_ev_add, TypeOK, PhaseSound, Pools
<1>24. ASSUME NEW t \in Thread, NEW k \in SleepWaits, YieldForSleep(t, k)
      PROVE  ThreadReachableOnce'
  BY <1>24 DEF YieldForSleep, Running, Suspend, asthread_th_add_to_pool,
       TypeOK, PhaseSound, Pools
<1>25. ASSUME NEW t \in Thread, ThreadStop(t)
      PROVE  ThreadReachableOnce'
  BY <1>25 DEF ThreadStop, Running, Suspend, asthread_th_to_stop, TypeOK,
       PhaseSound, Pools
<1>26. ASSUME NEW r \in Res, SocketClose(r)
      PROVE  ThreadReachableOnce'
  BY <1>26 DEF SocketClose, LuaRuns, lcf_socket_close, TypeOK, PhaseSound, Pools
<1>27. CASE Sigint
  BY <1>27 DEF Sigint, TypeOK, PhaseSound, Pools
<1>28. CASE Terminated
  BY <1>28 DEF Terminated
<1>29. CASE UNCHANGED vars
  BY <1>29
<1>30. CASE AcceptRefused
  BY <1>30 DEF AcceptRefused, TypeOK, PhaseSound, Pools
<1>31. CASE LeftBranch
  BY <1>31 DEF LeftBranch, Untracked, TypeOK, PhaseSound, Pools
<1>32. CASE FreeTwice
  BY <1>32 DEF FreeTwice, Untracked, TypeOK, PhaseSound, Pools
<1>33. CASE SkipLoop
  BY <1>33 DEF SkipLoop, Untracked, TypeOK, PhaseSound, Pools
<1>34. ASSUME NEW r \in Res, NEW ev \in IO \cup {"err"}, StaleEvent(r, ev)
      PROVE  ThreadReachableOnce'
  BY <1>34 DEF StaleEvent, Untracked, TypeOK, PhaseSound, Pools
<1>35. ASSUME NEW r \in Res, LuaReuses(r)
      PROVE  ThreadReachableOnce'
  BY <1>35 DEF LuaReuses, LuaRuns, TypeOK, PhaseSound, Pools
<1> HIDE DEF PlaceSound, ThreadReachableOnce, PoolPointerValid, ExitSound,
     InOnePlace, Looping, Allocated, loopVars, thVars, resVars, vars
<1> QED
  BY <1>1, <1>2, <1>3, <1>4, <1>5, <1>6, <1>7, <1>8, <1>9, <1>10,
     <1>11, <1>12, <1>13, <1>14, <1>15, <1>16, <1>17, <1>18, <1>19, <1>20,
     <1>21, <1>22, <1>23, <1>24, <1>25, <1>26, <1>27, <1>28, <1>29,
     <1>30, <1>31, <1>32, <1>33, <1>34, <1>35
     DEF Next, LoopStep, LuaStep, Leave

\* Every step keeps th->pool in agreement with the trees.
LEMMA PointerStep ==
  ASSUME TypeOK, PhaseSound, EventsOwned, ResSound, PlaceSound, StopQueueSound,
         StopsDone, [Next]_vars
  PROVE  PoolPointerValid'
<1> USE DEF PlaceSound, ThreadReachableOnce, PoolPointerValid, ExitSound,
     InOnePlace, Looping, Allocated, loopVars, thVars, resVars, vars
<1>1. CASE EpollWait
  BY <1>1 DEF EpollWait, Batches, Reportable, TypeOK, PhaseSound, Pools
<1>2. CASE CloseCfd
  BY <1>2 DEF CloseCfd, TypeOK, PhaseSound, Pools
<1>3. CASE HandleAccept
  BY <1>3 DEF HandleAccept, TypeOK, PhaseSound, Pools
<1>4. CASE AcceptDone
  BY <1>4 DEF AcceptDone, TypeOK, PhaseSound, Pools
<1>5. ASSUME NEW r \in Res, NEW ev \in IO \cup {"err"}, HandleFd(r, ev)
      PROVE  PoolPointerValid'
  <2>1. CASE asthread_th_is_stop(rth[r])
    BY <1>5, <2>1 DEF HandleFd, TypeOK
  <2>2. CASE ~asthread_th_is_stop(rth[r])
    BY <1>5, <2>2, HandleFdEffect DEF TypeOK, Pools
  <2> QED
    BY <2>1, <2>2
<1>6. ASSUME NEW t \in Thread, NEW r \in Res, NEW added \in AddOutcome,
     Accept(t, r, added)
      PROVE  PoolPointerValid'
  BY <1>6 DEF Accept, TypeOK, PhaseSound, Pools
<1>7. CASE ProcessIoTimeout
  BY <1>7 DEF ProcessIoTimeout, TakeExpired, TypeOK, PhaseSound, Pools
<1>8. CASE ProcessSleep
  BY <1>8 DEF ProcessSleep, TakeExpired, TypeOK, PhaseSound, Pools
<1>9. CASE ProcessStop
  BY <1>9 DEF ProcessStop, TypeOK, PhaseSound, Pools
<1>10. ASSUME NEW t \in Thread, IoTimeout(t)
      PROVE  PoolPointerValid'
  BY <1>10 DEF IoTimeout, asthread_remove_res_from_epfd, thread_resume,
       asthread_th_is_stop, TypeOK, PhaseSound, Pools
<1>11. ASSUME NEW t \in Thread, WakeSleeper(t)
      PROVE  PoolPointerValid'
  BY <1>11 DEF WakeSleeper, thread_resume, asthread_th_is_stop, TypeOK,
       PhaseSound, Pools
<1>12. ASSUME NEW t \in Thread, RecycleFromPool(t)
      PROVE  PoolPointerValid'
  BY <1>12 DEF RecycleFromPool, FreeThread, asthread_th_free, TypeOK,
       PhaseSound, Pools
<1>13. CASE StopOne
  <2> DEFINE s == stop_threads[next_stop]
  <2>1. s \in Thread
    BY <1>13 DEF StopOne, TypeOK
  <2>2. /\ phase = "stop"
        /\ status' = [status EXCEPT ![s] = "FREE"]
        /\ UNCHANGED <<pool, tree, phase, cur, expired>>
    BY <1>13 DEF StopOne, FreeThread
  <2>3. status[s] \in {"FREE", "STOP"}
    BY <1>13 DEF StopOne, StopsDone, StopQueueSound, TypeOK
  <2> QED
    BY <2>1, <2>2, <2>3 DEF TypeOK
<1>14. CASE EndIteration
  BY <1>14 DEF EndIteration, TypeOK, PhaseSound, Pools
<1>15. CASE LeaveLoop
  BY <1>15 DEF LeaveLoop, TypeOK, PhaseSound, Pools
<1>16. CASE EndFinal
  BY <1>16 DEF EndFinal, TypeOK, PhaseSound, Pools
<1>17. CASE EndDrain
  BY <1>17 DEF EndDrain, TypeOK, PhaseSound, Pools
<1>18. CASE Finish
  BY <1>18 DEF Finish, TypeOK, PhaseSound, Pools
<1>19. ASSUME NEW t \in Thread, NEW r \in Res, NEW added \in AddOutcome,
     SocketNew(t, r, added)
      PROVE  PoolPointerValid'
  BY <1>19 DEF SocketNew, Running, TypeOK, PhaseSound, Pools
<1>20. ASSUME NEW t \in Thread, NEW r \in Res, SocketNewFails(t, r)
      PROVE  PoolPointerValid'
  BY <1>20 DEF SocketNewFails, Running, TypeOK, PhaseSound, Pools
<1>21. ASSUME NEW t \in Thread, NEW ev \in EvMaps, EvBegin(t, ev)
      PROVE  PoolPointerValid'
  BY <1>21 DEF EvBegin, Running, EvMaps, TypeOK, PhaseSound, Pools
<1>22. ASSUME NEW t \in Thread, EvEnd(t)
      PROVE  PoolPointerValid'
  BY <1>22 DEF EvEnd, Running, asthread_remove_res_from_epfd, TypeOK,
       PhaseSound, Pools
<1>23. ASSUME NEW t \in Thread, NEW r \in Res, NEW k \in IoWaits, NEW io \in
     IO, YieldForIo(t, r, k, io)
      PROVE  PoolPointerValid'
  BY <1>23 DEF YieldForIo, Running, Suspend, asthread_th_add_to_pool,
       asthread_res_ev_add, TypeOK, PhaseSound, Pools
<1>24. ASSUME NEW t \in Thread, NEW k \in SleepWaits, YieldForSleep(t, k)
      PROVE  PoolPointerValid'
  BY <1>24 DEF YieldForSleep, Running, Suspend, asthread_th_add_to_pool,
       TypeOK, PhaseSound, Pools
<1>25. ASSUME NEW t \in Thread, ThreadStop(t)
      PROVE  PoolPointerValid'
  BY <1>25 DEF ThreadStop, Running, Suspend, asthread_th_to_stop, TypeOK,
       PhaseSound, Pools
<1>26. ASSUME NEW r \in Res, SocketClose(r)
      PROVE  PoolPointerValid'
  BY <1>26 DEF SocketClose, LuaRuns, lcf_socket_close, TypeOK, PhaseSound, Pools
<1>27. CASE Sigint
  BY <1>27 DEF Sigint, TypeOK, PhaseSound, Pools
<1>28. CASE Terminated
  BY <1>28 DEF Terminated
<1>29. CASE UNCHANGED vars
  BY <1>29
<1>30. CASE AcceptRefused
  BY <1>30 DEF AcceptRefused, TypeOK, PhaseSound, Pools
<1>31. CASE LeftBranch
  BY <1>31 DEF LeftBranch, Untracked, TypeOK, PhaseSound, Pools
<1>32. CASE FreeTwice
  BY <1>32 DEF FreeTwice, Untracked, TypeOK, PhaseSound, Pools
<1>33. CASE SkipLoop
  BY <1>33 DEF SkipLoop, Untracked, TypeOK, PhaseSound, Pools
<1>34. ASSUME NEW r \in Res, NEW ev \in IO \cup {"err"}, StaleEvent(r, ev)
      PROVE  PoolPointerValid'
  BY <1>34 DEF StaleEvent, Untracked, TypeOK, PhaseSound, Pools
<1>35. ASSUME NEW r \in Res, LuaReuses(r)
      PROVE  PoolPointerValid'
  BY <1>35 DEF LuaReuses, LuaRuns, TypeOK, PhaseSound, Pools
<1> HIDE DEF PlaceSound, ThreadReachableOnce, PoolPointerValid, ExitSound,
     InOnePlace, Looping, Allocated, loopVars, thVars, resVars, vars
<1> QED
  BY <1>1, <1>2, <1>3, <1>4, <1>5, <1>6, <1>7, <1>8, <1>9, <1>10,
     <1>11, <1>12, <1>13, <1>14, <1>15, <1>16, <1>17, <1>18, <1>19, <1>20,
     <1>21, <1>22, <1>23, <1>24, <1>25, <1>26, <1>27, <1>28, <1>29,
     <1>30, <1>31, <1>32, <1>33, <1>34, <1>35
     DEF Next, LoopStep, LuaStep, Leave

\* Every step keeps what the exit path still has to recycle reachable.
LEMMA ExitStep ==
  ASSUME TypeOK, PhaseSound, EventsOwned, ResSound, PlaceSound, StopQueueSound,
         StopsDone, [Next]_vars
  PROVE  ExitSound'
<1> USE DEF PlaceSound, ThreadReachableOnce, PoolPointerValid, ExitSound,
     InOnePlace, Looping, Allocated, loopVars, thVars, resVars, vars
<1>1. CASE EpollWait
  BY <1>1 DEF EpollWait, Batches, Reportable, TypeOK, PhaseSound, Pools
<1>2. CASE CloseCfd
  BY <1>2 DEF CloseCfd, TypeOK, PhaseSound, Pools
<1>3. CASE HandleAccept
  BY <1>3 DEF HandleAccept, TypeOK, PhaseSound, Pools
<1>4. CASE AcceptDone
  BY <1>4 DEF AcceptDone, TypeOK, PhaseSound, Pools
<1>5. ASSUME NEW r \in Res, NEW ev \in IO \cup {"err"}, HandleFd(r, ev)
      PROVE  ExitSound'
  <2>1. CASE asthread_th_is_stop(rth[r])
    BY <1>5, <2>1 DEF HandleFd, TypeOK
  <2>2. CASE ~asthread_th_is_stop(rth[r])
    BY <1>5, <2>2, HandleFdEffect DEF TypeOK, Pools
  <2> QED
    BY <2>1, <2>2
<1>6. ASSUME NEW t \in Thread, NEW r \in Res, NEW added \in AddOutcome,
     Accept(t, r, added)
      PROVE  ExitSound'
  BY <1>6 DEF Accept, TypeOK, PhaseSound, Pools
<1>7. CASE ProcessIoTimeout
  BY <1>7 DEF ProcessIoTimeout, TakeExpired, TypeOK, PhaseSound, Pools
<1>8. CASE ProcessSleep
  BY <1>8 DEF ProcessSleep, TakeExpired, TypeOK, PhaseSound, Pools
<1>9. CASE ProcessStop
  BY <1>9 DEF ProcessStop, TypeOK, PhaseSound, Pools
<1>10. ASSUME NEW t \in Thread, IoTimeout(t)
      PROVE  ExitSound'
  BY <1>10 DEF IoTimeout, asthread_remove_res_from_epfd, thread_resume,
       asthread_th_is_stop, TypeOK, PhaseSound, Pools
<1>11. ASSUME NEW t \in Thread, WakeSleeper(t)
      PROVE  ExitSound'
  BY <1>11 DEF WakeSleeper, thread_resume, asthread_th_is_stop, TypeOK,
       PhaseSound, Pools
<1>12. ASSUME NEW t \in Thread, RecycleFromPool(t)
      PROVE  ExitSound'
  BY <1>12 DEF RecycleFromPool, FreeThread, asthread_th_free, TypeOK,
       PhaseSound, Pools
<1>13. CASE StopOne
  <2> DEFINE s == stop_threads[next_stop]
  <2>1. s \in Thread
    BY <1>13 DEF StopOne, TypeOK
  <2>2. /\ phase = "stop"
        /\ status' = [status EXCEPT ![s] = "FREE"]
        /\ UNCHANGED <<pool, tree, phase, cur, expired>>
    BY <1>13 DEF StopOne, FreeThread
  <2>3. status[s] \in {"FREE", "STOP"}
    BY <1>13 DEF StopOne, StopsDone, StopQueueSound, TypeOK
  <2> QED
    BY <2>1, <2>2, <2>3 DEF TypeOK
<1>14. CASE EndIteration
  BY <1>14 DEF EndIteration, TypeOK, PhaseSound, Pools
<1>15. CASE LeaveLoop
  BY <1>15 DEF LeaveLoop, TypeOK, PhaseSound, Pools
<1>16. CASE EndFinal
  BY <1>16 DEF EndFinal, StopsDone, TypeOK, PhaseSound, Pools
<1>17. CASE EndDrain
  BY <1>17 DEF EndDrain, TypeOK, PhaseSound, Pools
<1>18. CASE Finish
  BY <1>18 DEF Finish, TypeOK, PhaseSound, Pools
<1>19. ASSUME NEW t \in Thread, NEW r \in Res, NEW added \in AddOutcome,
     SocketNew(t, r, added)
      PROVE  ExitSound'
  BY <1>19 DEF SocketNew, Running, TypeOK, PhaseSound, Pools
<1>20. ASSUME NEW t \in Thread, NEW r \in Res, SocketNewFails(t, r)
      PROVE  ExitSound'
  BY <1>20 DEF SocketNewFails, Running, TypeOK, PhaseSound, Pools
<1>21. ASSUME NEW t \in Thread, NEW ev \in EvMaps, EvBegin(t, ev)
      PROVE  ExitSound'
  BY <1>21 DEF EvBegin, Running, EvMaps, TypeOK, PhaseSound, Pools
<1>22. ASSUME NEW t \in Thread, EvEnd(t)
      PROVE  ExitSound'
  BY <1>22 DEF EvEnd, Running, asthread_remove_res_from_epfd, TypeOK,
       PhaseSound, Pools
<1>23. ASSUME NEW t \in Thread, NEW r \in Res, NEW k \in IoWaits, NEW io \in
     IO, YieldForIo(t, r, k, io)
      PROVE  ExitSound'
  BY <1>23 DEF YieldForIo, Running, Suspend, asthread_th_add_to_pool,
       asthread_res_ev_add, TypeOK, PhaseSound, Pools
<1>24. ASSUME NEW t \in Thread, NEW k \in SleepWaits, YieldForSleep(t, k)
      PROVE  ExitSound'
  BY <1>24 DEF YieldForSleep, Running, Suspend, asthread_th_add_to_pool,
       TypeOK, PhaseSound, Pools
<1>25. ASSUME NEW t \in Thread, ThreadStop(t)
      PROVE  ExitSound'
  BY <1>25 DEF ThreadStop, Running, Suspend, asthread_th_to_stop, TypeOK,
       PhaseSound, Pools
<1>26. ASSUME NEW r \in Res, SocketClose(r)
      PROVE  ExitSound'
  BY <1>26 DEF SocketClose, LuaRuns, lcf_socket_close, TypeOK, PhaseSound, Pools
<1>27. CASE Sigint
  BY <1>27 DEF Sigint, TypeOK, PhaseSound, Pools
<1>28. CASE Terminated
  BY <1>28 DEF Terminated
<1>29. CASE UNCHANGED vars
  BY <1>29
<1>30. CASE AcceptRefused
  BY <1>30 DEF AcceptRefused, TypeOK, PhaseSound, Pools
<1>31. CASE LeftBranch
  BY <1>31 DEF LeftBranch, Untracked, TypeOK, PhaseSound, Pools
<1>32. CASE FreeTwice
  BY <1>32 DEF FreeTwice, Untracked, TypeOK, PhaseSound, Pools
<1>33. CASE SkipLoop
  BY <1>33 DEF SkipLoop, Untracked, TypeOK, PhaseSound, Pools
<1>34. ASSUME NEW r \in Res, NEW ev \in IO \cup {"err"}, StaleEvent(r, ev)
      PROVE  ExitSound'
  BY <1>34 DEF StaleEvent, Untracked, TypeOK, PhaseSound, Pools
<1>35. ASSUME NEW r \in Res, LuaReuses(r)
      PROVE  ExitSound'
  BY <1>35 DEF LuaReuses, LuaRuns, TypeOK, PhaseSound, Pools
<1> HIDE DEF PlaceSound, ThreadReachableOnce, PoolPointerValid, ExitSound,
     InOnePlace, Looping, Allocated, loopVars, thVars, resVars, vars
<1> QED
  BY <1>1, <1>2, <1>3, <1>4, <1>5, <1>6, <1>7, <1>8, <1>9, <1>10,
     <1>11, <1>12, <1>13, <1>14, <1>15, <1>16, <1>17, <1>18, <1>19, <1>20,
     <1>21, <1>22, <1>23, <1>24, <1>25, <1>26, <1>27, <1>28, <1>29,
     <1>30, <1>31, <1>32, <1>33, <1>34, <1>35
     DEF Next, LoopStep, LuaStep, Leave

\* Every step keeps stop_threads free of duplicates and complete.
LEMMA StopQueueStep ==
  ASSUME TypeOK, PhaseSound, EventsOwned, PlaceSound, StopQueueSound,
         StopsDone, [Next]_vars
  PROVE  StopQueueSound'
<1> USE DEF StopQueueSound, StopsDone, loopVars, thVars, resVars, vars
<1>1. CASE EpollWait
  BY <1>1 DEF EpollWait, Batches, Reportable, TypeOK, PhaseSound
<1>2. CASE CloseCfd
  BY <1>2 DEF CloseCfd, TypeOK, PhaseSound
<1>3. CASE HandleAccept
  BY <1>3 DEF HandleAccept, TypeOK, PhaseSound
<1>4. CASE AcceptDone
  BY <1>4 DEF AcceptDone, TypeOK, PhaseSound
<1>5. ASSUME NEW r \in Res, NEW ev \in IO \cup {"err"}, HandleFd(r, ev)
      PROVE  StopQueueSound'
  <2>1. CASE asthread_th_is_stop(rth[r])
    BY <1>5, <2>1 DEF HandleFd, TypeOK
  <2>2. CASE ~asthread_th_is_stop(rth[r])
    BY <1>5, <2>2, HandleFdEffect DEF TypeOK
  <2> QED
    BY <2>1, <2>2
<1>6. ASSUME NEW t \in Thread, NEW r \in Res, NEW added \in AddOutcome,
     Accept(t, r, added)
      PROVE  StopQueueSound'
  BY <1>6 DEF Accept, TypeOK, PhaseSound
<1>7. CASE ProcessIoTimeout
  BY <1>7 DEF ProcessIoTimeout, TakeExpired, TypeOK, PhaseSound
<1>8. CASE ProcessSleep
  BY <1>8 DEF ProcessSleep, TakeExpired, TypeOK, PhaseSound
<1>9. CASE ProcessStop
  BY <1>9 DEF ProcessStop, TypeOK, PhaseSound
<1>10. ASSUME NEW t \in Thread, IoTimeout(t)
      PROVE  StopQueueSound'
  BY <1>10 DEF IoTimeout, asthread_remove_res_from_epfd, thread_resume,
       asthread_th_is_stop, TypeOK, PhaseSound
<1>11. ASSUME NEW t \in Thread, WakeSleeper(t)
      PROVE  StopQueueSound'
  BY <1>11 DEF WakeSleeper, thread_resume, asthread_th_is_stop, TypeOK,
       PhaseSound
<1>12. ASSUME NEW t \in Thread, RecycleFromPool(t)
      PROVE  StopQueueSound'
  BY <1>12 DEF RecycleFromPool, FreeThread, TypeOK
<1>13. CASE StopOne
  <2> DEFINE s == stop_threads[next_stop]
  <2>1. /\ phase = "stop" /\ next_stop \in 1 .. Len(stop_threads)
        /\ status' = [status EXCEPT ![s] = "FREE"] /\ next_stop' = next_stop + 1
        /\ UNCHANGED <<phase, stop_threads>>
    BY <1>13 DEF StopOne, FreeThread, TypeOK
  <2>2. s \in Thread /\ \A i \in 1 .. Len(stop_threads) : stop_threads[i] \in
       Thread
    BY <2>1 DEF TypeOK
  <2> QED
    BY <2>1, <2>2 DEF TypeOK
<1>14. CASE EndIteration
  BY <1>14 DEF EndIteration, TypeOK, PhaseSound
<1>15. CASE LeaveLoop
  BY <1>15 DEF LeaveLoop, TypeOK, PhaseSound
<1>16. CASE EndFinal
  BY <1>16 DEF EndFinal, TypeOK, PhaseSound
<1>17. CASE EndDrain
  BY <1>17 DEF EndDrain, TypeOK, PhaseSound
<1>18. CASE Finish
  BY <1>18 DEF Finish, TypeOK, PhaseSound
<1>19. ASSUME NEW t \in Thread, NEW r \in Res, NEW added \in AddOutcome,
     SocketNew(t, r, added)
      PROVE  StopQueueSound'
  BY <1>19 DEF SocketNew, Running, TypeOK, PhaseSound
<1>20. ASSUME NEW t \in Thread, NEW r \in Res, SocketNewFails(t, r)
      PROVE  StopQueueSound'
  BY <1>20 DEF SocketNewFails, Running, TypeOK, PhaseSound
<1>21. ASSUME NEW t \in Thread, NEW ev \in EvMaps, EvBegin(t, ev)
      PROVE  StopQueueSound'
  BY <1>21 DEF EvBegin, Running, EvMaps, TypeOK, PhaseSound
<1>22. ASSUME NEW t \in Thread, EvEnd(t)
      PROVE  StopQueueSound'
  BY <1>22 DEF EvEnd, Running, asthread_remove_res_from_epfd, TypeOK, PhaseSound
<1>23. ASSUME NEW t \in Thread, NEW r \in Res, NEW k \in IoWaits, NEW io \in
     IO, YieldForIo(t, r, k, io)
      PROVE  StopQueueSound'
  BY <1>23, CurAllocated DEF YieldForIo, Running, Suspend,
       asthread_th_add_to_pool, asthread_res_ev_add, TypeOK, PhaseSound,
       PlaceSound
<1>24. ASSUME NEW t \in Thread, NEW k \in SleepWaits, YieldForSleep(t, k)
      PROVE  StopQueueSound'
  BY <1>24, CurAllocated DEF YieldForSleep, Running, Suspend,
       asthread_th_add_to_pool, TypeOK, PhaseSound, PlaceSound
<1>25. ASSUME NEW t \in Thread, ThreadStop(t)
      PROVE  StopQueueSound'
  <2>1. /\ status' = [status EXCEPT ![t] = "STOP"]
        /\ stop_threads' = Append(stop_threads, t) /\ UNCHANGED <<phase,
             next_stop>>
        /\ cur = t
    BY <1>25 DEF ThreadStop, asthread_th_to_stop, Running
  <2>2. phase \in {"io", "accept", "io_timeout", "sleep"} /\ status[t] # "STOP"
    BY <1>25, <2>1, CurAllocated DEF PhaseSound, Running, ThreadStop, PlaceSound
  <2>3. /\ Len(stop_threads') = Len(stop_threads) + 1
        /\ stop_threads'[Len(stop_threads) + 1] = t
        /\ \A i \in 1 .. Len(stop_threads) : stop_threads'[i] = stop_threads[i]
    BY <2>1 DEF TypeOK
  <2> QED
    BY <2>1, <2>2, <2>3 DEF TypeOK
<1>26. ASSUME NEW r \in Res, SocketClose(r)
      PROVE  StopQueueSound'
  BY <1>26 DEF SocketClose, LuaRuns, lcf_socket_close, TypeOK, PhaseSound
<1>27. CASE Sigint
  BY <1>27 DEF Sigint, TypeOK, PhaseSound
<1>28. CASE Terminated
  BY <1>28 DEF Terminated
<1>29. CASE UNCHANGED vars
  BY <1>29
<1>30. CASE AcceptRefused
  BY <1>30 DEF AcceptRefused, TypeOK, PhaseSound
<1>31. CASE LeftBranch
  BY <1>31 DEF LeftBranch, Untracked, TypeOK, PhaseSound
<1>32. CASE FreeTwice
  BY <1>32 DEF FreeTwice, Untracked, TypeOK, PhaseSound
<1>33. CASE SkipLoop
  BY <1>33 DEF SkipLoop, Untracked, TypeOK, PhaseSound
<1>34. ASSUME NEW r \in Res, NEW ev \in IO \cup {"err"}, StaleEvent(r, ev)
      PROVE  StopQueueSound'
  BY <1>34 DEF StaleEvent, Untracked, TypeOK, PhaseSound
<1>35. ASSUME NEW r \in Res, LuaReuses(r)
      PROVE  StopQueueSound'
  BY <1>35 DEF LuaReuses, LuaRuns, TypeOK, PhaseSound
<1> HIDE DEF StopQueueSound, StopsDone, loopVars, thVars, resVars, vars
<1> QED
  BY <1>1, <1>2, <1>3, <1>4, <1>5, <1>6, <1>7, <1>8, <1>9, <1>10,
     <1>11, <1>12, <1>13, <1>14, <1>15, <1>16, <1>17, <1>18, <1>19, <1>20,
     <1>21, <1>22, <1>23, <1>24, <1>25, <1>26, <1>27, <1>28, <1>29,
     <1>30, <1>31, <1>32, <1>33, <1>34, <1>35
     DEF Next, LoopStep, LuaStep, Leave

\* Every step keeps the processed part of stop_threads recycled.
LEMMA StopsDoneStep ==
  ASSUME TypeOK, PhaseSound, EventsOwned, PlaceSound, StopQueueSound,
         StopsDone, [Next]_vars
  PROVE  StopsDone'
<1> USE DEF StopQueueSound, StopsDone, loopVars, thVars, resVars, vars
<1>1. CASE EpollWait
  BY <1>1 DEF EpollWait, Batches, Reportable, TypeOK, PhaseSound
<1>2. CASE CloseCfd
  BY <1>2 DEF CloseCfd, TypeOK, PhaseSound
<1>3. CASE HandleAccept
  BY <1>3 DEF HandleAccept, TypeOK, PhaseSound
<1>4. CASE AcceptDone
  BY <1>4 DEF AcceptDone, TypeOK, PhaseSound
<1>5. ASSUME NEW r \in Res, NEW ev \in IO \cup {"err"}, HandleFd(r, ev)
      PROVE  StopsDone'
  <2>1. CASE asthread_th_is_stop(rth[r])
    BY <1>5, <2>1 DEF HandleFd, TypeOK
  <2>2. CASE ~asthread_th_is_stop(rth[r])
    BY <1>5, <2>2, HandleFdEffect DEF TypeOK
  <2> QED
    BY <2>1, <2>2
<1>6. ASSUME NEW t \in Thread, NEW r \in Res, NEW added \in AddOutcome,
     Accept(t, r, added)
      PROVE  StopsDone'
  BY <1>6 DEF Accept, TypeOK, PhaseSound
<1>7. CASE ProcessIoTimeout
  BY <1>7 DEF ProcessIoTimeout, TakeExpired, TypeOK, PhaseSound
<1>8. CASE ProcessSleep
  BY <1>8 DEF ProcessSleep, TakeExpired, TypeOK, PhaseSound
<1>9. CASE ProcessStop
  BY <1>9 DEF ProcessStop, TypeOK, PhaseSound
<1>10. ASSUME NEW t \in Thread, IoTimeout(t)
      PROVE  StopsDone'
  BY <1>10 DEF IoTimeout, asthread_remove_res_from_epfd, thread_resume,
       asthread_th_is_stop, TypeOK, PhaseSound
<1>11. ASSUME NEW t \in Thread, WakeSleeper(t)
      PROVE  StopsDone'
  BY <1>11 DEF WakeSleeper, thread_resume, asthread_th_is_stop, TypeOK,
       PhaseSound
<1>12. ASSUME NEW t \in Thread, RecycleFromPool(t)
      PROVE  StopsDone'
  BY <1>12 DEF RecycleFromPool, FreeThread, TypeOK
<1>13. CASE StopOne
  <2> DEFINE s == stop_threads[next_stop]
  <2>1. /\ phase = "stop" /\ next_stop \in 1 .. Len(stop_threads)
        /\ status' = [status EXCEPT ![s] = "FREE"] /\ next_stop' = next_stop + 1
        /\ UNCHANGED <<phase, stop_threads>>
    BY <1>13 DEF StopOne, FreeThread, TypeOK
  <2>2. s \in Thread /\ \A i \in 1 .. Len(stop_threads) : stop_threads[i] \in
       Thread
    BY <2>1 DEF TypeOK
  <2> QED
    BY <2>1, <2>2 DEF TypeOK
<1>14. CASE EndIteration
  BY <1>14 DEF EndIteration, TypeOK, PhaseSound
<1>15. CASE LeaveLoop
  BY <1>15 DEF LeaveLoop, TypeOK, PhaseSound
<1>16. CASE EndFinal
  BY <1>16 DEF EndFinal, TypeOK, PhaseSound
<1>17. CASE EndDrain
  BY <1>17 DEF EndDrain, TypeOK, PhaseSound
<1>18. CASE Finish
  BY <1>18 DEF Finish, TypeOK, PhaseSound
<1>19. ASSUME NEW t \in Thread, NEW r \in Res, NEW added \in AddOutcome,
     SocketNew(t, r, added)
      PROVE  StopsDone'
  BY <1>19 DEF SocketNew, Running, TypeOK, PhaseSound
<1>20. ASSUME NEW t \in Thread, NEW r \in Res, SocketNewFails(t, r)
      PROVE  StopsDone'
  BY <1>20 DEF SocketNewFails, Running, TypeOK, PhaseSound
<1>21. ASSUME NEW t \in Thread, NEW ev \in EvMaps, EvBegin(t, ev)
      PROVE  StopsDone'
  BY <1>21 DEF EvBegin, Running, EvMaps, TypeOK, PhaseSound
<1>22. ASSUME NEW t \in Thread, EvEnd(t)
      PROVE  StopsDone'
  BY <1>22 DEF EvEnd, Running, asthread_remove_res_from_epfd, TypeOK, PhaseSound
<1>23. ASSUME NEW t \in Thread, NEW r \in Res, NEW k \in IoWaits, NEW io \in
     IO, YieldForIo(t, r, k, io)
      PROVE  StopsDone'
  BY <1>23, CurAllocated DEF YieldForIo, Running, Suspend,
       asthread_th_add_to_pool, asthread_res_ev_add, TypeOK, PhaseSound,
       PlaceSound
<1>24. ASSUME NEW t \in Thread, NEW k \in SleepWaits, YieldForSleep(t, k)
      PROVE  StopsDone'
  BY <1>24, CurAllocated DEF YieldForSleep, Running, Suspend,
       asthread_th_add_to_pool, TypeOK, PhaseSound, PlaceSound
<1>25. ASSUME NEW t \in Thread, ThreadStop(t)
      PROVE  StopsDone'
  <2>1. /\ status' = [status EXCEPT ![t] = "STOP"]
        /\ stop_threads' = Append(stop_threads, t) /\ UNCHANGED <<phase,
             next_stop>>
        /\ cur = t
    BY <1>25 DEF ThreadStop, asthread_th_to_stop, Running
  <2>2. phase \in {"io", "accept", "io_timeout", "sleep"} /\ status[t] # "STOP"
    BY <1>25, <2>1, CurAllocated DEF PhaseSound, Running, ThreadStop, PlaceSound
  <2>3. /\ Len(stop_threads') = Len(stop_threads) + 1
        /\ stop_threads'[Len(stop_threads) + 1] = t
        /\ \A i \in 1 .. Len(stop_threads) : stop_threads'[i] = stop_threads[i]
    BY <2>1 DEF TypeOK
  <2> QED
    BY <2>1, <2>2, <2>3 DEF TypeOK
<1>26. ASSUME NEW r \in Res, SocketClose(r)
      PROVE  StopsDone'
  BY <1>26 DEF SocketClose, LuaRuns, lcf_socket_close, TypeOK, PhaseSound
<1>27. CASE Sigint
  BY <1>27 DEF Sigint, TypeOK, PhaseSound
<1>28. CASE Terminated
  BY <1>28 DEF Terminated
<1>29. CASE UNCHANGED vars
  BY <1>29
<1>30. CASE AcceptRefused
  BY <1>30 DEF AcceptRefused, TypeOK, PhaseSound
<1>31. CASE LeftBranch
  BY <1>31 DEF LeftBranch, Untracked, TypeOK, PhaseSound
<1>32. CASE FreeTwice
  BY <1>32 DEF FreeTwice, Untracked, TypeOK, PhaseSound
<1>33. CASE SkipLoop
  BY <1>33 DEF SkipLoop, Untracked, TypeOK, PhaseSound
<1>34. ASSUME NEW r \in Res, NEW ev \in IO \cup {"err"}, StaleEvent(r, ev)
      PROVE  StopsDone'
  BY <1>34 DEF StaleEvent, Untracked, TypeOK, PhaseSound
<1>35. ASSUME NEW r \in Res, LuaReuses(r)
      PROVE  StopsDone'
  BY <1>35 DEF LuaReuses, LuaRuns, TypeOK, PhaseSound
<1> HIDE DEF StopQueueSound, StopsDone, loopVars, thVars, resVars, vars
<1> QED
  BY <1>1, <1>2, <1>3, <1>4, <1>5, <1>6, <1>7, <1>8, <1>9, <1>10,
     <1>11, <1>12, <1>13, <1>14, <1>15, <1>16, <1>17, <1>18, <1>19, <1>20,
     <1>21, <1>22, <1>23, <1>24, <1>25, <1>26, <1>27, <1>28, <1>29,
     <1>30, <1>31, <1>32, <1>33, <1>34, <1>35
     DEF Next, LoopStep, LuaStep, Leave

\* Every step keeps the trees and the continuations of their members in
\* agreement, and so the code a coroutine is resumed with.
LEMMA WaitsStep ==
  ASSUME TypeOK, PhaseSound, EventsOwned, PlaceSound, StopQueueSound,
         StopsDone, WaitsSound, ResumeCodeFits, [Next]_vars
  PROVE  (WaitsSound /\ ResumeCodeFits)'
<1> USE DEF WaitsSound, ResumeCodeFits, Looping, loopVars, thVars, resVars, vars
<1>1. CASE EpollWait
  BY <1>1 DEF EpollWait, Batches, Reportable, TypeOK, PhaseSound, Pools, NoArg
<1>2. CASE CloseCfd
  BY <1>2 DEF CloseCfd, TypeOK, PhaseSound, Pools, NoArg
<1>3. CASE HandleAccept
  BY <1>3 DEF HandleAccept, TypeOK, PhaseSound, Pools, NoArg
<1>4. CASE AcceptDone
  BY <1>4 DEF AcceptDone, TypeOK, PhaseSound, Pools, NoArg
<1>5. ASSUME NEW r \in Res, NEW ev \in IO \cup {"err"}, HandleFd(r, ev)
      PROVE  (WaitsSound /\ ResumeCodeFits)'
  <2>1. CASE asthread_th_is_stop(rth[r])
    BY <1>5, <2>1 DEF HandleFd, TypeOK
  <2>2. CASE ~asthread_th_is_stop(rth[r])
    BY <1>5, <2>2, HandleFdEffect DEF TypeOK, Pools
  <2> QED
    BY <2>1, <2>2
<1>6. ASSUME NEW t \in Thread, NEW r \in Res, NEW added \in AddOutcome,
     Accept(t, r, added)
      PROVE  (WaitsSound /\ ResumeCodeFits)'
  BY <1>6 DEF Accept, TypeOK, PhaseSound, Pools, NoArg, PlaceSound,
       ThreadReachableOnce, InOnePlace
<1>7. CASE ProcessIoTimeout
  BY <1>7 DEF ProcessIoTimeout, TakeExpired, TypeOK, PhaseSound, Pools, NoArg
<1>8. CASE ProcessSleep
  BY <1>8 DEF ProcessSleep, TakeExpired, TypeOK, PhaseSound, Pools, NoArg
<1>9. CASE ProcessStop
  BY <1>9 DEF ProcessStop, TypeOK, PhaseSound, Pools, NoArg
<1>10. ASSUME NEW t \in Thread, IoTimeout(t)
      PROVE  (WaitsSound /\ ResumeCodeFits)'
  BY <1>10 DEF IoTimeout, asthread_remove_res_from_epfd, thread_resume,
       asthread_th_is_stop, TypeOK, PhaseSound, Pools, NoArg
<1>11. ASSUME NEW t \in Thread, WakeSleeper(t)
      PROVE  (WaitsSound /\ ResumeCodeFits)'
  BY <1>11 DEF WakeSleeper, thread_resume, asthread_th_is_stop, TypeOK,
       PhaseSound, Pools, NoArg
<1>12. ASSUME NEW t \in Thread, RecycleFromPool(t)
      PROVE  (WaitsSound /\ ResumeCodeFits)'
  BY <1>12 DEF RecycleFromPool, FreeThread, asthread_th_free, TypeOK,
       PhaseSound, Pools, NoArg, PlaceSound, ThreadReachableOnce, InOnePlace
<1>13. CASE StopOne
  <2> DEFINE s == stop_threads[next_stop]
  <2>1. /\ phase = "stop" /\ s \in Thread
        /\ wait' = [wait EXCEPT ![s] = NoWait]
        /\ UNCHANGED <<phase, cur, expired, tree, arg>>
    BY <1>13 DEF StopOne, FreeThread, TypeOK
  <2>2. status[s] \in {"FREE", "STOP"}
    BY <1>13 DEF StopOne, StopsDone, StopQueueSound, TypeOK
  <2>3. s \notin tree["io"] \cup tree["sleep"]
    BY <2>1, <2>2 DEF PlaceSound, ThreadReachableOnce, Looping
  <2>4. cur = NULL
    BY <2>1 DEF PhaseSound
  <2> QED
    BY <2>1, <2>3, <2>4 DEF TypeOK, Pools
<1>14. CASE EndIteration
  BY <1>14 DEF EndIteration, TypeOK, PhaseSound, Pools, NoArg
<1>15. CASE LeaveLoop
  BY <1>15 DEF LeaveLoop, TypeOK, PhaseSound, Pools, NoArg
<1>16. CASE EndFinal
  BY <1>16 DEF EndFinal, TypeOK, PhaseSound, Pools, NoArg
<1>17. CASE EndDrain
  BY <1>17 DEF EndDrain, TypeOK, PhaseSound, Pools, NoArg
<1>18. CASE Finish
  BY <1>18 DEF Finish, TypeOK, PhaseSound, Pools, NoArg
<1>19. ASSUME NEW t \in Thread, NEW r \in Res, NEW added \in AddOutcome,
     SocketNew(t, r, added)
      PROVE  (WaitsSound /\ ResumeCodeFits)'
  BY <1>19 DEF SocketNew, Running, TypeOK, PhaseSound, Pools, NoArg
<1>20. ASSUME NEW t \in Thread, NEW r \in Res, SocketNewFails(t, r)
      PROVE  (WaitsSound /\ ResumeCodeFits)'
  BY <1>20 DEF SocketNewFails, Running, TypeOK, PhaseSound, Pools, NoArg
<1>21. ASSUME NEW t \in Thread, NEW ev \in EvMaps, EvBegin(t, ev)
      PROVE  (WaitsSound /\ ResumeCodeFits)'
  BY <1>21 DEF EvBegin, Running, EvMaps, TypeOK, PhaseSound, Pools, NoArg
<1>22. ASSUME NEW t \in Thread, EvEnd(t)
      PROVE  (WaitsSound /\ ResumeCodeFits)'
  BY <1>22 DEF EvEnd, Running, asthread_remove_res_from_epfd, TypeOK,
       PhaseSound, Pools, NoArg
<1>23. ASSUME NEW t \in Thread, NEW r \in Res, NEW k \in IoWaits, NEW io \in
     IO, YieldForIo(t, r, k, io)
      PROVE  (WaitsSound /\ ResumeCodeFits)'
  <2>1. /\ cur = t /\ cur' = NULL
        /\ wait' = [wait EXCEPT ![t] = [k |-> k, res |-> r]]
        /\ tree' = [tree EXCEPT !["io"] = @ \cup {t}]
        /\ UNCHANGED <<phase, expired>>
    BY <1>23 DEF YieldForIo, Running, Suspend, asthread_th_add_to_pool
  <2>2. t \notin expired \cup tree["io"] \cup tree["sleep"] /\ t # NULL
    BY <2>1 DEF PhaseSound, PlaceSound, ThreadReachableOnce, InOnePlace
  <2> QED
    BY <2>1, <2>2 DEF TypeOK, Pools
<1>24. ASSUME NEW t \in Thread, NEW k \in SleepWaits, YieldForSleep(t, k)
      PROVE  (WaitsSound /\ ResumeCodeFits)'
  <2>1. /\ cur = t /\ cur' = NULL
        /\ wait' = [wait EXCEPT ![t] = [k |-> k, res |-> NULL]]
        /\ tree' = [tree EXCEPT !["sleep"] = @ \cup {t}]
        /\ UNCHANGED <<phase, expired>>
    BY <1>24 DEF YieldForSleep, Running, Suspend, asthread_th_add_to_pool
  <2>2. t \notin expired \cup tree["io"] \cup tree["sleep"] /\ t # NULL
    BY <2>1 DEF PhaseSound, PlaceSound, ThreadReachableOnce, InOnePlace
  <2> QED
    BY <2>1, <2>2 DEF TypeOK, Pools
<1>25. ASSUME NEW t \in Thread, ThreadStop(t)
      PROVE  (WaitsSound /\ ResumeCodeFits)'
  BY <1>25 DEF ThreadStop, Running, Suspend, asthread_th_to_stop, TypeOK,
       PhaseSound, Pools, NoArg, PlaceSound, ThreadReachableOnce, InOnePlace
<1>26. ASSUME NEW r \in Res, SocketClose(r)
      PROVE  (WaitsSound /\ ResumeCodeFits)'
  BY <1>26 DEF SocketClose, LuaRuns, lcf_socket_close, TypeOK, PhaseSound, Pools, NoArg
<1>27. CASE Sigint
  BY <1>27 DEF Sigint, TypeOK, PhaseSound, Pools, NoArg
<1>28. CASE Terminated
  BY <1>28 DEF Terminated
<1>29. CASE UNCHANGED vars
  BY <1>29
<1>30. CASE AcceptRefused
  BY <1>30 DEF AcceptRefused, TypeOK, PhaseSound, Pools, NoArg
<1>31. CASE LeftBranch
  BY <1>31 DEF LeftBranch, Untracked, TypeOK, PhaseSound, Pools, NoArg
<1>32. CASE FreeTwice
  BY <1>32 DEF FreeTwice, Untracked, TypeOK, PhaseSound, Pools, NoArg
<1>33. CASE SkipLoop
  BY <1>33 DEF SkipLoop, Untracked, TypeOK, PhaseSound, Pools, NoArg
<1>34. ASSUME NEW r \in Res, NEW ev \in IO \cup {"err"}, StaleEvent(r, ev)
      PROVE  (WaitsSound /\ ResumeCodeFits)'
  BY <1>34 DEF StaleEvent, Untracked, TypeOK, PhaseSound, Pools, NoArg
<1>35. ASSUME NEW r \in Res, LuaReuses(r)
      PROVE  (WaitsSound /\ ResumeCodeFits)'
  BY <1>35 DEF LuaReuses, LuaRuns, TypeOK, PhaseSound, Pools, NoArg
<1> HIDE DEF WaitsSound, ResumeCodeFits, Looping, loopVars, thVars, resVars,
     vars
<1> QED
  BY <1>1, <1>2, <1>3, <1>4, <1>5, <1>6, <1>7, <1>8, <1>9, <1>10,
     <1>11, <1>12, <1>13, <1>14, <1>15, <1>16, <1>17, <1>18, <1>19, <1>20,
     <1>21, <1>22, <1>23, <1>24, <1>25, <1>26, <1>27, <1>28, <1>29,
     <1>30, <1>31, <1>32, <1>33, <1>34, <1>35
     DEF Next, LoopStep, LuaStep, Leave

-----------------------------------------------------------------------------
\* The initial state satisfies the inductive invariant.
LEMMA InitIInv == Init => IInv
BY DEF Init, IInv, TypeOK, PhaseSound, EventsOwned, ResSound, ResListSound,
       OpenFdOwned, ConnectionHeld, UserdataOwnerLive, BlocksSound, PlaceSound,
       ThreadReachableOnce, PoolPointerValid, ExitSound, StopQueueSound,
       StopsDone, WaitsSound, ResumeCodeFits, Looping, Allocated, NoArg, NoWait,
       Phases, Pools, IO, IoWaits, SleepWaits

\* Every step keeps the inductive invariant.
LEMMA StepIInv == IInv /\ [Next]_vars => IInv'
<1> SUFFICES ASSUME IInv, [Next]_vars PROVE IInv'
  OBVIOUS
<1>1. /\ TypeOK /\ PhaseSound /\ EventsOwned /\ ResSound /\ PlaceSound
      /\ StopQueueSound /\ StopsDone /\ WaitsSound /\ ResumeCodeFits
      /\ ThreadReachableOnce
  BY DEF IInv, PlaceSound
<1>2. TypeOK' /\ PhaseSound'
  BY <1>1, TypeStep, PhaseStep
<1>3. EventsOwned' /\ ResSound'
  BY <1>1, EventsOwnedStep, ResSoundStep
<1>4. PlaceSound'
  BY <1>1, ReachStep, PointerStep, ExitStep DEF PlaceSound
<1>5. StopQueueSound' /\ StopsDone'
  BY <1>1, StopQueueStep, StopsDoneStep
<1>6. WaitsSound' /\ ResumeCodeFits'
  BY <1>1, WaitsStep
<1> QED
  BY <1>2, <1>3, <1>4, <1>5, <1>6 DEF IInv

\* The inductive invariant holds in every state of a worker the module follows it
\* to: what it says of timer trees is about behaviours before LeftBranch.
THEOREM WorkerInvariant == Spec => []IInv
BY InitIInv, StepIInv, PTL DEF Spec

\* The variables keep their types: in particular no step writes outside the
\* state of the threads and resources it handles.
THEOREM WorkerTypes == Spec => []TypeOK
<1>1. IInv => TypeOK
  BY DEF IInv
<1> QED
  BY <1>1, WorkerInvariant, PTL

\* Whatever earlier handlers of the same batch did, res->th of an event's block
\* does not lead process_io to a recycled thread; it can lead to garbage, but only
\* when the resource was closed and Lua has taken its block.
THEOREM EventsAlwaysOwned == Spec => []EventsOwned
<1>1. IInv => EventsOwned
  BY DEF IInv
<1> QED
  BY <1>1, WorkerInvariant, PTL

\* As long as no tree was cut below its root, the loop never loses a thread and
\* never holds one in two places.
THEOREM ThreadsReachableOnce == Spec => []ThreadReachableOnce
<1>1. IInv => ThreadReachableOnce
  BY DEF IInv, PlaceSound
<1> QED
  BY <1>1, WorkerInvariant, PTL

\* As long as no tree was cut below its root, rb_tree_delete is only asked to
\* delete a node from the tree it is in.
THEOREM PoolPointersValid == Spec => []PoolPointerValid
<1>1. IInv => PoolPointerValid
  BY DEF IInv, PlaceSound
<1> QED
  BY <1>1, WorkerInvariant, PTL

\* Each stopped thread is recycled exactly once by the pass that ends its
\* iteration.
THEOREM StopsQueuedOnce == Spec => []StopQueueSound
<1>1. IInv => StopQueueSound
  BY DEF IInv
<1> QED
  BY <1>1, WorkerInvariant, PTL

\* asthread_th_free closes only fds of the thread it frees.
THEOREM ResListsSound == Spec => []ResListSound
<1>1. IInv => ResListSound
  BY DEF IInv, ResSound
<1> QED
  BY <1>1, WorkerInvariant, PTL

\* Every open fd that was put in a resource is on the list of an allocated thread,
\* which closes it; the fd of a connection that got no coroutine is in none.
THEOREM NoFdLeak == Spec => []OpenFdOwned
<1>1. IInv => OpenFdOwned
  BY DEF IInv, ResSound
<1> QED
  BY <1>1, WorkerInvariant, PTL

\* A thread keeps its connection until it is recycled.
THEOREM ConnectionsHeld == Spec => []ConnectionHeld
<1>1. IInv => ConnectionHeld
  BY DEF IInv, ResSound
<1> QED
  BY <1>1, WorkerInvariant, PTL

\* close() and __gc never unlink a resource from a recycled thread.
THEOREM UserdataOwnersLive == Spec => []UserdataOwnerLive
<1>1. IInv => UserdataOwnerLive
  BY DEF IInv, ResSound
<1> QED
  BY <1>1, WorkerInvariant, PTL

\* As long as no tree was cut below its root, the timeout code a coroutine is
\* resumed with is the one of the kind of wait it is in.
THEOREM ResumeCodesFit == Spec => []ResumeCodeFits
<1>1. IInv => ResumeCodeFits
  BY DEF IInv
<1> QED
  BY <1>1, WorkerInvariant, PTL

\* When process() gets to its end after SIGINT, which it does unless the last
\* iteration stopped a thread or there was none, every thread and resource has been
\* recycled and every fd in one closed.
THEOREM ExitLeavesNothing == Spec => []NothingLeftAtExit
<1>1. IInv => NothingLeftAtExit
  BY DEF IInv, PlaceSound, ExitSound, ResSound, OpenFdOwned, BlocksSound,
         NothingLeftAtExit
<1> QED
  BY <1>1, WorkerInvariant, PTL

=============================================================================
