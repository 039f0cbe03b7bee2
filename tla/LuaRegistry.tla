----------------------------- MODULE LuaRegistry -----------------------------
(***************************************************************************)
(* lua_bind.c with asthread_th_init and asthread_th_free of thread.c: how  *)
(* the worker keeps the coroutine of a thread alive.  The tables are in    *)
(* the registry of the worker's Lua state: tid |-> coroutine, which holds  *)
(* it; coroutine |-> local variables, with weak keys; file |-> chunk.      *)
(* Every function of lua_bind.c runs under lua_pcall, which may fail for   *)
(* want of memory, and Lua's collector may run at any time.                *)
(***************************************************************************)
EXTENDS Null, Naturals, FiniteSets, Functions

CONSTANTS
  Thread,    \* addresses of an as_thread_t, given out again after a recycle
  Coroutine, \* addresses of a lua_State, given out again when collected
  MaxTid     \* bound: tids that are given, far below 2^32 - 1

\* thread.h: before and after LLK_THREAD is set, then as in as_thread_t
Status == {"init", "ready", "run", "stop"}

ASSUME LuaRegistryAssumption ==
  /\ MaxTid \in Nat
  /\ NULL \notin [tid : Nat, T : Coroutine, status : Status] \cup Thread \cup Coroutine

VARIABLES
  tables,      \* lcf_init_state has made the tables
  chunk,       \* the entry of lfile: "code", "message" (it did not load) or "none"
  cur_tid,     \* cur_tid
  tid_thread,  \* LRK_TID_THREAD_TABLE
  local_vars,  \* LRK_THREAD_LOCAL_VAR_TABLE: the th in LLK_THREAD, or NULL
  lthread,     \* the coroutines that exist
  th,          \* the threads: [tid, T, status], or NULL
  unnamed      \* threads whose LLK_THREAD could not be set

registryVars == <<tables, chunk, cur_tid, tid_thread, local_vars, lthread, th, unnamed>>

\* lbind_init_state and lbind_ref_lcode_chunk, whose failures process ignores;
\* luaL_loadfile leaves an error message in place of the chunk
lbind_init_state ==
  /\ tables \in BOOLEAN
  /\ chunk \in IF tables THEN {"code", "message", "none"} ELSE {"none"}
  /\ cur_tid = 0 /\ tid_thread = << >> /\ local_vars = << >> /\ lthread = {}
  /\ th = [t \in Thread |-> NULL] /\ unnamed = {}

With(f, x, y) == [z \in DOMAIN f \cup {x} |-> IF z = x THEN y ELSE f[z]]

-----------------------------------------------------------------------------
\* lcf_ref_tid_lthread up to the point where it fails: "start", "anchored" when
\* the coroutine is in the first table only, or "done"
lbind_ref_tid_lthread(tid, T, point) ==
  /\ lthread' = IF point = "start" THEN lthread ELSE lthread \cup {T}
  /\ tid_thread' = IF point = "start" THEN tid_thread ELSE With(tid_thread, tid, T)
  /\ local_vars' = IF point = "done" THEN With(local_vars, T, NULL) ELSE local_vars

\* handle_accept: a block for the thread, asthread_th_init and, when it fails, the
\* recycling of the block (the accepted socket stays open)
asthread_th_init(t, T, point) ==
  /\ th[t] = NULL /\ T \notin lthread /\ cur_tid < MaxTid
  /\ tables \/ point = "start"
  /\ lbind_ref_tid_lthread(cur_tid + 1, T, point)
  /\ IF point = "done"
     THEN /\ cur_tid' = cur_tid + 1
          /\ th' = [th EXCEPT ![t] = [tid |-> cur_tid', T |-> T, status |-> "init"]]
     ELSE UNCHANGED <<cur_tid, th>>     \* cur_tid += 1, cur_tid -= 1
  /\ UNCHANGED <<tables, chunk, unnamed>>

\* handle_accept's lbind_set_thread_local_vars, whose result is ignored
SetLocalVars(t, fails) ==
  /\ th[t] # NULL /\ th[t].status = "init"
  /\ th' = [th EXCEPT ![t].status = "ready"]
  /\ local_vars' = IF fails THEN local_vars ELSE With(local_vars, th[t].T, t)
  /\ unnamed' = IF fails THEN unnamed \cup {t} ELSE unnamed
  /\ UNCHANGED <<tables, chunk, cur_tid, tid_thread, lthread>>

\* thread_resume of a ready thread: lbind_get_lcode_chunk, then the chunk runs
\* and yields in the end, or what was found cannot be called
ThreadStart(t, found) ==
  /\ th[t] # NULL /\ th[t].status = "ready"
  /\ found \in {chunk, "none"}
  /\ th' = [th EXCEPT ![t].status = IF found = "code" THEN "run" ELSE "stop"]
  /\ UNCHANGED <<tables, chunk, cur_tid, tid_thread, local_vars, lthread, unnamed>>

\* the script returns or fails, at once or after a resume
ThreadStop(t) ==
  /\ th[t] # NULL /\ th[t].status = "run"
  /\ th' = [th EXCEPT ![t].status = "stop"]
  /\ UNCHANGED <<tables, chunk, cur_tid, tid_thread, local_vars, lthread, unnamed>>

\* faulty variant: the entry of the newest thread goes
NewestTid(t) == cur_tid

\* the entry asthread_th_free takes out
UnrefTid(t) == th[t].tid

\* asthread_th_free, from process_stop_threads or recycle_threads_from_pool:
\* lbind_unref_tid_lthread on the thread's own coroutine, then memp_recycle
asthread_th_free(t, fails) ==
  /\ th[t] # NULL /\ th[t].status \in {"run", "stop"}
  /\ tid_thread' = IF fails THEN tid_thread
                   ELSE Restrict(tid_thread, DOMAIN tid_thread \ {UnrefTid(t)})
  /\ th' = [th EXCEPT ![t] = NULL] /\ unnamed' = unnamed \ {t}
  /\ UNCHANGED <<tables, chunk, cur_tid, local_vars, lthread>>

\* Lua's collector: a coroutine that the first table does not hold, and its
\* entry in the second
Collect(T) ==
  /\ T \in lthread \ Range(tid_thread)
  /\ lthread' = lthread \ {T}
  /\ local_vars' = Restrict(local_vars, DOMAIN local_vars \ {T})
  /\ UNCHANGED <<tables, chunk, cur_tid, tid_thread, th, unnamed>>

\* lbind_get_thread_local_vars(T, 1, LLK_THREAD), as the functions of the socket
\* and base modules call it: the th they work on
lbind_get_thread_local_vars(T) == IF T \in DOMAIN local_vars THEN local_vars[T] ELSE NULL

RegistryNext ==
  \/ \E t \in Thread, T \in Coroutine, point \in {"start", "anchored", "done"} :
       asthread_th_init(t, T, point)
  \/ \E t \in Thread :
       \/ \E fails \in BOOLEAN : SetLocalVars(t, fails) \/ asthread_th_free(t, fails)
       \/ \E found \in {"code", "message", "none"} : ThreadStart(t, found)
       \/ ThreadStop(t)
  \/ \E T \in Coroutine : Collect(T)

RegistrySpec == lbind_init_state /\ [][RegistryNext]_registryVars

-----------------------------------------------------------------------------
\* The coroutine of a thread exists until the thread is freed, held under the
\* thread's tid, and a library call its script makes finds this very thread (or
\* none, when setting it failed): whichever calls failed for want of memory, with
\* blocks and coroutines reused, and wherever the collector ran.
Anchored ==
  \A t \in {x \in Thread : th[x] # NULL} :
    LET T == th[t].T IN
    /\ T \in lthread
    /\ th[t].tid \in DOMAIN tid_thread /\ tid_thread[th[t].tid] = T
    /\ th[t].status # "init" =>
         lbind_get_thread_local_vars(T) = IF t \in unnamed THEN NULL ELSE t
=============================================================================
