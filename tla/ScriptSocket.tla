---------------------------- MODULE ScriptSocket ----------------------------
(***************************************************************************)
(* What a script sees of a socket: the calls of lm_socket.c and of         *)
(* socket.lua on one connection, their continuations after a yield, and    *)
(* the edge-triggered readiness that resumes them.  Bytes are numbered in  *)
(* the order they are written.  Which threads and blocks exist is module   *)
(* Worker's subject; here there is one coroutine and its socket.           *)
(***************************************************************************)
EXTENDS Naturals, Sequences, SequencesExt, FiniteSetsExt

CONSTANTS
  MaxIn,   \* bytes the peer writes
  MaxOut,  \* bytes the script sends
  MaxLen,  \* the longest buffer it gives to one call
  ReadSize, \* 1024, what read_all asks for at a time and n <= 0 stands for
  SendCap, \* bytes the kernel buffers before send answers EAGAIN
  Script   \* which scripts run: "calls" (any calls), "loop" (ev_wait, read_all)

ASSUME ScriptSocketAssumption ==
  /\ MaxIn \in Nat /\ MaxOut \in Nat /\ MaxLen \in Nat /\ SendCap \in Nat \ {0}
  /\ ReadSize \in Nat \ {0}
  /\ Script \subseteq {"calls", "loop"}

VARIABLES
  script,  \* the script that runs
  co,      \* the coroutine: "run", waiting in "read", "send" or "ev", inside
           \* "sending" or "read_all", "raised" (a Lua error) or "done"
  ctx,     \* the _send_ctx_t of the send under way: [len, idx]
  nbyte,   \* bytes read_all has so far
  pos,     \* bytes the script believes it has sent
  got,     \* bytes it has been given
  eof,     \* it has been told of the end of the stream
  inq,     \* received bytes, not read
  written, \* bytes the peer has written
  fin,     \* the peer has shut its side down
  reset,   \* the connection has been reset
  out,     \* bytes the kernel has taken from the script
  outq,    \* how many of them the peer has not taken
  mask,    \* events registered with epoll (always with EPOLLET)
  rdy      \* the socket is on epoll's ready list

scriptVars == <<script, co, ctx, nbyte, pos, got, eof>>
netVars    == <<inq, written, fin, reset, out, outq>>
sockVars   == <<scriptVars, netVars, mask, rdy>>

NoCtx   == [len |-> 0, idx |-> 0]
Waiting == {"read", "send", "ev"}

SockInit ==
  /\ script \in Script /\ co = "run" /\ ctx = NoCtx /\ nbyte = 0
  /\ pos = 0 /\ got = << >> /\ eof = FALSE
  /\ inq = << >> /\ written = 0 /\ fin = FALSE /\ reset = FALSE
  /\ out = << >> /\ outq = 0 /\ mask = {} /\ rdy = FALSE

-----------------------------------------------------------------------------
(* The kernel: what poll would say, and when epoll lists the socket.        *)

Ready ==
  (IF inq # << >> \/ fin \/ reset THEN {"in"} ELSE {})
    \cup (IF outq < SendCap \/ reset THEN {"out"} ELSE {})
    \cup (IF reset THEN {"err"} ELSE {})

\* EPOLL_CTL_MOD of asthread_res_ev_add: the socket is listed when it is ready
\* now, whatever was reported before
asthread_res_ev_add(events) ==
  /\ mask' = events
  /\ rdy' = (rdy \/ Ready \cap (events \cup {"err"}) # {})

PeerWrite ==
  /\ written < MaxIn /\ ~fin /\ ~reset
  /\ written' = written + 1 /\ inq' = Append(inq, written') /\ rdy' = TRUE
  /\ UNCHANGED <<scriptVars, fin, reset, out, outq, mask>>

PeerShut ==
  /\ ~fin /\ ~reset
  /\ fin' = TRUE /\ rdy' = TRUE
  /\ UNCHANGED <<scriptVars, inq, written, reset, out, outq, mask>>

PeerTake ==
  /\ outq > 0 /\ ~reset
  /\ outq' = outq - 1 /\ rdy' = TRUE
  /\ UNCHANGED <<scriptVars, inq, written, fin, reset, out, mask>>

PeerReset ==
  /\ ~reset /\ reset' = TRUE /\ rdy' = TRUE
  /\ UNCHANGED <<scriptVars, inq, written, fin, out, outq, mask>>

\* what read(2) answers
ReadAnswer ==
  CASE inq # << >> -> "data"
    [] inq = << >> /\ reset -> "errno"
    [] inq = << >> /\ ~reset /\ fin -> "eof"
    [] OTHER -> "EAGAIN"

\* send(2) of len bytes: how many the kernel takes
Taken(len) == Min({len, SendCap - outq})
SendAnswer(len) ==
  CASE reset -> "errno"
    [] ~reset /\ len > 0 /\ outq = SendCap -> "EAGAIN"
    [] OTHER -> "taken"

\* the bytes from the script's i-th on, k of them, go out
PutOnWire(i, k) ==
  /\ out' = out \o [x \in 1 .. k |-> i + x]
  /\ outq' = outq + k

-----------------------------------------------------------------------------
(* Calls that do not yield.                                                 *)

MayCall == script = "calls" /\ co = "run"

Wanted(n) == IF n <= 0 THEN ReadSize ELSE n

\* faulty variant: the bytes that did not fit are dropped
TakeAll(n) ==
  LET k == Min({n, Len(inq)})
  IN  /\ got' = got \o SubSeq(inq, 1, k) /\ inq' = << >>
      /\ eof' = (eof \/ ReadAnswer = "eof")

\* read(fd, buf, n) and its three results, given to the script
ReadFd(n) ==
  LET k == Min({n, Len(inq)})
  IN  /\ got' = got \o SubSeq(inq, 1, k)
      /\ inq' = SubSeq(inq, k + 1, Len(inq))
      /\ eof' = (eof \/ ReadAnswer = "eof")

lcf_socket_sread(n) ==
  /\ MayCall /\ ReadFd(Wanted(n))
  /\ UNCHANGED <<script, co, ctx, nbyte, pos, written, fin, reset, out, outq,
                 mask, rdy>>

\* the count ssend returns
SsendCount(len) == IF SendAnswer(len) = "taken" THEN Taken(len) ELSE 0

lcf_socket_ssend(len) ==
  /\ MayCall /\ pos + len <= MaxOut
  /\ PutOnWire(pos, IF SendAnswer(len) = "taken" THEN Taken(len) ELSE 0)
  /\ pos' = pos + SsendCount(len)
  /\ UNCHANGED <<script, co, ctx, nbyte, got, eof, inq, written, fin, reset,
                 mask, rdy>>

-----------------------------------------------------------------------------
(* Calls that yield.  A continuation finds the frame of its call and then   *)
(* the values of the resume, of which the first is the code; the frames are *)
(* read(sock, n, timeout), send(sock, buf) with the worker's context, and   *)
(* ev_wait(timeout).                                                        *)

Frame ==
  [read |-> <<"sock", "int", "int">>, send |-> <<"sock", "str", "ptr">>,
   ev |-> <<"int">>]

\* the index each continuation gives to luaL_checkinteger
TypeIndex == [read |-> 4, send |-> 1, ev |-> 2]

\* luaL_checkinteger finds the code there; otherwise it raises an error
CodeFound(k) == Append(Frame[k], "code")[TypeIndex[k]] = "code"

\* lcf_socket_read and th_yield_for_io
lcf_socket_read ==
  /\ MayCall /\ co' = "read"
  /\ asthread_res_ev_add({"in"})
  /\ UNCHANGED <<script, ctx, nbyte, pos, got, eof, netVars>>

\* lcf_socket_send: the context, then k_socket_send with LUA_OK
lcf_socket_send(len) ==
  /\ MayCall /\ pos + len <= MaxOut
  /\ co' = "sending" /\ ctx' = [len |-> len, idx |-> 0]
  /\ UNCHANGED <<script, nbyte, pos, got, eof, netVars, mask, rdy>>

\* faulty variant: idx stays where it is after a send that took a part
IdxStays(k) == ctx.idx

IdxAfter(k) == ctx.idx + k

\* One turn of the loop of k_socket_send: all taken, a part taken, EAGAIN (it
\* yields for output), or another error
SendTurn ==
  LET len == ctx.len - ctx.idx
      k   == Taken(len)
  IN  /\ co = "sending"
      /\ CASE SendAnswer(len) = "taken" ->
                /\ PutOnWire(pos + ctx.idx, k)
                /\ IF k = len
                   THEN co' = "run" /\ ctx' = NoCtx /\ pos' = pos + ctx.len
                   ELSE co' = co /\ ctx' = [ctx EXCEPT !.idx = IdxAfter(k)] /\ pos' = pos
                /\ UNCHANGED <<mask, rdy>>
           [] SendAnswer(len) = "EAGAIN" ->
                /\ co' = "send" /\ asthread_res_ev_add({"out"})
                /\ UNCHANGED <<ctx, pos, out, outq>>
           [] OTHER ->
                /\ co' = "run" /\ ctx' = NoCtx /\ pos' = pos + ctx.idx
                /\ UNCHANGED <<mask, rdy, out, outq>>
      /\ UNCHANGED <<script, nbyte, got, eof, inq, written, fin, reset>>

\* lcf_socket_ev_begin of this socket for input, and ev_wait
EvBegin ==
  /\ script = "loop" /\ co = "run" /\ co' = "ev"
  /\ asthread_res_ev_add({"in"})
  /\ UNCHANGED <<script, ctx, nbyte, pos, got, eof, netVars>>

\* The continuations.  k_socket_read reads what there is, after an error too;
\* k_socket_send goes on with its loop; ev_wait returns to the script, which
\* calls read_all.
Resumed(k, n) ==
  IF ~CodeFound(k)
  THEN co' = "raised" /\ UNCHANGED <<got, inq, eof>>
  ELSE /\ co' = CASE k = "read" -> "run"
                  [] k = "send" -> "sending"
                  [] k = "ev" -> "read_all"
       /\ IF k = "read" THEN ReadFd(Wanted(n)) ELSE UNCHANGED <<got, inq, eof>>

\* process_io: the socket leaves the ready list; it is reported if it is still
\* ready for something registered (errors always are), and the coroutine runs
Deliver(n) ==
  /\ co \in Waiting /\ rdy /\ rdy' = FALSE
  /\ IF Ready \cap (mask \cup {"err"}) = {}
     THEN UNCHANGED <<co, got, inq, eof>>
     ELSE IF co = "ev" /\ "err" \in Ready
          THEN UNCHANGED <<co, got, inq, eof>>   \* typ is no RESUME_IO: the script waits again
          ELSE Resumed(co, n)
  /\ UNCHANGED <<script, ctx, nbyte, pos, written, fin, reset, out, outq, mask>>

\* p_io_timeout_thread and, in ev_wait, p_sleep_thread: read answers ETIMEDOUT,
\* send the bytes that went out, and the script of the loop waits again
Timeout ==
  /\ co \in Waiting
  /\ co' = IF ~CodeFound(co) THEN "raised"
           ELSE IF co = "ev" THEN "ev" ELSE "run"
  /\ pos' = IF co = "send" /\ CodeFound(co) THEN pos + ctx.idx ELSE pos
  /\ ctx' = IF co = "send" /\ CodeFound(co) THEN NoCtx ELSE ctx
  /\ UNCHANGED <<script, nbyte, got, eof, netVars, mask, rdy>>

\* faulty variant: one read per event
ReadOnce == "ev"

\* read_all reads on while there is data
AfterData == "read_all"

\* One sread(1024) of read_all, and its end: bytes and then EAGAIN or the end
\* of the stream is success; the end alone is "conn close"; the script leaves
\* its loop on every error
ReadAllTurn ==
  /\ co = "read_all"
  /\ ReadFd(ReadSize)
  /\ nbyte' = IF ReadAnswer = "data" THEN nbyte + Min({ReadSize, Len(inq)}) ELSE 0
  /\ co' = CASE ReadAnswer = "data" -> AfterData
             [] ReadAnswer \in {"EAGAIN", "eof"} /\ nbyte # 0 -> "ev"
             [] OTHER -> "done"
  /\ UNCHANGED <<script, ctx, pos, written, fin, reset, out, outq, mask, rdy>>

\* the script ends
ScriptEnds ==
  /\ MayCall /\ co' = "done"
  /\ UNCHANGED <<script, ctx, nbyte, pos, got, eof, netVars, mask, rdy>>

Peer == PeerWrite \/ PeerShut \/ PeerTake \/ PeerReset
Call ==
  \/ \E n \in 0 .. MaxLen : lcf_socket_sread(n)
  \/ \E len \in 0 .. MaxLen : lcf_socket_ssend(len) \/ lcf_socket_send(len)
  \/ lcf_socket_read \/ EvBegin \/ ScriptEnds
Event == \E n \in 0 .. MaxLen : Deliver(n)

SockNext == Peer \/ Call \/ SendTurn \/ ReadAllTurn \/ Event \/ Timeout

SockSpec == SockInit /\ [][SockNext]_sockVars

\* The event loop goes on, and a call that was started runs on; where the
\* coroutine is says which of these steps it can take.
Go == Event \/ SendTurn \/ ReadAllTurn \/ EvBegin

SockFairSpec == SockSpec /\ WF_sockVars(Go)

-----------------------------------------------------------------------------
\* What the script is given is the peer's stream: no byte is lost, repeated or
\* out of order whatever call takes it, and the end is told after the last one.
InStream ==
  /\ got \o inq = [i \in 1 .. written |-> i]
  /\ eof => fin /\ Len(got) = written

\* A script that goes on after the count a call returned (ssend's partial count,
\* send's after an error) leaves no gap and sends no byte twice.
OutStream ==
  /\ out = [i \in 1 .. Len(out) |-> i]
  /\ co = "run" => pos = Len(out)

\* Bytes that are there for a coroutine that waits in read or ev_wait wake it,
\* though an edge is reported once: each wait registers again, and read_all
\* empties the socket.
InputServed == (co \in {"read", "ev"} /\ inq # << >> /\ ~reset) ~> (co \notin {"read", "ev"} \/ reset)

\* A send that had to wait for room goes on with its loop, or returns.
SendGoesOn == [][co = "send" => co' # "raised"]_sockVars

\* The script of the loop learns that the peer has closed.
CloseNoticed == (script = "loop" /\ fin) ~> (co = "done" \/ reset)
=============================================================================
