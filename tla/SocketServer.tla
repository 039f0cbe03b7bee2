---------------------------- MODULE SocketServer -----------------------------
(***************************************************************************)
(* socketframe/server: the accept loop of NewSocketServer and the          *)
(* goroutines of one connection.  handle runs the protocol's callbacks on  *)
(* the events of a bounded channel, readBytes puts the bytes of the        *)
(* connection into it, and other goroutines put messages into it with      *)
(* SendInfoTo.                                                             *)
(***************************************************************************)
EXTENDS Naturals, Sequences, SequencesExt, FiniteSets

CONSTANTS
  Sender,    \* goroutines that call SendInfoTo, once each
  Cap,       \* capacity of eventChannel, 16 in NewSocketServer
  MaxChunk,  \* bound: reads the peer's bytes make
  MaxDelay   \* 1 second, the longest wait of the accept loop, in milliseconds

ASSUME SocketServerAssumption ==
  Cap \in Nat \ {0} /\ MaxChunk \in Nat /\ MaxDelay \in Nat \ {0}

VARIABLES
  server,       \* NewSocketServer: "accept", "sleep", or "exited" (os.Exit)
  tempDelay,    \* its wait after a temporary error
  eventChannel, \* worker.eventChannel
  alive,        \* worker.alive
  wconn,        \* worker.conn: "none" before Accept, "open", "closed" by handle
  remote,       \* the peer: "open", or how its stream ends: "eof" or "reset"
  inbox,        \* chunks the peer wrote and readBytes has not read
  wrote,        \* number of chunks the peer wrote
  handler,      \* where handle is
  reader,       \* where readBytes is
  reading,      \* the event readBytes is about to send
  sender,       \* where each SendInfoTo is
  handled,      \* the events the protocol has handled
  reason        \* the reason Terminal was called with

acceptVars == <<server, tempDelay>>
remoteVars == <<remote, wrote>>
handleVars == <<handler, alive, wconn, handled, reason>>
readVars   == <<reader, reading, inbox>>
serverVars == <<acceptVars, remoteVars, handleVars, readVars, eventChannel, sender>>

ConnClose == <<"close">>

NotCalled == [s \in Sender |-> "idle"]

ServerInit ==
  /\ server = "accept" /\ tempDelay = 0
  /\ eventChannel = <<>> /\ alive = TRUE /\ wconn = "none" /\ remote = "open"
  /\ inbox = <<>> /\ wrote = 0 /\ handled = <<>> /\ reason = "none"
  /\ handler = "off" /\ reader = "off" /\ reading = ConnClose
  /\ sender = NotCalled

\* the process has not been ended by the accept loop
Up == server # "exited"

-----------------------------------------------------------------------------
(* NewSocketServer, and the peer.                                           *)

\* Accept returns the connection: newWorker, go handle
Serve ==
  /\ server = "accept" /\ handler = "off"
  /\ tempDelay' = 0 /\ wconn' = "open" /\ handler' = "init"
  /\ UNCHANGED <<server, remoteVars, alive, handled, reason, readVars, eventChannel, sender>>

\* 2 ms, doubled each time, at most MaxDelay
Backoff(d) ==
  LET next == IF d = 0 THEN 2 ELSE 2 * d
  IN  IF next > MaxDelay THEN MaxDelay ELSE next

\* a temporary error, and the end of the sleep (what the loop does once the
\* connection is served touches nothing of it, except os.Exit)
AcceptTemporary ==
  /\ server = "accept" /\ handler = "off"
  /\ tempDelay' = Backoff(tempDelay) /\ server' = "sleep"
  /\ UNCHANGED <<remoteVars, handleVars, readVars, eventChannel, sender>>

AcceptRetry ==
  /\ server = "sleep" /\ server' = "accept"
  /\ UNCHANGED <<tempDelay, remoteVars, handleVars, readVars, eventChannel, sender>>

\* any other error: os.Exit, and the goroutines and their connection are gone
AcceptFatal ==
  /\ server = "accept" /\ server' = "exited" /\ tempDelay' = 0
  /\ eventChannel' = <<>> /\ alive' = FALSE /\ wconn' = "closed" /\ remote' = "open"
  /\ inbox' = <<>> /\ wrote' = 0 /\ handled' = <<>> /\ reason' = "none"
  /\ handler' = "off" /\ reader' = "off" /\ reading' = ConnClose
  /\ sender' = NotCalled

RemoteWrite ==
  /\ Up /\ wconn # "none" /\ remote = "open" /\ wrote < MaxChunk
  /\ wrote' = wrote + 1 /\ inbox' = Append(inbox, wrote')
  /\ UNCHANGED <<acceptVars, remote, handleVars, reader, reading, eventChannel, sender>>

RemoteEnd(how) ==
  /\ Up /\ wconn # "none" /\ remote = "open" /\ remote' = how
  /\ UNCHANGED <<acceptVars, wrote, handleVars, readVars, eventChannel, sender>>

-----------------------------------------------------------------------------
(* handle.                                                                  *)

\* protocol.Init; on success readBytes is started
HandleInit(outcome) ==
  /\ Up /\ handler = "init"
  /\ IF outcome = "ok"
     THEN handler' = "loop" /\ reader' = "check" /\ UNCHANGED reason
     ELSE handler' = "dead" /\ reason' = outcome /\ UNCHANGED reader
  /\ UNCHANGED <<acceptVars, remoteVars, alive, wconn, handled, reading, inbox,
                 eventChannel, sender>>

\* faulty variant: the newest event is taken
TakeNewest(ch) == <<ch[Len(ch)], Front(ch)>>

TakeEvent(ch) == <<Head(ch), Tail(ch)>>

\* one iteration: the event, the callback, and what its reply asks for; the
\* bytes of a reply are written next
HandleEvent(outcome) ==
  LET e == TakeEvent(eventChannel)[1] IN
  /\ Up /\ handler = "loop" /\ eventChannel # <<>>
  /\ eventChannel' = TakeEvent(eventChannel)[2]
  /\ IF e = ConnClose
     THEN handler' = "dead" /\ reason' = "conn_close" /\ UNCHANGED handled
     ELSE /\ handled' = Append(handled, e)
          /\ CASE outcome = "noreply" -> UNCHANGED <<handler, reason>>
              [] outcome = "reply" -> handler' = "write" /\ UNCHANGED reason
              [] OTHER -> handler' = "dead" /\ reason' = outcome
  /\ UNCHANGED <<acceptVars, remoteVars, alive, wconn, readVars, sender>>

\* conn.Write returns, with or without an error (nobody looks).  It has no
\* deadline: while the peer does not take the bytes it may not return at all.
WriteReturns ==
  /\ Up /\ handler = "write" /\ handler' = "loop"
  /\ UNCHANGED <<acceptVars, remoteVars, alive, wconn, handled, reason, readVars,
                 eventChannel, sender>>

\* faulty variant: alive stays true
HandleForgets ==
  /\ Up /\ handler = "dead" /\ handler' = "close"
  /\ UNCHANGED <<acceptVars, remoteVars, alive, wconn, handled, reason, readVars,
                 eventChannel, sender>>

\* the deferred function, after Terminal: the flag, then the connection
HandleDead ==
  /\ Up /\ handler = "dead" /\ alive' = FALSE /\ handler' = "close"
  /\ UNCHANGED <<acceptVars, remoteVars, wconn, handled, reason, readVars,
                 eventChannel, sender>>

HandleClose ==
  /\ Up /\ handler = "close" /\ wconn' = "closed" /\ handler' = "done"
  /\ UNCHANGED <<acceptVars, remoteVars, alive, handled, reason, readVars,
                 eventChannel, sender>>

-----------------------------------------------------------------------------
(* readBytes.                                                               *)

ReadCheck ==
  /\ Up /\ reader = "check" /\ reader' = IF alive THEN "read" ELSE "done"
  /\ UNCHANGED <<acceptVars, remoteVars, handleVars, reading, inbox, eventChannel, sender>>

\* faulty variants: the end of the stream is not announced, or is announced
\* before the bytes that came first
EofIgnored == "done"
EofEarly == remote = "eof"

\* conn.Read returns io.EOF, and where readBytes goes then
ReadsEof == remote = "eof" /\ inbox = <<>>
AfterEof == "send"

\* conn.Read returns bytes, io.EOF, or another error: the connection was reset, or
\* closed by handle; it blocks while there is nothing to return
Read ==
  /\ Up /\ reader = "read"
  /\ \/ /\ wconn = "open" /\ inbox # <<>> /\ reader' = "send"
        /\ reading' = <<"bytes", Head(inbox)>> /\ inbox' = Tail(inbox)
     \/ /\ wconn = "open" /\ ReadsEof /\ reader' = AfterEof
        /\ reading' = ConnClose /\ UNCHANGED inbox
     \/ /\ wconn = "closed" \/ remote = "reset"
        /\ reader' = "check" /\ UNCHANGED <<reading, inbox>>
  /\ UNCHANGED <<acceptVars, remoteVars, handleVars, eventChannel, sender>>

ReadSend ==
  /\ Up /\ reader = "send" /\ Len(eventChannel) < Cap
  /\ eventChannel' = Append(eventChannel, reading)
  /\ reader' = IF reading = ConnClose THEN "done" ELSE "check"
  /\ UNCHANGED <<acceptVars, remoteVars, handleVars, reading, inbox, sender>>

-----------------------------------------------------------------------------
(* SendInfoTo: alive is looked at first, the message sent later.            *)

SendCheck(s) ==
  /\ Up /\ handler # "off" /\ sender[s] = "idle"
  /\ sender' = [sender EXCEPT ![s] = IF alive THEN "send" ELSE "refused"]
  /\ UNCHANGED <<acceptVars, remoteVars, handleVars, readVars, eventChannel>>

SendInfo(s) ==
  /\ Up /\ sender[s] = "send" /\ Len(eventChannel) < Cap
  /\ eventChannel' = Append(eventChannel, <<"info", s>>)
  /\ sender' = [sender EXCEPT ![s] = "sent"]
  /\ UNCHANGED <<acceptVars, remoteVars, handleVars, readVars>>

-----------------------------------------------------------------------------
Handle ==
  \/ \E o \in {"ok", "init", "panic"} : HandleInit(o)
  \/ \E o \in {"noreply", "reply", "normal", "panic"} : HandleEvent(o)
  \/ HandleDead \/ HandleClose

ReadBytes == ReadCheck \/ Read \/ ReadSend

SendInfoTo(s) == SendCheck(s) \/ SendInfo(s)

ServerNext ==
  \/ Serve \/ AcceptTemporary \/ AcceptRetry \/ AcceptFatal
  \/ RemoteWrite \/ \E how \in {"eof", "reset"} : RemoteEnd(how)
  \/ Handle \/ WriteReturns \/ ReadBytes
  \/ \E s \in Sender : SendInfoTo(s)

ServerSpec == ServerInit /\ [][ServerNext]_serverVars

\* The Go scheduler runs every goroutine that can run, the callbacks of the
\* protocol return, and a parked send on a channel goes through when there is
\* room.  WriteReturns is up to the peer and has no fairness.
ServerFairSpec ==
  /\ ServerSpec /\ WF_serverVars(Handle) /\ WF_serverVars(ReadBytes)
  /\ \A s \in Sender : WF_serverVars(SendInfoTo(s))

-----------------------------------------------------------------------------
\* the chunks of the peer among the events before position p
ChunksBefore(events, p) == {events[q][2] : q \in {x \in 1 .. p - 1 : events[x][1] = "bytes"}}

\* The protocol sees the peer's chunks in the order they were written, none
\* left out and none twice, with messages of other goroutines in between.
BytesInOrder ==
  \A p \in DOMAIN handled :
    handled[p][1] = "bytes" => ChunksBefore(handled, p) = 1 .. handled[p][2] - 1

\* A connection that handle ended because the peer closed it was heard to the
\* end: every chunk the peer wrote before closing has been handled.
HeardToTheEnd ==
  reason = "conn_close" => ChunksBefore(handled, Len(handled) + 1) = 1 .. wrote

\* When the peer ends its stream, the connection is closed at our end as well,
\* provided handle is not in one conn.Write for ever: a peer that ends its side
\* and does not read the answers keeps the connection.
EofCloses ==
  []<>(handler # "write") =>
    ((remote = "eof" /\ handler # "init") ~> wconn = "closed")

\* No goroutine is left behind when handle is done: readBytes returns, and so does
\* every SendInfoTo that saw the worker alive just before, unless the channel
\* that nobody reads any more is full.
GoroutinesEnd ==
  handler = "done" ~>
    \/ ~Up \/ Len(eventChannel) = Cap
    \/ reader \in {"off", "done"} /\ \A s \in Sender : sender[s] # "send"
=============================================================================
