---------------------------- MODULE SocketProofs ----------------------------
(***************************************************************************)
(* Theorems about what goes over a connection.  In ScriptSocket a script   *)
(* reads the stream its peer writes and the peer gets the stream it        *)
(* writes, whatever calls it makes and however they are interrupted.       *)
(* SocketServer hears the peer in order and to the end, for any number of  *)
(* senders, any capacity of the channel and any number of chunks; in       *)
(* ClientPool, for any number of clients and connections and any size of   *)
(* the pool, a connection has one holder and none leaks.                   *)
(***************************************************************************)
EXTENDS ScriptSocket, SocketServer, ClientPool, SequenceFacts

-----------------------------------------------------------------------------
(* The server: readBytes, handle and the senders of one connection.        *)

ChannelEvent == {ConnClose} \cup ({"bytes"} \X Nat) \cup ({"info"} \X Sender)

\* the events in the order handle meets them
Queue == handled \o eventChannel

\* handle will take the next event
Listening == handler \in {"off", "init", "loop", "write"}

InOrder(s) ==
  \A p \in 1 .. Len(s) : s[p][1] = "bytes" => ChunksBefore(s, p) = 1 .. s[p][2] - 1

\* the chunks that readBytes has put into the channel
Delivered ==
  IF reader = "send" /\ reading # ConnClose THEN wrote - Len(inbox) - 1
  ELSE wrote - Len(inbox)

ServerTypes ==
  /\ handled \in Seq(ChannelEvent) /\ eventChannel \in Seq(ChannelEvent) /\ reading \in ChannelEvent
  /\ wrote \in Nat /\ inbox \in Seq(Nat) /\ Len(inbox) <= wrote

\* what readBytes has not read yet are the last chunks that were written
InboxIsRest == \A x \in 1 .. Len(inbox) : inbox[x] = wrote - Len(inbox) + x

\* the event readBytes holds is the next one
ReaderSound ==
  /\ Delivered \in Nat
  /\ handler \in {"off", "init"} => reader = "off"
  /\ reader = "send" /\ reading # ConnClose => reading = <<"bytes", Delivered + 1>>
  /\ reader = "send" /\ reading = ConnClose => remote = "eof" /\ inbox = << >>

\* the chunks in the queue are those delivered, and an end of the stream in it
\* comes after all the peer wrote
QueueSound ==
  Listening =>
    /\ InOrder(Queue) /\ ChunksBefore(Queue, Len(Queue) + 1) = 1 .. Delivered
    /\ \A p \in 1 .. Len(Queue) :
         Queue[p] = ConnClose => remote = "eof" /\ ChunksBefore(Queue, p) = 1 .. wrote

EndSound ==
  reason = "conn_close" => remote = "eof" /\ ~Listening

ServerInv ==
  /\ ServerTypes /\ InboxIsRest /\ ReaderSound /\ QueueSound /\ EndSound
  /\ InOrder(handled) /\ HeardToTheEnd

\* The three kinds of events.
LEMMA EventKinds ==
  /\ ConnClose \in ChannelEvent /\ ConnClose[1] = "close"
  /\ \A c \in Nat : <<"bytes", c>> \in ChannelEvent /\ <<"bytes", c>> # ConnClose
  /\ \A s \in Sender : <<"info", s>> \in ChannelEvent /\ <<"info", s>> # ConnClose
  /\ \A e \in ChannelEvent : \/ e = ConnClose
                      \/ \E c \in Nat : e = <<"bytes", c>>
                      \/ \E s \in Sender : e = <<"info", s>>
<1>1. \A a, b : <<a, b>> # ConnClose
  BY DEF ConnClose
<1>2. \A e \in {"bytes"} \X Nat : \E c \in Nat : e = <<"bytes", c>>
  OBVIOUS
<1>3. \A e \in {"info"} \X Sender : \E s \in Sender : e = <<"info", s>>
  OBVIOUS
<1>4. ConnClose[1] = "close"
  BY DEF ConnClose
<1> QED  BY <1>1, <1>2, <1>3, <1>4 DEF ChannelEvent

\* Only an event of bytes adds to the chunks, and it does so at the end.
LEMMA ChunksOfAppend ==
  ASSUME NEW s \in Seq(ChannelEvent), NEW e \in ChannelEvent
  PROVE  LET t == Append(s, e) IN
         /\ \A p \in 1 .. Len(s) + 1 : ChunksBefore(t, p) = ChunksBefore(s, p)
         /\ ChunksBefore(t, Len(t) + 1) =
              ChunksBefore(s, Len(s) + 1) \cup IF e[1] = "bytes" THEN {e[2]} ELSE {}
<1> DEFINE t == Append(s, e)
<1>1. /\ Len(s) \in Nat /\ Len(t) = Len(s) + 1 /\ \A x \in 1 .. Len(s) : t[x] = s[x]
      /\ t[Len(s) + 1] = e
  OBVIOUS
<1> HIDE DEF t
<1>2. \A p \in 1 .. Len(s) + 1 : ChunksBefore(t, p) = ChunksBefore(s, p)
  BY <1>1 DEF ChunksBefore
<1>3. ChunksBefore(t, Len(t) + 1) =
        ChunksBefore(s, Len(s) + 1) \cup IF e[1] = "bytes" THEN {e[2]} ELSE {}
  BY <1>1 DEF ChunksBefore
<1> QED  BY <1>2, <1>3 DEF t

\* What is appended in order leaves the sequence in order.
LEMMA InOrderAppend ==
  ASSUME NEW s \in Seq(ChannelEvent), NEW e \in ChannelEvent, InOrder(s),
         e[1] = "bytes" => ChunksBefore(s, Len(s) + 1) = 1 .. e[2] - 1
  PROVE  InOrder(Append(s, e))
  BY ChunksOfAppend, AppendElements DEF InOrder

\* A prefix of the queue has the chunks the queue has there.
LEMMA PrefixOfQueue ==
  ASSUME NEW s \in Seq(ChannelEvent), NEW t \in Seq(ChannelEvent)
  PROVE  /\ s \o t \in Seq(ChannelEvent) /\ Len(s \o t) = Len(s) + Len(t)
         /\ \A p \in 1 .. Len(s) : (s \o t)[p] = s[p]
         /\ \A p \in 1 .. Len(s) + 1 : ChunksBefore(s \o t, p) = ChunksBefore(s, p)
         /\ InOrder(s \o t) => InOrder(s)
<1> DEFINE u == s \o t
<1>1. /\ u \in Seq(ChannelEvent) /\ Len(u) = Len(s) + Len(t) /\ Len(s) \in Nat /\ Len(t) \in Nat
      /\ \A p \in 1 .. Len(s) : u[p] = s[p]
  OBVIOUS
<1> HIDE DEF u
<1>2. ASSUME NEW p \in 1 .. Len(s) + 1
      PROVE  ChunksBefore(u, p) = ChunksBefore(s, p)
  <2>1. \A x \in 1 .. p - 1 : u[x] = s[x]
    BY <1>1
  <2> QED  BY <2>1 DEF ChunksBefore
<1>3. InOrder(u) => InOrder(s)
  BY <1>1, <1>2 DEF InOrder
<1> QED  BY <1>1, <1>2, <1>3 DEF u

\* At the start nothing has been written.
LEMMA InitServerInv == ServerInit => ServerInv
<1> SUFFICES ASSUME ServerInit PROVE ServerInv
  OBVIOUS
<1>1. ServerTypes
  BY EventKinds, EmptySeq DEF ServerTypes, ServerInit
<1>2. Queue = << >> /\ Delivered = 0 /\ Len(Queue) = 0
  <2>1. Queue = << >>
    BY EmptyConcat DEF Queue, ServerInit
  <2>2. reader # "send" /\ wrote = 0 /\ Len(inbox) = 0
    BY EmptyConcat DEF ServerInit
  <2>3. Delivered = 0
    BY <2>2 DEF Delivered
  <2> QED  BY <2>1, <2>3, EmptyConcat
<1>3. ChunksBefore(<< >>, 1) = {}
  BY DEF ChunksBefore
<1> QED  BY <1>1, <1>2, <1>3 DEF ServerInv, InboxIsRest, ReaderSound, QueueSound, EndSound,
                           InOrder, HeardToTheEnd, ServerTypes, ServerInit

\* The accept loop and the end of handle change no stream; os.Exit ends them all.
LEMMA AcceptStep ==
  ASSUME ServerInv, \/ Serve \/ AcceptTemporary \/ AcceptRetry \/ AcceptFatal
                    \/ WriteReturns \/ HandleDead \/ HandleClose
  PROVE  ServerInv'
<1> USE DEF ServerInv, readVars, remoteVars, handleVars
<1>1. CASE AcceptFatal
  <2> USE DEF AcceptFatal
  <2>1. ServerTypes'
    BY <1>1, EventKinds, EmptySeq DEF ServerTypes
  <2>2. Queue' = << >> /\ Delivered' = 0 /\ Len(Queue') = 0
    <3>1. Queue' = << >>
      BY <1>1, EmptyConcat DEF Queue
    <3>2. (reader # "send" /\ wrote = 0 /\ Len(inbox) = 0)'
      BY <1>1, EmptyConcat
    <3>3. Delivered' = 0
      BY <3>2 DEF Delivered
    <3> QED  BY <3>1, <3>3, EmptyConcat
  <2>3. ChunksBefore(<< >>, 1) = {}
    BY DEF ChunksBefore
  <2> QED  BY <1>1, <2>1, <2>2, <2>3 DEF InboxIsRest, ReaderSound, QueueSound, EndSound,
                                   InOrder, HeardToTheEnd, ServerTypes
<1>2. CASE Serve \/ AcceptTemporary \/ AcceptRetry \/ WriteReturns \/ HandleDead \/ HandleClose
  <2>1. /\ UNCHANGED <<remote, wrote, handled, reason, reader, reading, inbox, eventChannel>>
        /\ Listening' = Listening /\ (handler' \in {"off", "init"} => handler \in {"off", "init"})
    BY <1>2 DEF Serve, AcceptTemporary, AcceptRetry, WriteReturns, HandleDead, HandleClose, Listening
  <2> QED  BY <2>1 DEF ServerTypes, InboxIsRest, ReaderSound, QueueSound, EndSound,
                       HeardToTheEnd, Queue, Delivered
<1> QED  BY <1>1, <1>2

\* The peer writes, or ends its stream, only while it is open: no end of the
\* stream has been seen.
LEMMA PeerStep ==
  ASSUME ServerInv, RemoteWrite \/ \E how \in {"eof", "reset"} : RemoteEnd(how)
  PROVE  ServerInv'
<1> USE DEF ServerInv
<1>1. /\ remote = "open" /\ reason # "conn_close"
      /\ UNCHANGED <<handler, handled, reason, reader, reading, eventChannel>>
  BY DEF RemoteWrite, RemoteEnd, EndSound, handleVars, readVars
<1>2. CASE RemoteWrite
  <2>1. /\ wrote' = wrote + 1 /\ wrote' \in Nat /\ inbox' = Append(inbox, wrote')
        /\ inbox \in Seq(Nat) /\ Len(inbox) \in Nat /\ UNCHANGED remote
    BY <1>2 DEF RemoteWrite, ServerTypes
  <2>2. /\ inbox' \in Seq(Nat) /\ Len(inbox') = Len(inbox) + 1
        /\ \A x \in 1 .. Len(inbox) : inbox'[x] = inbox[x]
        /\ inbox'[Len(inbox) + 1] = wrote'
    BY <2>1, AppendElements
  <2>3. ServerTypes'
    BY <1>1, <2>1, <2>2 DEF ServerTypes
  <2>4. InboxIsRest'
    <3> SUFFICES ASSUME NEW x \in 1 .. Len(inbox) + 1
                 PROVE  inbox'[x] = wrote' - Len(inbox') + x
      BY <2>2 DEF InboxIsRest
    <3>1. CASE x = Len(inbox) + 1
      BY <2>1, <2>2, <3>1 DEF ServerTypes
    <3>2. CASE x \in 1 .. Len(inbox)
      BY <2>1, <2>2, <3>2 DEF InboxIsRest, ServerTypes
    <3> QED  BY <2>1, <3>1, <3>2
  <2>5. Delivered' = Delivered
    BY <1>1, <2>1, <2>2 DEF Delivered, ServerTypes
  <2>6. ReaderSound'
    BY <1>1, <2>1, <2>5 DEF ReaderSound
  <2> QED  BY <1>1, <2>1, <2>3, <2>4, <2>5, <2>6
             DEF QueueSound, EndSound, HeardToTheEnd, Listening, Queue
<1>3. CASE \E how \in {"eof", "reset"} : RemoteEnd(how)
  <2>1. UNCHANGED <<wrote, inbox>>
    BY <1>3 DEF RemoteEnd, readVars
  <2> QED  BY <1>1, <2>1 DEF ServerTypes, InboxIsRest, ReaderSound, QueueSound, EndSound,
                             HeardToTheEnd, Listening, Queue, Delivered
<1> QED  BY <1>2, <1>3

\* handle begins: the queue is what it was.
LEMMA HandleInitStep ==
  ASSUME ServerInv, NEW o \in {"ok", "init", "panic"}, HandleInit(o)
  PROVE  ServerInv'
<1>1. /\ UNCHANGED <<remote, wrote, handled, reading, inbox, eventChannel>>
      /\ handler = "init" /\ reader = "off" /\ reader' \in {"off", "check"}
      /\ handler' \in {"loop", "dead"}
      /\ reason' # "conn_close" \/ reason' = reason
  BY DEF HandleInit, remoteVars, ServerInv, ReaderSound
<1>2. Delivered' = Delivered /\ Listening
  BY <1>1 DEF Delivered, Listening
<1> QED  BY <1>1, <1>2 DEF ServerInv, ServerTypes, InboxIsRest, ReaderSound, QueueSound,
                           EndSound, HeardToTheEnd, Listening, Queue

\* handle takes the next event of the queue: bytes that continue the chunks it has
\* handled, or the end of the stream after the last of them.
LEMMA HandleEventStep ==
  ASSUME ServerInv, NEW o \in {"noreply", "reply", "normal", "panic"}, HandleEvent(o)
  PROVE  ServerInv'
<1> USE DEF ServerInv
<1> DEFINE e == Head(eventChannel)
<1>1. /\ UNCHANGED <<remote, wrote, reader, reading, inbox>> /\ handler = "loop"
      /\ eventChannel # << >> /\ eventChannel' = Tail(eventChannel) /\ Listening
      /\ handler' \in {"loop", "write", "dead"} /\ handled \in Seq(ChannelEvent) /\ eventChannel \in Seq(ChannelEvent)
  BY DEF HandleEvent, TakeEvent, remoteVars, readVars, Listening, ServerTypes
<1>2. /\ Tail(eventChannel) \in Seq(ChannelEvent) /\ e \in ChannelEvent /\ reason # "conn_close"
      /\ InboxIsRest' /\ ReaderSound' /\ Delivered' = Delivered
  BY <1>1, TailElements DEF InboxIsRest, ReaderSound, Delivered, EndSound
<1>3. /\ Queue[Len(handled) + 1] = e /\ Len(handled) + 1 \in 1 .. Len(Queue)
      /\ ChunksBefore(Queue, Len(handled) + 1) = ChunksBefore(handled, Len(handled) + 1)
      /\ InOrder(Queue)
  <2>1. Len(Queue) = Len(handled) + Len(eventChannel) /\ Len(eventChannel) \in Nat \ {0}
    BY <1>1, PrefixOfQueue, TailElements DEF Queue
  <2> QED  BY <1>1, <2>1, QueueAppend, QueueMoves, PrefixOfQueue DEF Queue, QueueSound
<1>4. CASE e = ConnClose
  <2>1. handler' = "dead" /\ reason' = "conn_close" /\ UNCHANGED handled
    BY <1>1, <1>4 DEF HandleEvent, TakeEvent
  <2>2. remote = "eof" /\ ChunksBefore(handled, Len(handled) + 1) = 1 .. wrote
    BY <1>1, <1>3, <1>4 DEF QueueSound
  <2> QED  BY <1>1, <1>2, <2>1, <2>2 DEF ServerTypes, QueueSound, EndSound, HeardToTheEnd, Listening
<1>5. CASE e # ConnClose
  <2>1. handled' = Append(handled, e) /\ reason' # "conn_close"
    BY <1>1, <1>2, <1>5 DEF HandleEvent, TakeEvent
  <2>2. handled' \in Seq(ChannelEvent) /\ ServerTypes'
    BY <1>1, <1>2, <2>1, AppendElements DEF ServerTypes
  <2>3. Queue' = Queue
    BY <1>1, <2>1, QueueAppend, QueueMoves DEF Queue
  <2>4. InOrder(handled')
    <3>1. PICK d \in ChannelEvent : d = e
      BY <1>2
    <3>2. d[1] = "bytes" => ChunksBefore(handled, Len(handled) + 1) = 1 .. d[2] - 1
      BY <1>3, <3>1 DEF InOrder
    <3>3. InOrder(Append(handled, d))
      BY <1>1, <3>2, InOrderAppend
    <3> QED  BY <2>1, <3>1, <3>3
  <2>5. QueueSound'
    BY <1>1, <1>2, <2>3 DEF QueueSound
  <2> QED  BY <1>1, <1>2, <2>1, <2>2, <2>4, <2>5 DEF EndSound, HeardToTheEnd
<1> QED  BY <1>4, <1>5

\* readBytes takes the first chunk of the inbox, or the end of the stream when it
\* has taken them all.
LEMMA ReadStep ==
  ASSUME ServerInv, ReadCheck \/ Read
  PROVE  ServerInv'
<1> USE DEF ServerInv
<1>1. /\ UNCHANGED <<remote, wrote, handler, handled, reason, eventChannel>>
      /\ reader \in {"check", "read"} /\ reader' \in {"read", "done", "check", "send"}
  BY DEF ReadCheck, Read, AfterEof, remoteVars, handleVars
<1>2. CASE reader' # "send"
  <2>1. UNCHANGED <<reading, inbox>>
    BY <1>2 DEF ReadCheck, Read, AfterEof
  <2>2. Delivered' = Delivered
    BY <1>1, <1>2, <2>1 DEF Delivered
  <2> QED  BY <1>1, <1>2, <2>1, <2>2 DEF ServerTypes, InboxIsRest, ReaderSound, QueueSound,
                                         EndSound, HeardToTheEnd, Listening, Queue
<1>3. CASE reader' = "send" /\ inbox # << >>
  <2>1. reading' = <<"bytes", Head(inbox)>> /\ inbox' = Tail(inbox) /\ inbox \in Seq(Nat)
    BY <1>3 DEF Read, ReadCheck, ReadsEof, ServerTypes
  <2>2. /\ inbox' \in Seq(Nat) /\ Len(inbox') = Len(inbox) - 1 /\ Len(inbox) \in Nat \ {0}
        /\ Head(inbox) = inbox[1] /\ Head(inbox) \in Nat
        /\ \A x \in 1 .. Len(inbox) - 1 : inbox'[x] = inbox[x + 1]
    BY <1>3, <2>1, TailElements
  <2>3. Head(inbox) = wrote - Len(inbox) + 1
    BY <2>2 DEF InboxIsRest
  <2>4. InboxIsRest'
    BY <1>1, <2>2 DEF InboxIsRest, ServerTypes
  <2>5. ServerTypes' /\ reading' # ConnClose
    BY <1>1, <2>1, <2>2, EventKinds DEF ServerTypes
  <2>6. Delivered' = Delivered /\ Delivered = wrote - Len(inbox)
    BY <1>1, <1>3, <2>2, <2>5 DEF Delivered, ServerTypes
  <2>7. ReaderSound'
    BY <1>1, <2>1, <2>3, <2>5, <2>6 DEF ReaderSound
  <2> QED  BY <1>1, <2>4, <2>5, <2>6, <2>7 DEF QueueSound, EndSound, HeardToTheEnd, Listening, Queue
<1>4. CASE reader' = "send" /\ inbox = << >>
  <2>1. reading' = ConnClose /\ remote = "eof" /\ UNCHANGED inbox
    BY <1>4 DEF Read, ReadCheck, ReadsEof
  <2>2. Delivered' = Delivered
    BY <1>1, <2>1 DEF Delivered
  <2> QED  BY <1>1, <1>4, <2>1, <2>2 DEF ServerTypes, ChannelEvent, InboxIsRest, ReaderSound, QueueSound,
                                   EndSound, HeardToTheEnd, Listening, Queue
<1> QED  BY <1>2, <1>3, <1>4

\* An event that goes into the channel goes to the end of the queue.
LEMMA ChannelGrows ==
  ASSUME ServerInv, NEW e \in ChannelEvent, eventChannel' = Append(eventChannel, e),
         UNCHANGED <<remote, wrote, handler, handled, reason, inbox>>,
         Delivered' = Delivered + IF e[1] = "bytes" THEN 1 ELSE 0,
         e[1] = "bytes" => e[2] = Delivered + 1,
         e = ConnClose => remote = "eof" /\ Delivered = wrote
  PROVE  eventChannel' \in Seq(ChannelEvent) /\ QueueSound'
<1> USE DEF ServerInv
<1>1. /\ handled \in Seq(ChannelEvent) /\ eventChannel \in Seq(ChannelEvent) /\ Queue \in Seq(ChannelEvent)
      /\ eventChannel' \in Seq(ChannelEvent) /\ Queue' = Append(Queue, e)
  BY AppendElements, PrefixOfQueue, QueueAppend, QueueMoves DEF ServerTypes, Queue
<1>2. SUFFICES ASSUME Listening PROVE QueueSound'
  BY <1>1 DEF QueueSound, Listening
<1>3. /\ InOrder(Queue) /\ ChunksBefore(Queue, Len(Queue) + 1) = 1 .. Delivered
      /\ \A p \in 1 .. Len(Queue) :
           Queue[p] = ConnClose => remote = "eof" /\ ChunksBefore(Queue, p) = 1 .. wrote
  BY <1>2 DEF QueueSound
<1>4. Delivered \in Nat
  BY DEF ReaderSound
<1>5. InOrder(Queue')
  <2>1. e[1] = "bytes" => ChunksBefore(Queue, Len(Queue) + 1) = 1 .. e[2] - 1
    BY <1>3, <1>4
  <2> QED  BY <1>1, <1>3, <2>1, InOrderAppend
<1>6. /\ \A p \in 1 .. Len(Queue) + 1 : ChunksBefore(Queue', p) = ChunksBefore(Queue, p)
      /\ ChunksBefore(Queue', Len(Queue') + 1) = 1 .. Delivered'
      /\ Len(Queue') = Len(Queue) + 1 /\ Len(Queue) \in Nat
      /\ \A p \in 1 .. Len(Queue) : Queue'[p] = Queue[p]
      /\ Queue'[Len(Queue) + 1] = e
  <2>1. ChunksBefore(Queue', Len(Queue') + 1) =
          1 .. Delivered \cup IF e[1] = "bytes" THEN {e[2]} ELSE {}
    <3> DEFINE q == Queue
    <3>1. q \in Seq(ChannelEvent)
      BY <1>1
    <3> HIDE DEF q
    <3>2. ChunksBefore(Append(q, e), Len(Append(q, e)) + 1) =
            ChunksBefore(q, Len(q) + 1) \cup IF e[1] = "bytes" THEN {e[2]} ELSE {}
      BY <3>1, ChunksOfAppend
    <3> QED  BY <1>1, <1>3, <3>2 DEF q
  <2>2. ChunksBefore(Queue', Len(Queue') + 1) = 1 .. Delivered'
    <3>1. CASE e[1] = "bytes"
      <4>1. \A d \in Nat : (1 .. d) \cup {d + 1} = 1 .. d + 1
        OBVIOUS
      <4>2. e[2] = Delivered + 1 /\ Delivered' = Delivered + 1
        BY <3>1
      <4> QED  BY <1>4, <2>1, <3>1, <4>1, <4>2
    <3>2. CASE e[1] # "bytes"
      <4>1. Delivered' = Delivered
        BY <1>4, <3>2
      <4> QED  BY <2>1, <3>2, <4>1
    <3> QED  BY <3>1, <3>2
  <2> QED  BY <1>1, <2>2, ChunksOfAppend, AppendElements
<1>7. ASSUME NEW p \in 1 .. Len(Queue'), Queue'[p] = ConnClose
      PROVE  remote' = "eof" /\ ChunksBefore(Queue', p) = 1 .. wrote'
  BY <1>3, <1>6, <1>7
<1> QED  BY <1>5, <1>6, <1>7 DEF QueueSound

\* readBytes puts what it holds into the channel; so does SendInfoTo.
LEMMA SendStep ==
  ASSUME ServerInv, ReadSend \/ \E s \in Sender : SendInfoTo(s)
  PROVE  ServerInv'
<1> USE DEF ServerInv
<1>1. UNCHANGED <<remote, wrote, handler, handled, reason, reading, inbox>>
  BY DEF ReadSend, SendInfoTo, SendInfo, SendCheck, remoteVars, handleVars, readVars
<1>2. CASE ReadSend
  <2>1. /\ reader = "send" /\ reader' \in {"done", "check"}
        /\ eventChannel' = Append(eventChannel, reading) /\ reading \in ChannelEvent
    BY <1>2 DEF ReadSend, ServerTypes
  <2>2. /\ reading[1] = "bytes" <=> reading # ConnClose
        /\ reading[1] = "bytes" => reading[2] = Delivered + 1
        /\ reading = ConnClose => remote = "eof" /\ Delivered = wrote
    <3>1. reading = ConnClose => remote = "eof" /\ Delivered = wrote
      BY <2>1 DEF ReaderSound, Delivered, ServerTypes
    <3>2. reading # ConnClose => reading = <<"bytes", Delivered + 1>>
      BY <2>1 DEF ReaderSound
    <3> QED  BY <3>1, <3>2, EventKinds
  <2>3. Delivered' = Delivered + IF reading[1] = "bytes" THEN 1 ELSE 0
    <3>1. wrote' = wrote /\ inbox' = inbox /\ reader' # "send" /\ Len(inbox) \in Nat /\ wrote \in Nat
      BY <1>1, <2>1 DEF ServerTypes
    <3>2. Delivered' = wrote - Len(inbox)
      BY <3>1 DEF Delivered
    <3>3. CASE reading = ConnClose
      <4>1. Delivered = wrote - Len(inbox) /\ reading[1] # "bytes"
        BY <2>2, <3>3 DEF Delivered
      <4> QED  BY <3>1, <3>2, <4>1
    <3>4. CASE reading # ConnClose
      <4>1. Delivered = (wrote - Len(inbox)) - 1
        BY <2>1, <3>4 DEF Delivered
      <4> QED  BY <2>2, <3>1, <3>2, <3>4, <4>1
    <3> QED  BY <3>3, <3>4
  <2>4. eventChannel' \in Seq(ChannelEvent) /\ QueueSound'
    BY <1>1, <2>1, <2>2, <2>3, ChannelGrows
  <2>5. Delivered' \in Nat
    BY <2>3 DEF ReaderSound
  <2> QED  BY <1>1, <2>1, <2>4, <2>5 DEF ServerTypes, InboxIsRest, ReaderSound, EndSound,
                                   HeardToTheEnd, Listening
<1>3. CASE \E s \in Sender : SendInfo(s)
  <2>1. PICK s \in Sender : SendInfo(s)
    BY <1>3
  <2>2. /\ eventChannel' = Append(eventChannel, <<"info", s>>) /\ UNCHANGED reader
        /\ <<"info", s>> \in ChannelEvent /\ <<"info", s>> # ConnClose /\ <<"info", s>>[1] # "bytes"
    BY <2>1, EventKinds DEF SendInfo, readVars
  <2>3. Delivered' = Delivered /\ Delivered \in Nat
    BY <1>1, <2>2 DEF Delivered, ReaderSound
  <2>4. eventChannel' \in Seq(ChannelEvent) /\ QueueSound'
    BY <1>1, <2>2, <2>3, ChannelGrows
  <2> QED  BY <1>1, <2>2, <2>3, <2>4 DEF ServerTypes, InboxIsRest, ReaderSound, EndSound,
                                         HeardToTheEnd, Listening
<1>4. CASE \E s \in Sender : SendCheck(s)
  <2>1. UNCHANGED <<reader, eventChannel>>
    BY <1>4 DEF SendCheck, readVars
  <2> QED  BY <1>1, <2>1 DEF ServerTypes, InboxIsRest, ReaderSound, QueueSound, EndSound,
                             HeardToTheEnd, Listening, Queue, Delivered
<1> QED  BY <1>2, <1>3, <1>4 DEF SendInfoTo

\* The inductive invariant of one connection of the Go server, with the accept loop
\* around it, for any senders and any capacity of the event channel.
THEOREM ServerInvariant == ServerSpec => []ServerInv
<1>1. ServerInv /\ [ServerNext]_serverVars => ServerInv'
  <2> SUFFICES ASSUME ServerInv, [ServerNext]_serverVars PROVE ServerInv'
    OBVIOUS
  <2>1. CASE \/ Serve \/ AcceptTemporary \/ AcceptRetry \/ AcceptFatal
             \/ WriteReturns \/ HandleDead \/ HandleClose
    BY <2>1, AcceptStep
  <2>2. CASE RemoteWrite \/ \E how \in {"eof", "reset"} : RemoteEnd(how)
    BY <2>2, PeerStep
  <2>3. CASE \E o \in {"ok", "init", "panic"} : HandleInit(o)
    BY <2>3, HandleInitStep
  <2>4. CASE \E o \in {"noreply", "reply", "normal", "panic"} : HandleEvent(o)
    BY <2>4, HandleEventStep
  <2>5. CASE ReadCheck \/ Read
    BY <2>5, ReadStep
  <2>6. CASE ReadSend \/ \E s \in Sender : SendInfoTo(s)
    BY <2>6, SendStep
  <2>7. CASE UNCHANGED serverVars
    BY <2>7 DEF serverVars, acceptVars, remoteVars, handleVars, readVars, ServerInv, ServerTypes,
       InboxIsRest, ReaderSound, QueueSound, EndSound, HeardToTheEnd, Listening, Queue, Delivered
  <2> QED  BY <2>1, <2>2, <2>3, <2>4, <2>5, <2>6, <2>7 DEF ServerNext, Handle, ReadBytes
<1> QED  BY InitServerInv, <1>1, PTL DEF ServerSpec

\* handle sees the chunks of the peer in order, each once, whatever SendInfoTo puts
\* between them (handle and readBytes of worker.go).
THEOREM ChunksInOrder == ServerSpec => []BytesInOrder
<1>1. ServerInv => BytesInOrder
  BY DEF ServerInv, ServerTypes, InOrder, BytesInOrder
<1> QED  BY ServerInvariant, <1>1, PTL

\* handle that ends with conn_close has handled every chunk the peer wrote.
THEOREM HeardAlways == ServerSpec => []HeardToTheEnd
<1>1. ServerInv => HeardToTheEnd
  BY DEF ServerInv
<1> QED  BY ServerInvariant, <1>1, PTL

-----------------------------------------------------------------------------
(* The client: the pool of connections and those who use it.               *)

\* what the fields are, and what loop keeps while it is where it is
PoolTypes ==
  /\ connPool \in Seq(Conn) /\ opened \subseteq Conn
  /\ loop \in {"recv", "dial", "select", "reply"}
  /\ serving \in Client \cup {NULL} /\ dialled \in Conn \cup {NULL}
  /\ client \in [Client -> {"idle", "get", "put", "using", "out"}]
  /\ holding \in [Client -> Conn \cup {NULL}]

\* loop has a connection only while it is answering a client, which waits
LoopSound ==
  /\ loop = "recv" <=> serving = NULL
  /\ loop \in {"recv", "dial"} => dialled = NULL
  /\ loop = "select" => dialled # NULL
  /\ serving # NULL => client[serving] = "out"

\* a client holds a connection between GetConn's return and RecoverConn's
HoldersKnown == \A c \in Client : holding[c] # NULL <=> client[c] \in {"using", "put"}

\* ConnExclusive and NoConnLeak, place by place
PlacesApart ==
  /\ IsInjective(connPool)
  /\ dialled \notin ToSet(connPool)
  /\ \A c \in Client : holding[c] # NULL => holding[c] \notin ToSet(connPool) \cup {dialled}
  /\ \A c, d \in Client : holding[c] # NULL /\ holding[c] = holding[d] => c = d

PlacesOpen == opened = ToSet(connPool) \cup (({dialled} \cup Range(holding)) \ {NULL})

PoolInv == PoolTypes /\ LoopSound /\ HoldersKnown /\ PlacesApart /\ PlacesOpen /\ Len(connPool) <= size

\* At the start there are neither connections nor requests.
LEMMA PoolInit == ClientInit => PoolInv
  BY ClientPoolAssumption DEF ClientInit, PoolInv, PoolTypes, LoopSound, HoldersKnown,
     PlacesApart, PlacesOpen, ToSet, Range, IsInjective

\* A request is on its way: no connection moves.
LEMMA PoolWant ==
  ASSUME PoolInv, NEW c \in Client, WantConn(c) \/ WantRecover(c)
  PROVE  PoolInv'
  BY DEF WantConn, WantRecover, PoolInv, PoolTypes, LoopSound, HoldersKnown,
     PlacesApart, PlacesOpen

\* PM_GET: the head of the pool passes to loop, or loop dials.
LEMMA PoolGetStep ==
  ASSUME PoolInv, NEW c \in Client, PoolGet(c)
  PROVE  PoolInv'
<1> USE DEF PoolInv
<1>1. /\ serving' = c /\ c # NULL /\ serving = NULL /\ dialled = NULL /\ holding[c] = NULL
      /\ UNCHANGED <<holding, opened>> /\ client' = [client EXCEPT ![c] = "out"]
  BY ClientPoolAssumption DEF LoopSound, HoldersKnown, PoolGet
<1>2. HoldersKnown'
  BY <1>1 DEF HoldersKnown, PoolTypes, PoolGet
<1>3. CASE connPool = << >>
  BY <1>1, <1>2, <1>3 DEF PoolGet, PoolTypes, LoopSound, PlacesApart, PlacesOpen
<1>4. CASE connPool # << >>
  <2>0. /\ connPool \in Seq(Conn) /\ loop' = "reply"
        /\ connPool' = Tail(connPool) /\ dialled' = Head(connPool)
    BY <1>4 DEF PoolGet, PoolTypes, Remaining
  <2>1. /\ connPool' \in Seq(Conn) /\ Len(connPool') = Len(connPool) - 1
        /\ dialled' \in Conn /\ ToSet(connPool) = ToSet(connPool') \cup {dialled'}
        /\ Len(connPool) \in Nat
    BY <1>4, <2>0, TailElements
  <2>2. IsInjective(connPool') /\ dialled' \notin ToSet(connPool')
    BY <1>4, <2>0, InjectiveTail DEF PlacesApart
  <2>3. PoolTypes' /\ LoopSound'
    BY <1>1, <2>0, <2>1, ClientPoolAssumption DEF PoolTypes, LoopSound
  <2>4. PlacesApart'
    BY <1>1, <2>1, <2>2, ClientPoolAssumption DEF PlacesApart, PoolTypes
  <2>5. PlacesOpen'
    BY <1>1, <2>1, ClientPoolAssumption DEF PlacesOpen
  <2>6. (Len(connPool) <= size)'
    BY <2>1, ClientPoolAssumption
  <2> QED  BY <1>2, <2>3, <2>4, <2>5, <2>6
<1> QED  BY <1>3, <1>4

\* Dialling opens a connection that is nowhere, and a failed SELECT closes it.
LEMMA PoolDial ==
  ASSUME PoolInv, Dial \/ Select
  PROVE  PoolInv'
<1> USE DEF PoolInv
<1>1. UNCHANGED <<connPool, serving, client, holding>> /\ PoolTypes' /\ LoopSound' /\ HoldersKnown'
  BY ClientPoolAssumption DEF Dial, Select, CloseDialled, Undialled, PoolTypes, LoopSound,
     HoldersKnown
<1>2. CASE Dial
  <2>1. dialled = NULL
    BY <1>2 DEF Dial, LoopSound
  <2>2. CASE dialled' = NULL
    <3>1. opened' = opened
      BY <1>2, <2>2, ClientPoolAssumption DEF Dial, Undialled
    <3> QED  BY <1>1, <2>1, <2>2, <3>1 DEF PlacesApart, PlacesOpen
  <2>3. CASE dialled' # NULL
    <3>1. dialled' \in Undialled /\ opened' = opened \cup {dialled'}
      BY <1>2, <2>3 DEF Dial
    <3>2. /\ dialled' \in Conn \ (opened \cup ToSet(connPool))
          /\ \A c \in Client : holding[c] # dialled'
      BY <2>3, <3>1 DEF Undialled, Held
    <3>3. PlacesApart'
      BY <1>1, <3>2 DEF PlacesApart
    <3>4. PlacesOpen'
      BY <1>1, <2>1, <2>3, <3>1, <3>2 DEF PlacesOpen
    <3> QED  BY <1>1, <3>3, <3>4
  <2> QED  BY <2>2, <2>3
<1>3. CASE Select
  <2>1. dialled # NULL /\ dialled \in opened
    BY <1>3 DEF Select, LoopSound, PlacesOpen
  <2>2. \/ dialled' = dialled /\ opened' = opened
        \/ dialled' = NULL /\ opened' = opened \ {dialled}
    BY <1>3 DEF Select, CloseDialled
  <2>3. PlacesApart'
    BY <1>1, <2>2, ClientPoolAssumption DEF PlacesApart, PoolTypes, ToSet
  <2>4. PlacesOpen'
    BY <1>1, <2>1, <2>2, ClientPoolAssumption DEF PlacesApart, PlacesOpen, PoolTypes, Range, ToSet
  <2> QED  BY <1>1, <2>3, <2>4
<1> QED  BY <1>2, <1>3

\* GetConn returns: what loop had, if anything, is the client's.
LEMMA PoolReply ==
  ASSUME PoolInv, Reply
  PROVE  PoolInv'
<1> USE DEF PoolInv
<1> DEFINE c == serving
<1>1. /\ c \in Client /\ client[c] = "out" /\ holding[c] = NULL
      /\ holding' = [holding EXCEPT ![c] = dialled] /\ dialled' = NULL
      /\ client' = [client EXCEPT ![c] = Returns(dialled)]
      /\ UNCHANGED <<connPool, opened>> /\ serving' = NULL /\ loop' = "recv"
  BY DEF Reply, LoopSound, PoolTypes, HoldersKnown
<1>2. PoolTypes' /\ LoopSound' /\ HoldersKnown'
  BY <1>1 DEF PoolTypes, LoopSound, HoldersKnown, Returns
<1>3. holding'[c] = dialled /\ \A d \in Client \ {c} : holding'[d] = holding[d]
  BY <1>1 DEF PoolTypes
<1>4. PlacesApart'
  <2>1. NULL \notin ToSet(connPool)
    <3>1. connPool \in Seq(Conn)
      BY DEF PoolTypes
    <3>2. \A x \in DOMAIN connPool : connPool[x] \in Conn
      BY <3>1
    <3> QED  BY <3>2, ClientPoolAssumption DEF ToSet
  <2>2. \A d \in Client \ {c} : holding[d] # NULL => holding[d] # dialled
    BY DEF PlacesApart
  <2>3. dialled # NULL => dialled \notin ToSet(connPool)
    BY DEF PlacesApart
  <2> QED  BY <1>1, <1>3, <2>1, <2>2, <2>3 DEF PlacesApart
<1>5. Range(holding') \ {NULL} = ({dialled} \cup Range(holding)) \ {NULL}
  BY <1>1 DEF PoolTypes, Range
<1>6. PlacesOpen'
  BY <1>1, <1>5 DEF PlacesOpen
<1> QED  BY <1>1, <1>2, <1>4, <1>6

\* PM_PUT: the client's connection goes into the pool, or is closed.
LEMMA PoolPutStep ==
  ASSUME PoolInv, NEW c \in Client, PoolPut(c)
  PROVE  PoolInv'
<1> USE DEF PoolInv
<1> DEFINE k == holding[c]
<1>1. /\ k \in Conn /\ k # NULL /\ k \notin ToSet(connPool) \cup {dialled}
      /\ holding' = [holding EXCEPT ![c] = NULL] /\ client' = [client EXCEPT ![c] = "idle"]
      /\ loop = "recv" /\ UNCHANGED <<loop, serving, dialled>> /\ client[c] = "put"
  BY DEF PoolPut, PoolTypes, HoldersKnown, PlacesApart
<1>2. holding'[c] = NULL /\ \A d \in Client \ {c} : holding'[d] = holding[d] /\ holding[d] # k
  BY <1>1 DEF PoolTypes, PlacesApart
<1>3. Range(holding') \ {NULL} = (Range(holding) \ {k}) \ {NULL} /\ k \in Range(holding)
  BY <1>1, <1>2 DEF PoolTypes, Range
<1>4. connPool \in Seq(Conn) /\ LoopSound' /\ HoldersKnown'
  BY <1>1 DEF PoolTypes, LoopSound, HoldersKnown
<1>5. CASE Len(connPool) >= size
  <2>1. opened' = opened \ {k} /\ UNCHANGED connPool
    BY <1>5 DEF PoolPut, PoolFull, DelConn
  <2>2. PoolTypes' /\ PlacesApart'
    BY <1>1, <1>2, <2>1 DEF PoolTypes, PlacesApart
  <2>3. PlacesOpen'
    BY <1>1, <1>3, <2>1 DEF PlacesOpen
  <2> QED  BY <1>4, <2>1, <2>2, <2>3
<1>6. CASE ~(Len(connPool) >= size)
  <2>1. connPool' = Append(connPool, k) /\ UNCHANGED opened
    BY <1>6 DEF PoolPut, PoolFull
  <2>2. /\ connPool' \in Seq(Conn) /\ ToSet(connPool') = ToSet(connPool) \cup {k}
        /\ Len(connPool') = Len(connPool) + 1
    BY <1>1, <1>4, <2>1, AppendElements
  <2>3. IsInjective(connPool')
    BY <1>1, <1>4, <2>1, InjectiveAppend DEF PlacesApart
  <2>4. PoolTypes'
    BY <1>1, <2>1, <2>2 DEF PoolTypes
  <2>5. PlacesApart'
    BY <1>1, <1>2, <2>2, <2>3 DEF PlacesApart
  <2>6. PlacesOpen'
    BY <1>1, <1>3, <2>1, <2>2 DEF PlacesOpen
  <2>7. (Len(connPool) <= size)'
    BY <1>4, <1>6, <2>2, ClientPoolAssumption
  <2> QED  BY <1>4, <2>4, <2>5, <2>6, <2>7
<1> QED  BY <1>5, <1>6

\* The inductive invariant of the pool (loop, GetConn and RecoverConn of pool.go),
\* for any clients, any connections and any size.
THEOREM PoolInvariant == ClientSpec => []PoolInv
<1>1. PoolInv /\ [ClientNext]_clientVars => PoolInv'
  <2> SUFFICES ASSUME PoolInv, [ClientNext]_clientVars PROVE PoolInv'
    OBVIOUS
  <2>1. ASSUME NEW c \in Client, WantConn(c) \/ WantRecover(c) PROVE PoolInv'
    BY <2>1, PoolWant
  <2>2. ASSUME NEW c \in Client, PoolGet(c) PROVE PoolInv'
    BY <2>2, PoolGetStep
  <2>3. ASSUME NEW c \in Client, PoolPut(c) PROVE PoolInv'
    BY <2>3, PoolPutStep
  <2>4. CASE Dial \/ Select
    BY <2>4, PoolDial
  <2>5. CASE Reply
    BY <2>5, PoolReply
  <2>6. CASE UNCHANGED clientVars
    BY <2>6 DEF clientVars, PoolInv, PoolTypes, LoopSound, HoldersKnown, PlacesApart, PlacesOpen
  <2> QED  BY <2>1, <2>2, <2>3, <2>4, <2>5, <2>6 DEF ClientNext, Loop
<1> QED  BY PoolInit, <1>1, PTL DEF ClientSpec

\* A connection of the pool is with one client, in the pool or with loop, never in
\* two places, and it is open there (GetConn and RecoverConn of pool.go).
THEOREM ConnectionsExclusive == ClientSpec => []ConnExclusive
<1>1. PoolInv => ConnExclusive
  <2> SUFFICES ASSUME PoolInv PROVE ConnExclusive
    OBVIOUS
  <2>1. \A k \in Conn, c \in Client : At(k, c) <=> holding[c] = k
    BY ClientPoolAssumption DEF At
  <2>2. \A k \in Conn : (At(k, "pool") <=> k \in ToSet(connPool)) /\ (At(k, "loop") <=> dialled = k)
    BY DEF At
  <2>3. \A k \in Conn : \A a, b \in Place : At(k, a) /\ At(k, b) => a = b
    BY <2>1, <2>2, ClientPoolAssumption DEF Place, PoolInv, PlacesApart
  <2>4. \A k \in Conn : (\E a \in Place : At(k, a)) => k \in opened
    BY <2>1, <2>2, ClientPoolAssumption DEF Place, PoolInv, PlacesOpen, PoolTypes, Range
  <2> QED  BY <2>3, <2>4 DEF ConnExclusive, PoolInv, PlacesApart
<1> QED  BY PoolInvariant, <1>1, PTL

\* Whatever fails, a connection that is open can be reached, and the pool keeps at
\* most size of them (RecoverConn of pool.go, NewConn of the dialer).
THEOREM ConnectionsReachable == ClientSpec => []NoConnLeak
<1>1. PoolInv => NoConnLeak
  <2> SUFFICES ASSUME PoolInv PROVE NoConnLeak
    OBVIOUS
  <2>1. \A k \in opened : \/ k \in ToSet(connPool) \/ dialled = k
                          \/ \E c \in Client : holding[c] = k
    BY DEF PoolInv, PlacesOpen, PoolTypes, Range
  <2>2. \A k \in opened, c \in Client : holding[c] = k => At(k, c)
    BY ClientPoolAssumption DEF At
  <2>3. \A k \in opened : \E a \in Place : At(k, a)
    BY <2>1, <2>2 DEF At, Place
  <2> QED  BY <2>3 DEF NoConnLeak, PoolInv
<1> QED  BY PoolInvariant, <1>1, PTL

-----------------------------------------------------------------------------
(* The library of scripts: lm_socket.c on one connection.                  *)

\* the stream of the first m bytes
Bytes(m) == [i \in 1 .. m |-> i]

SockTypes ==
  /\ got \in Seq(Nat) /\ inq \in Seq(Nat) /\ written \in Nat
  /\ out \in Seq(Nat) /\ outq \in 0 .. SendCap /\ pos \in Nat
  /\ eof \in BOOLEAN /\ ctx \in [len : Nat, idx : Nat]

\* Between its calls a script is where the stream is; a send under way is where
\* its context says, and not past its end.
SendSound ==
  /\ co \in {"sending", "send"} => pos + ctx.idx = Len(out) /\ ctx.idx <= ctx.len
  /\ co \notin {"sending", "send", "raised"} => pos = Len(out)

SockInv == SockTypes /\ InStream /\ SendSound /\ OutStream

-----------------------------------------------------------------------------
\* The smaller of two numbers.
LEMMA MinOfTwo ==
  ASSUME NEW a \in Nat, NEW b \in Nat
  PROVE  Min({a, b}) \in {a, b} /\ Min({a, b}) \in Nat /\ Min({a, b}) <= a /\ Min({a, b}) <= b
<1>1. CASE a <= b
  BY <1>1 DEF Min
<1>2. CASE b <= a
  BY <1>2 DEF Min
<1> QED  BY <1>1, <1>2

\* A stream is a sequence, and k bytes more make it a longer stream.
LEMMA StreamGrows ==
  ASSUME NEW m \in Nat, NEW k \in Nat
  PROVE  /\ Bytes(m) \in Seq(Nat) /\ Len(Bytes(m)) = m
         /\ [x \in 1 .. k |-> m + x] \in Seq(Nat)
         /\ Bytes(m) \o [x \in 1 .. k |-> m + x] = Bytes(m + k)
<1> DEFINE b    == Bytes(m)
           c    == Bytes(m + k)
           more == [x \in 1 .. k |-> m + x]
<1>1. /\ b \in Seq(Nat) /\ Len(b) = m /\ c \in Seq(Nat) /\ Len(c) = m + k
      /\ more \in Seq(Nat) /\ Len(more) = k
  BY DEF Bytes
<1>2. /\ \A x \in 1 .. m : b[x] = x
      /\ \A x \in 1 .. m + k : c[x] = x
      /\ \A x \in 1 .. k : more[x] = m + x
  BY DEF Bytes
<1> HIDE DEF more, b, c
<1>3. /\ b \o more \in Seq(Nat) /\ Len(b \o more) = Len(b) + Len(more)
      /\ \A x \in 1 .. Len(b) + Len(more) :
           (b \o more)[x] = IF x <= Len(b) THEN b[x] ELSE more[x - Len(b)]
  BY <1>1, ConcatProperties
<1>4. ASSUME NEW x \in 1 .. m + k
      PROVE  (b \o more)[x] = c[x]
  <2>1. CASE x <= m
    BY <1>1, <1>2, <1>3, <2>1
  <2>2. CASE ~(x <= m)
    <3>1. x - m \in 1 .. k /\ m + (x - m) = x
      BY <2>2
    <3>2. more[x - m] = m + (x - m)
      BY <1>2, <3>1
    <3>3. (b \o more)[x] = more[x - m]
      BY <1>1, <1>3, <2>2
    <3>4. c[x] = x
      BY <1>2
    <3>5. more[x - m] = x
      BY <3>1, <3>2
    <3> QED  BY <3>3, <3>4, <3>5
  <2> QED  BY <2>1, <2>2
<1>5. b \o more = c
  BY <1>1, <1>3, <1>4, SeqEqual
<1> QED  BY <1>1, <1>5 DEF more, b, c

-----------------------------------------------------------------------------
(* The way in.                                                               *)

\* InStream in terms of lengths
LEMMA NothingMissing ==
  ASSUME SockInv
  PROVE  Len(got) \in Nat /\ Len(inq) \in Nat /\ Len(got) + Len(inq) = written
<1>1. Len(got \o inq) = Len(got) + Len(inq)
  BY ConcatProperties DEF SockInv, SockTypes
<1>2. Len(Bytes(written)) = written
  BY StreamGrows DEF SockInv, SockTypes
<1> QED  BY <1>1, <1>2 DEF SockInv, SockTypes, InStream, Bytes

\* read(2), by whatever call, takes the next bytes, or tells of the end.
LEMMA ReadFdStep ==
  ASSUME SockInv, NEW m \in Nat, ReadFd(m), UNCHANGED <<written, fin>>
  PROVE  InStream' /\ got' \in Seq(Nat) /\ inq' \in Seq(Nat) /\ eof' \in BOOLEAN
<1> DEFINE k == Min({m, Len(inq)})
<1>1. k \in 0 .. Len(inq)
  BY NothingMissing, MinOfTwo
<1>2. /\ got' = got \o SubSeq(inq, 1, k) /\ inq' = SubSeq(inq, k + 1, Len(inq))
      /\ eof' = (eof \/ ReadAnswer = "eof")
  BY DEF ReadFd
<1> HIDE DEF k
<1>3. /\ got' \in Seq(Nat) /\ inq' \in Seq(Nat) /\ got' \o inq' = got \o inq
      /\ Len(SubSeq(inq, 1, k)) = k /\ SubSeq(inq, 1, k) \in Seq(Nat)
  <2>1. got \in Seq(Nat) /\ inq \in Seq(Nat)
    BY DEF SockInv, SockTypes
  <2>2. \A a, b \in Seq(Nat) : \A x \in 0 .. Len(b) :
          /\ SubSeq(b, 1, x) \in Seq(Nat) /\ Len(SubSeq(b, 1, x)) = x
          /\ SubSeq(b, x + 1, Len(b)) \in Seq(Nat)
          /\ a \o SubSeq(b, 1, x) \in Seq(Nat)
          /\ (a \o SubSeq(b, 1, x)) \o SubSeq(b, x + 1, Len(b)) = a \o b
    BY PrefixMoves
  <2> QED  BY <1>1, <1>2, <2>1, <2>2, Zenon
<1>4. Len(got') = Len(got) + k
  BY <1>2, <1>3, ConcatProperties DEF SockInv, SockTypes
<1>5. ReadAnswer = "eof" => inq = << >> /\ fin
  BY DEF ReadAnswer
<1>6. eof' => fin /\ Len(inq) = 0
  <2>1. eof => fin /\ Len(got) = written
    BY DEF SockInv, InStream
  <2>2. eof => fin /\ Len(inq) = 0
    BY <2>1, NothingMissing
  <2>3. inq = << >> => Len(inq) = 0
    BY EmptyConcat
  <2> QED  BY <1>2, <1>5, <2>2, <2>3
<1>7. eof' => fin' /\ Len(got') = written'
  BY <1>1, <1>4, <1>6, NothingMissing
<1> QED  BY <1>2, <1>3, <1>7 DEF SockInv, InStream

\* Every other step leaves the stream to the script as it is, or the peer adds
\* to it.
LEMMA InputStep ==
  ASSUME SockInv, SockNext
  PROVE  /\ InStream' /\ got' \in Seq(Nat) /\ inq' \in Seq(Nat)
         /\ written' \in Nat /\ eof' \in BOOLEAN
<1>1. CASE PeerWrite
  <2>1. /\ ~fin /\ written' = written + 1 /\ inq' = Append(inq, written + 1)
        /\ UNCHANGED <<got, eof, fin>>
    BY <1>1 DEF PeerWrite, scriptVars
  <2>2. got \in Seq(Nat) /\ inq \in Seq(Nat) /\ written + 1 \in Nat /\ written \in Nat
    BY DEF SockInv, SockTypes
  <2>3. got \o Append(inq, written + 1) = Append(got \o inq, written + 1)
    BY <2>2, QueueAppend
  <2>4. Append(Bytes(written), written + 1) = Bytes(written + 1)
    <3> DEFINE b == Bytes(written)
               w == written + 1
    <3>1. b \in Seq(Nat) /\ Len(b) = written /\ Bytes(w) \in Seq(Nat) /\ Len(Bytes(w)) = w
      BY <2>2, StreamGrows
    <3>2. /\ Append(b, w) \in Seq(Nat) /\ Len(Append(b, w)) = w
          /\ \A x \in 1 .. written : Append(b, w)[x] = b[x]
          /\ Append(b, w)[w] = w
      BY <2>2, <3>1, AppendElements
    <3>3. \A x \in 1 .. w : Append(b, w)[x] = Bytes(w)[x]
      BY <2>2, <3>2 DEF Bytes
    <3> QED  BY <3>1, <3>2, <3>3, SeqEqual
  <2>5. InStream'
    BY <2>1, <2>3, <2>4 DEF SockInv, InStream, Bytes
  <2>6. Append(inq, written + 1) \in Seq(Nat)
    BY <2>2, AppendElements
  <2> QED  BY <2>1, <2>2, <2>5, <2>6 DEF SockInv, SockTypes
<1>2. CASE UNCHANGED <<got, inq, written, eof>> /\ (fin => fin')
  BY <1>2 DEF SockInv, InStream, SockTypes
<1>3. ASSUME NEW m \in Nat, ReadFd(m), UNCHANGED <<written, fin>>
      PROVE  /\ InStream' /\ got' \in Seq(Nat) /\ inq' \in Seq(Nat)
             /\ written' \in Nat /\ eof' \in BOOLEAN
  BY <1>3, ReadFdStep DEF SockInv, SockTypes
<1>4. \A x \in 0 .. MaxLen : Wanted(x) \in Nat
  BY ScriptSocketAssumption DEF Wanted
<1>5. CASE PeerShut \/ PeerTake \/ PeerReset
  BY <1>2, <1>5 DEF PeerShut, PeerTake, PeerReset, scriptVars
<1>6. CASE Call
  <2>1. ASSUME NEW x \in 0 .. MaxLen, lcf_socket_sread(x)
        PROVE  ReadFd(Wanted(x)) /\ UNCHANGED <<written, fin>>
    BY <2>1 DEF lcf_socket_sread
  <2>2. ASSUME NEW x \in 0 .. MaxLen, lcf_socket_ssend(x) \/ lcf_socket_send(x)
        PROVE  UNCHANGED <<got, inq, written, eof, fin>>
    BY <2>2 DEF lcf_socket_ssend, lcf_socket_send, netVars
  <2>3. lcf_socket_read \/ EvBegin \/ ScriptEnds => UNCHANGED <<got, inq, written, eof, fin>>
    BY DEF lcf_socket_read, EvBegin, ScriptEnds, netVars
  <2> QED  BY <1>2, <1>3, <1>4, <1>6, <2>1, <2>2, <2>3 DEF Call
<1>7. CASE SendTurn \/ Timeout
  BY <1>2, <1>7 DEF SendTurn, Timeout, netVars
<1>8. CASE ReadAllTurn
  BY <1>3, <1>8, ScriptSocketAssumption DEF ReadAllTurn
<1>9. CASE Event
  <2>1. PICK x \in 0 .. MaxLen : Deliver(x)
    BY <1>9 DEF Event
  <2>2. \/ UNCHANGED <<got, inq, eof>>
        \/ ReadFd(Wanted(x))
    BY <2>1 DEF Deliver, Resumed
  <2>3. UNCHANGED <<written, fin>>
    BY <2>1 DEF Deliver
  <2> QED  BY <1>2, <1>3, <1>4, <2>2, <2>3
<1> QED  BY <1>1, <1>5, <1>6, <1>7, <1>8, <1>9 DEF SockNext, Peer

-----------------------------------------------------------------------------
(* The way out.                                                              *)

\* send(2) takes no more than it is given, and no more than there is room for.
LEMMA TakenFits ==
  ASSUME SockInv, NEW len \in Nat
  PROVE  Taken(len) \in Nat /\ Taken(len) <= len /\ outq + Taken(len) \in 0 .. SendCap
<1>1. outq \in Nat /\ outq <= SendCap /\ SendCap \in Nat /\ SendCap - outq \in Nat
  BY ScriptSocketAssumption DEF SockInv, SockTypes
<1> QED  BY <1>1, MinOfTwo DEF Taken

\* Bytes that follow the last one that went out make the stream longer.
LEMMA PutStep ==
  ASSUME SockInv, NEW k \in Nat, PutOnWire(Len(out), k), outq + k \in 0 .. SendCap
  PROVE  /\ out' \in Seq(Nat) /\ outq' \in 0 .. SendCap
         /\ Len(out') = Len(out) + k /\ out' = Bytes(Len(out'))
<1>1. out \in Seq(Nat) /\ Len(out) \in Nat /\ out = Bytes(Len(out))
  <2>1. out \in Seq(Nat)
    BY DEF SockInv, SockTypes
  <2>2. out = Bytes(Len(out))
    BY DEF SockInv, OutStream, Bytes
  <2> QED  BY <2>1, <2>2, LenProperties
<1>2. out' = out \o [x \in 1 .. k |-> Len(out) + x] /\ outq' = outq + k
  BY DEF PutOnWire
<1>3. out' = Bytes(Len(out) + k)
  <2>1. \A m \in Nat : Bytes(m) \o [x \in 1 .. k |-> m + x] = Bytes(m + k)
    BY StreamGrows
  <2>2. Bytes(Len(out)) \o [x \in 1 .. k |-> Len(out) + x] = Bytes(Len(out) + k)
    BY <1>1, <2>1
  <2> QED  BY <1>1, <1>2, <2>2
<1>4. Bytes(Len(out) + k) \in Seq(Nat) /\ Len(Bytes(Len(out) + k)) = Len(out) + k
  <2>1. \A m \in Nat : Bytes(m) \in Seq(Nat) /\ Len(Bytes(m)) = m
    BY StreamGrows
  <2> QED  BY <1>1, <2>1
<1> QED  BY <1>2, <1>3, <1>4

\* What the invariant says of the way out, for the next state.
OutSound ==
  /\ out \in Seq(Nat) /\ outq \in 0 .. SendCap /\ pos \in Nat
  /\ ctx \in [len : Nat, idx : Nat] /\ SendSound /\ out = Bytes(Len(out))

\* A turn of send's loop: whatever part is taken, the context follows it.
LEMMA SendTurnStep ==
  ASSUME SockInv, SendTurn
  PROVE  OutSound'
<1> DEFINE len == ctx.len - ctx.idx
           k   == Taken(len)
<1>1. /\ co = "sending" /\ pos \in Nat /\ ctx.len \in Nat /\ ctx.idx \in Nat
      /\ pos + ctx.idx = Len(out) /\ ctx.idx <= ctx.len /\ out = Bytes(Len(out))
      /\ out \in Seq(Nat) /\ outq \in 0 .. SendCap /\ ctx \in [len : Nat, idx : Nat]
      /\ Len(out) \in Nat
  BY DEF SendTurn, SockInv, SockTypes, SendSound, OutStream, Bytes
<1>2. len \in Nat /\ len + ctx.idx = ctx.len
  BY <1>1
<1>3. k \in Nat /\ k <= len /\ outq + k \in 0 .. SendCap
  BY <1>2, TakenFits
<1>4. CASE SendAnswer(len) = "taken"
  <2>1. /\ PutOnWire(pos + ctx.idx, k)
        /\ IF k = len
           THEN co' = "run" /\ ctx' = NoCtx /\ pos' = pos + ctx.len
           ELSE co' = co /\ ctx' = [ctx EXCEPT !.idx = IdxAfter(k)] /\ pos' = pos
    BY <1>4 DEF SendTurn
  <2> HIDE DEF len, k
  <2>2. /\ out' \in Seq(Nat) /\ outq' \in 0 .. SendCap
        /\ Len(out') = Len(out) + k /\ out' = Bytes(Len(out'))
    BY <1>1, <1>3, <2>1, PutStep
  <2>3. CASE k = len
    <3>1. pos' = Len(out') /\ pos' \in Nat
      BY <1>1, <1>2, <1>3, <2>1, <2>2, <2>3
    <3> QED  BY <2>1, <2>2, <2>3, <3>1 DEF OutSound, SendSound, NoCtx
  <2>4. CASE k # len
    <3>1. /\ ctx'.idx = ctx.idx + k /\ ctx'.len = ctx.len /\ ctx' \in [len : Nat, idx : Nat]
      <4>1. ctx' = [ctx EXCEPT !.idx = ctx.idx + k] /\ ctx.idx + k \in Nat
        BY <1>1, <1>3, <2>1, <2>4 DEF IdxAfter
      <4> QED  BY <1>1, <4>1
    <3>2. pos' + ctx'.idx = Len(out') /\ ctx'.idx <= ctx'.len
      <4>1. pos' = pos
        BY <2>1, <2>4
      <4>2. Len(out') = pos + (ctx.idx + k) /\ ctx.idx + k <= ctx.len
        <5>1. /\ pos \in Nat /\ ctx.idx \in Nat /\ len \in Nat /\ k \in Nat /\ k <= len
              /\ len + ctx.idx = ctx.len /\ Len(out') = Len(out) + k /\ Len(out) = pos + ctx.idx
          BY <1>1, <1>2, <1>3, <2>2
        <5> QED  BY ONLY <5>1
      <4> QED  BY <3>1, <4>1, <4>2
    <3> QED  BY <1>1, <2>1, <2>2, <2>4, <3>1, <3>2 DEF OutSound, SendSound
  <2> QED  BY <2>3, <2>4
<1>5. CASE SendAnswer(len) # "taken"
  <2>1. /\ UNCHANGED <<out, outq>>
        /\ \/ co' = "send" /\ UNCHANGED <<ctx, pos>>
           \/ co' = "run" /\ ctx' = NoCtx /\ pos' = pos + ctx.idx
    BY <1>5 DEF SendTurn
  <2> QED  BY <1>1, <2>1 DEF OutSound, SendSound, NoCtx
<1> QED  BY <1>4, <1>5

\* Every other step that sends goes on from the count the script believes.
LEMMA OutputStep ==
  ASSUME SockInv, SockNext
  PROVE  OutSound'
<1>1. OutSound
  BY DEF SockInv, SockTypes, OutSound, OutStream, Bytes
<1>2. CASE SendTurn
  BY <1>2, SendTurnStep
<1>3. ASSUME NEW len \in 0 .. MaxLen, lcf_socket_ssend(len)
      PROVE  OutSound'
  <2> DEFINE k == SsendCount(len)
  <2>1. /\ co = "run" /\ pos = Len(out) /\ PutOnWire(Len(out), k) /\ pos' = pos + k
        /\ UNCHANGED <<co, ctx>>
    BY <1>1, <1>3 DEF lcf_socket_ssend, MayCall, SsendCount, OutSound, SendSound
  <2>2. k \in Nat /\ outq + k \in 0 .. SendCap
    BY <1>1, TakenFits, ScriptSocketAssumption DEF SsendCount, OutSound
  <2> HIDE DEF k
  <2>3. /\ out' \in Seq(Nat) /\ outq' \in 0 .. SendCap
        /\ Len(out') = Len(out) + k /\ out' = Bytes(Len(out'))
    BY <2>1, <2>2, PutStep
  <2> QED  BY <1>1, <2>1, <2>2, <2>3 DEF OutSound, SendSound
<1>4. ASSUME NEW len \in 0 .. MaxLen, lcf_socket_send(len)
      PROVE  OutSound'
  <2>1. /\ co = "run" /\ co' = "sending" /\ ctx' = [len |-> len, idx |-> 0]
        /\ UNCHANGED <<pos, out, outq>>
    BY <1>4 DEF lcf_socket_send, MayCall, netVars
  <2>2. len \in Nat /\ Len(out) \in Nat
    BY <1>1, ScriptSocketAssumption DEF OutSound
  <2> QED  BY <1>1, <2>1, <2>2 DEF OutSound, SendSound
<1>5. CASE /\ UNCHANGED <<out, pos, ctx>> /\ outq' \in 0 .. SendCap
           /\ \/ co' = co
              \/ co' \in {"raised"}
              \/ co = "send" /\ co' = "sending"
              \/ co \notin {"sending", "send", "raised"} /\ co' \notin {"sending", "send"}
  BY <1>1, <1>5 DEF OutSound, SendSound
<1>6. CASE Peer
  <2>1. outq' \in 0 .. SendCap
    BY <1>1, <1>6, ScriptSocketAssumption
       DEF Peer, PeerWrite, PeerShut, PeerTake, PeerReset, OutSound
  <2>2. UNCHANGED <<out, pos, ctx, co>>
    BY <1>6 DEF Peer, PeerWrite, PeerShut, PeerTake, PeerReset, scriptVars
  <2> QED  BY <1>5, <2>1, <2>2
<1>7. ASSUME \/ \E x \in 0 .. MaxLen : lcf_socket_sread(x)
             \/ lcf_socket_read \/ EvBegin \/ ScriptEnds
      PROVE  OutSound'
  <2>1. /\ co = "run" /\ co' \in {"run", "read", "ev", "done"} /\ UNCHANGED <<out, outq, pos, ctx>>
    BY <1>7 DEF lcf_socket_sread, lcf_socket_read, EvBegin, ScriptEnds, MayCall, netVars
  <2> QED  BY <1>1, <1>5, <2>1 DEF OutSound
<1>8. CASE ReadAllTurn
  <2>1. /\ co = "read_all" /\ co' \in {"read_all", "ev", "done"} /\ UNCHANGED <<out, outq, pos, ctx>>
    BY <1>8 DEF ReadAllTurn, AfterData
  <2> QED  BY <1>1, <1>5, <2>1 DEF OutSound
<1>9. CASE Event
  <2>1. PICK x \in 0 .. MaxLen : Deliver(x)
    BY <1>9 DEF Event
  <2>2. /\ co \in {"read", "send", "ev"} /\ UNCHANGED <<out, outq, pos, ctx>>
        /\ \/ co' = co
           \/ co' = "raised"
           \/ co = "read" /\ co' = "run"
           \/ co = "send" /\ co' = "sending"
           \/ co = "ev" /\ co' = "read_all"
    BY <2>1 DEF Deliver, Resumed, Waiting
  <2> QED  BY <1>1, <1>5, <2>2 DEF OutSound
<1>10. CASE Timeout
  <2>1. /\ co \in {"read", "send", "ev"} /\ UNCHANGED <<out, outq>>
        /\ \/ co' = "raised" /\ UNCHANGED <<pos, ctx>>
           \/ co # "send" /\ co' \in {"run", "ev"} /\ UNCHANGED <<pos, ctx>>
           \/ co = "send" /\ co' = "run" /\ pos' = pos + ctx.idx /\ ctx' = NoCtx
    BY <1>10 DEF Timeout, Waiting, netVars
  <2>2. CASE co = "send" /\ co' = "run" /\ pos' = pos + ctx.idx /\ ctx' = NoCtx
    BY <1>1, <2>1, <2>2 DEF OutSound, SendSound, NoCtx
  <2> QED  BY <1>1, <1>5, <2>1, <2>2 DEF OutSound
<1> QED  BY <1>2, <1>3, <1>4, <1>6, <1>7, <1>8, <1>9, <1>10 DEF SockNext, Call

-----------------------------------------------------------------------------
\* The invariant, of every step.
THEOREM SockInvariant == SockSpec => []SockInv
<1>1. SockInit => SockInv
  <2> SUFFICES ASSUME SockInit PROVE SockInv
    OBVIOUS
  <2>1. /\ << >> \in Seq(Nat) /\ Len(<< >>) = 0 /\ << >> \o << >> = << >>
        /\ Bytes(0) = << >>
    <3>1. Bytes(0) \in Seq(Nat) /\ Len(Bytes(0)) = 0
      BY StreamGrows
    <3>2. Bytes(0) = << >>
      BY <3>1, EmptySeq
    <3> QED  BY <3>2, EmptySeq, EmptyConcat
  <2>2. SockTypes
    <3>1. 0 \in 0 .. SendCap /\ NoCtx \in [len : Nat, idx : Nat]
      BY ScriptSocketAssumption DEF NoCtx
    <3> QED  BY <3>1, EmptySeq DEF SockInit, SockTypes
  <2>3. InStream /\ OutStream /\ SendSound
    BY <2>1 DEF SockInit, InStream, OutStream, SendSound, Bytes
  <2> QED  BY <2>2, <2>3 DEF SockInv
<1>2. SockInv /\ [SockNext]_sockVars => SockInv'
  <2> SUFFICES ASSUME SockInv, [SockNext]_sockVars PROVE SockInv'
    OBVIOUS
  <2>1. CASE SockNext
    BY <2>1, InputStep, OutputStep DEF SockInv, SockTypes, OutSound, OutStream, SendSound, Bytes
  <2>2. CASE UNCHANGED sockVars
    BY <2>2 DEF sockVars, scriptVars, netVars, SockInv, SockTypes, InStream, OutStream, SendSound
  <2> QED  BY <2>1, <2>2
<1> QED  BY <1>1, <1>2, PTL DEF SockSpec

\* For any number of bytes and any sizes of buffers, the script is given the
\* peer's stream: no byte lost, repeated or out of order, whichever of sread, read
\* and read_all takes it, and the end only after the last byte.
THEOREM ScriptReadsStream == SockSpec => []InStream
<1>1. SockInv => InStream
  BY DEF SockInv
<1> QED  BY <1>1, SockInvariant, PTL

\* The bytes that go out are the script's, in order and each once, across
\* partial sends, timeouts and errors, when it goes on after the count it got.
THEOREM ScriptSendsStream == SockSpec => []OutStream
<1>1. SockInv => OutStream
  BY DEF SockInv
<1> QED  BY <1>1, SockInvariant, PTL
=============================================================================
