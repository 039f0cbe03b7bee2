----------------------------- MODULE ClientPool ------------------------------
(***************************************************************************)
(* socketframe/client/pool.go with the dialer of dial/redis/pool.go: one   *)
(* goroutine owns the idle connections; GetConn and RecoverConn talk to it *)
(* over channels without buffer.                                           *)
(***************************************************************************)
EXTENDS Null, Naturals, Sequences, SequencesExt, FiniteSets

CONSTANTS
  Client,    \* goroutines that use the pool
  Conn,      \* connections that are ever dialled
  size       \* pool.size

ASSUME ClientPoolAssumption ==
  /\ size \in Nat /\ NULL \notin Conn \cup Client
  /\ Client \cap {"pool", "loop"} = {}   \* the other places of a connection

VARIABLES
  connPool,   \* pool.connPool
  loop,       \* where loop is: "recv", "dial", "select" or "reply"
  serving,    \* the client of the message loop is working on
  dialled,    \* the connection NewConn has opened, or the answer to send
  client,     \* where each client is
  holding,    \* what each client holds, or is about to give back
  opened      \* connections that are open

clientVars == <<connPool, loop, serving, dialled, client, holding, opened>>

ClientInit ==
  /\ connPool = <<>> /\ loop = "recv" /\ serving = NULL /\ dialled = NULL
  /\ client = [c \in Client |-> "idle"] /\ holding = [c \in Client |-> NULL] /\ opened = {}

Held == {holding[c] : c \in Client} \ {NULL}
Undialled == Conn \ (opened \cup Held \cup ToSet(connPool))

-----------------------------------------------------------------------------
(* The callers.                                                             *)

\* GetConn up to its send; the send itself is PoolGet
WantConn(c) ==
  /\ client[c] = "idle" /\ client' = [client EXCEPT ![c] = "get"]
  /\ UNCHANGED <<connPool, loop, serving, dialled, holding, opened>>

\* RecoverConn up to its send
WantRecover(c) ==
  /\ client[c] = "using" /\ client' = [client EXCEPT ![c] = "put"]
  /\ UNCHANGED <<connPool, loop, serving, dialled, holding, opened>>

-----------------------------------------------------------------------------
(* loop.                                                                    *)

\* faulty variant: the connection handed out stays in the pool
RestKept(q) == q

Remaining(q) == Tail(q)

\* _PM_GET is received: a pooled connection is the answer, or one is dialled
PoolGet(c) ==
  /\ loop = "recv" /\ client[c] = "get"
  /\ serving' = c /\ client' = [client EXCEPT ![c] = "out"]
  /\ IF connPool = <<>>
     THEN loop' = "dial" /\ UNCHANGED <<connPool, dialled>>
     ELSE /\ loop' = "reply" /\ dialled' = Head(connPool)
          /\ connPool' = Remaining(connPool)
  /\ UNCHANGED <<holding, opened>>

\* net.Dial
Dial ==
  /\ loop = "dial"
  /\ \/ \E k \in Undialled : dialled' = k /\ opened' = opened \cup {k} /\ loop' = "select"
     \/ dialled' = NULL /\ loop' = "reply" /\ UNCHANGED opened
  /\ UNCHANGED <<connPool, serving, client, holding>>

\* faulty variant: the connection is not closed when SELECT fails
CloseForgotten(k) == opened

CloseDialled(k) == opened \ {k}

\* SELECT has been written and its answer is read: NewConn succeeds, or closes
\* and fails.  The read has no deadline: it returns when the server answers or
\* the connection ends.
Select ==
  /\ loop = "select"
  /\ \/ loop' = "reply" /\ UNCHANGED <<dialled, opened>>
     \/ loop' = "reply" /\ opened' = CloseDialled(dialled) /\ dialled' = NULL
  /\ UNCHANGED <<connPool, serving, client, holding>>

Returns(k) == IF k = NULL THEN "idle" ELSE "using"

\* msg.out <- ...: GetConn returns the connection, or the error
Reply ==
  /\ loop = "reply" /\ loop' = "recv"
  /\ holding' = [holding EXCEPT ![serving] = dialled]
  /\ client' = [client EXCEPT ![serving] = Returns(dialled)]
  /\ serving' = NULL /\ dialled' = NULL
  /\ UNCHANGED <<connPool, opened>>

\* faulty variant: a full pool makes RecoverConn wait
PutWhenRoom(c) ==
  /\ loop = "recv" /\ client[c] = "put" /\ Len(connPool) < size
  /\ connPool' = Append(connPool, holding[c])
  /\ holding' = [holding EXCEPT ![c] = NULL] /\ client' = [client EXCEPT ![c] = "idle"]
  /\ UNCHANGED <<loop, serving, dialled, opened>>

PoolFull == Len(connPool) >= size
DelConn(k) == opened \ {k}

\* _PM_PUT is received
PoolPut(c) ==
  /\ loop = "recv" /\ client[c] = "put"
  /\ IF PoolFull THEN opened' = DelConn(holding[c]) /\ UNCHANGED connPool
     ELSE connPool' = Append(connPool, holding[c]) /\ UNCHANGED opened
  /\ holding' = [holding EXCEPT ![c] = NULL] /\ client' = [client EXCEPT ![c] = "idle"]
  /\ UNCHANGED <<loop, serving, dialled>>

Loop == (\E c \in Client : PoolGet(c) \/ PoolPut(c)) \/ Dial \/ Select \/ Reply

\* the steps loop takes whatever the server does
LoopAlone == Dial \/ Reply

ClientNext == Loop \/ \E c \in Client : WantConn(c) \/ WantRecover(c)

ClientSpec == ClientInit /\ [][ClientNext]_clientVars

\* loop runs when it can (net.Dial gives up in the end, Select is up to the
\* server and has no fairness); a goroutine parked on the channel is served in the end
\* (Go queues the senders of a channel); whoever holds a connection may keep it
\* forever.
ClientFairSpec ==
  /\ ClientSpec /\ WF_clientVars(LoopAlone)
  /\ \A c \in Client : SF_clientVars(PoolGet(c) \/ PoolPut(c))

-----------------------------------------------------------------------------
Place == Client \cup {"pool", "loop"}
At(k, place) ==
  CASE place = "pool" -> k \in ToSet(connPool)
    [] place = "loop" -> dialled = k
    [] OTHER -> holding[place] = k

\* A connection is in one place only, with one client, in the pool or on its
\* way through loop, and it is open there: two clients never share one.
ConnExclusive ==
  /\ IsInjective(connPool)
  /\ \A k \in Conn : \A a, b \in Place : At(k, a) /\ At(k, b) => a = b
  /\ \A k \in Conn : (\E a \in Place : At(k, a)) => k \in opened

\* No connection is open that nobody can reach any more, and not more than
\* pool.size are kept idle: a failed SELECT and a full pool close theirs.
NoConnLeak ==
  /\ \A k \in opened : \E a \in Place : At(k, a)
  /\ Len(connPool) <= size

\* GetConn returns, with a connection or with the dialler's error, and RecoverConn
\* returns, also when the pool is full, loop is busy dialling or dialling fails
\* again and again, provided loop does not wait for one answer to SELECT for
\* ever: a server that is silent there holds up every caller.
CallsReturn ==
  []<>(loop # "select") =>
    \A c \in Client :
      client[c] \in {"get", "out", "put"} ~> client[c] \in {"using", "idle"}
=============================================================================
