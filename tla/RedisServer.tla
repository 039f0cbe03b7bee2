----------------------------- MODULE RedisServer -----------------------------
(***************************************************************************)
(* One connection of the Go redis server: protocol/redis/handle.go fed     *)
(* with the bytes of the connection in chunks of any size, process.go and  *)
(* state.go behind it, and at the other end either RedisConn.Query of      *)
(* dial/redis/conn.go, which waits for each answer and parses it, or a     *)
(* client that has several requests outstanding, some of them no commands. *)
(***************************************************************************)
EXTENDS RedisParser, FiniteSets

CONSTANTS
  Byte,      \* what payloads are made of
  Queries,   \* the argv's Query is called with
  Piped,     \* the requests of the impatient client
  Window,    \* requests the impatient client has outstanding at most
  MaxQuery,  \* bound: calls of Query in a run
  MaxPiped   \* bound: requests of the impatient client in a run

\* An argv whose numbers Decimal writes
IsArgv(r) ==
  /\ r \in Seq(Seq(Byte) \cup {NoBytes}) /\ Len(r) < 100
  /\ \A i \in 1 .. Len(r) : Len(r[i]) < 100

\* A line that starts with no type byte, and a multi bulk of a negative length;
\* they are written in the form of an argv
BadLine  == <<<<"raw", "x">>>>
NegMulti == <<<<"raw", "*", "-", "1">>>>
Encode(r) ==
  IF r = BadLine THEN Line("x", <<>>)
  ELSE IF r = NegMulti THEN Line("*", <<"-", "1">>) ELSE WrapMulitBulk(r)

ASSUME RedisServerAssumption ==
  /\ Window \in Nat \ {0} /\ MaxQuery \in Nat /\ MaxPiped \in Nat
  /\ \A r \in Piped : IsArgv(r) \/ r \in {BadLine, NegMulti}
  /\ \A r \in Queries : IsArgv(r) /\ r # <<>> /\ r \notin {BadLine, NegMulti}   \* a command

VARIABLES
  mode,      \* the client: "query" or "piped"
  sent,      \* the requests, in order
  wire,      \* bytes the client wrote and readBytes has not read
  buf,       \* state.buf
  parser,    \* state.parser
  store,     \* sb.v
  understood, \* the requests the server has answered, as it understood them
  back,      \* bytes of answers that Query has not read
  p,         \* the parser of the Query under way
  got,       \* the command each Query that returned has got
  lost       \* the connection is gone

serverVars == <<buf, parser, store, understood>>
queryVars  == <<p, got>>
redisVars  == <<mode, sent, wire, serverVars, back, queryVars, lost>>

RedisInit ==
  /\ mode \in {"query", "piped"}
  /\ sent = <<>> /\ wire = <<>> /\ buf = <<>> /\ parser = NewParser
  /\ store = <<>> /\ understood = <<>> /\ back = <<>> /\ p = NewParser /\ got = <<>>
  /\ lost = FALSE

-----------------------------------------------------------------------------
(* processCommand: the answer, and the store it leaves.                     *)

Null == WrapBulk(NoBytes)
StatusOK == Line("+", <<"O", "K">>)
Pong == <<"P", "O", "N", "G">>
Error == Line("-", <<"E", "R", "R", "O", "R">>)

\* the command names, and string(bs): that of nil is the empty one
IsGet(argv)  == Len(argv) = 2 /\ argv[1] = <<"G">>
IsSet(argv)  == Len(argv) = 3 /\ argv[1] = <<"S">>
IsPing(argv) == Len(argv) \in {1, 2} /\ argv[1] = <<"P">>
Key(bs) == IF bs = NoBytes THEN <<>> ELSE bs

Answer(argv) ==
  IF IsGet(argv)
  THEN IF Key(argv[2]) \in DOMAIN store THEN WrapBulk(store[Key(argv[2])]) ELSE Null
  ELSE IF IsPing(argv) THEN WrapBulk(IF Len(argv) = 1 THEN Pong ELSE argv[2])
  ELSE StatusOK

StoreAfter(argv) ==
  IF IsSet(argv)
  THEN [k \in DOMAIN store \cup {Key(argv[2])} |->
          IF k = Key(argv[2]) THEN argv[3] ELSE store[k]]
  ELSE store

\* state.buf[i:]
Rest(bs, taken) == SubSeq(bs, taken + 1, Len(bs))

\* HandleBytes on the first k bytes of the wire: at most one command is taken
\* out of the buffer.  A panic of the parser ends the connection.
HandleBytes(k) ==
  LET bs == buf \o SubSeq(wire, 1, k)
      w == Write(parser, bs)
      complete == w.ps.stack = <<>> /\ ~w.ps.panic
      argv == IF OK(w.ps) THEN Argv(w.ps) ELSE BadLine
  IN  /\ ~lost /\ k \in 1 .. Len(wire)
      /\ lost' = w.ps.panic
      /\ wire' = SubSeq(wire, k + 1, Len(wire))
      /\ buf' = Rest(bs, w.n)
      /\ parser' = IF complete THEN NewParser ELSE w.ps
      /\ IF complete
         THEN /\ understood' = Append(understood, argv)
              /\ store' = StoreAfter(argv)
              /\ back' = IF mode = "query"
                         THEN back \o (IF OK(w.ps) THEN Answer(argv) ELSE Error) ELSE back
         ELSE UNCHANGED <<store, understood, back>>
      /\ UNCHANGED <<mode, sent, queryVars>>

-----------------------------------------------------------------------------
(* The clients.                                                             *)

SendPiped(r) ==
  /\ mode = "piped" /\ ~lost
  /\ Len(sent) < MaxPiped /\ Len(sent) - Len(understood) < Window
  /\ sent' = Append(sent, r) /\ wire' = wire \o Encode(r)
  /\ UNCHANGED <<mode, serverVars, back, queryVars, lost>>

\* Query up to its first Read
Query(argv) ==
  /\ mode = "query" /\ ~lost /\ Len(sent) = Len(got) /\ Len(sent) < MaxQuery
  /\ sent' = Append(sent, argv) /\ wire' = wire \o WrapMulitBulk(argv)
  /\ p' = NewParser
  /\ UNCHANGED <<mode, serverVars, back, got, lost>>

\* what GetCommand returns
Command(ps) == [type |-> ps.cmds[1].type, bytes |-> ps.cmds[1].bytes]

\* faulty variant: it returns after the first read
HasCommandAlways(ps) == TRUE

HasCommand(ps) == ps.stack = <<>>

\* a Read of k bytes; what the parser does not take is dropped with the buffer
QueryRead(k) ==
  LET w == Write(p, SubSeq(back, 1, k))
  IN  /\ mode = "query" /\ Len(got) < Len(sent) /\ k \in 1 .. Len(back)
      /\ back' = SubSeq(back, k + 1, Len(back)) /\ p' = w.ps
      /\ got' = IF HasCommand(w.ps) THEN Append(got, Command(w.ps)) ELSE got
      /\ UNCHANGED <<mode, sent, wire, serverVars, lost>>

NoCommand == [type |-> "none", bytes |-> NoBytes]

\* io.EOF or another error ends the loop as well
QueryFails ==
  /\ mode = "query" /\ lost /\ Len(got) < Len(sent) /\ back = <<>>
  /\ got' = Append(got, NoCommand)
  /\ UNCHANGED <<mode, sent, wire, serverVars, back, p, lost>>

\* the connection breaks, with what is under way
Break ==
  /\ ~lost /\ lost' = TRUE /\ wire' = <<>> /\ back' = <<>>
  /\ UNCHANGED <<mode, sent, serverVars, queryVars>>

RedisNext ==
  \/ \E argv \in Queries : Query(argv)
  \/ \E r \in Piped : SendPiped(r)
  \/ \E k \in 1 .. Len(wire) : HandleBytes(k)
  \/ \E k \in 1 .. Len(back) : QueryRead(k)
  \/ QueryFails \/ Break

RedisSpec == RedisInit /\ [][RedisNext]_redisVars

-----------------------------------------------------------------------------
\* However the network cuts the stream, the server understands the requests the
\* client wrote, in order and byte for byte, payloads with CRLF and type bytes
\* in them included; a request it cannot make out (an empty multi bulk, a negative
\* length) is never followed by one that it misreads.
UnderstoodInOrder ==
  /\ Len(understood) <= Len(sent)
  /\ \A i \in DOMAIN understood : understood[i] = sent[i]

\* the SETs of a key before the i-th request
SetsBefore(i, key) == {j \in 1 .. i - 1 : IsSet(sent[j]) /\ Key(sent[j][2]) = key}

\* the value the i-th request finds under a key
ValueBefore(i, key) ==
  LET sets == SetsBefore(i, key)
  IN  IF sets = {} THEN NoBytes ELSE sent[CHOOSE j \in sets : \A m \in sets : m <= j][3]

\* what the i-th Query should get
Expected(i) ==
  IF IsGet(sent[i]) THEN [type |-> "bulk", bytes |-> ValueBefore(i, Key(sent[i][2]))]
  ELSE IF IsPing(sent[i])
  THEN [type |-> "bulk", bytes |-> IF Len(sent[i]) = 1 THEN Pong ELSE sent[i][2]]
  ELSE [type |-> "status", bytes |-> <<"O", "K">>]

\* A Query that returns has got the answer to its own request: a GET the value of
\* the last SET of its key, or nil; and while the connection holds no Query is
\* left waiting once all bytes have been read at both ends, though HandleBytes
\* handles one command a time and the answer may come in pieces.
QueriesAnswered ==
  mode = "query" =>
    /\ \A i \in DOMAIN got : got[i] \in {Expected(i), NoCommand}
    /\ \A i \in DOMAIN got : got[i] = NoCommand => lost
    /\ ~lost /\ wire = <<>> /\ back = <<>> => Len(got) = Len(sent)
=============================================================================
