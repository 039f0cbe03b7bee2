----------------------------- MODULE RedisParser -----------------------------
(***************************************************************************)
(* redisparser/parser.go: the byte-driven parser of the redis protocol,    *)
(* and dial/redis/wrap.go, which writes what it reads.  A byte is a        *)
(* string that names it; a command name is a one-byte string here.         *)
(*                                                                         *)
(* A parser is a record: cmds holds every RedisCommand it allocated, the   *)
(* first being ps.redisCommand, stack the numbers of those still open.     *)
(***************************************************************************)
EXTENDS Integers, Sequences, SequencesExt

CR == "CR"
LF == "LF"
Digit == <<"0", "1", "2", "3", "4", "5", "6", "7", "8", "9">>

\* fmt's %d, on numbers below a hundred
Decimal(i) ==
  IF i < 10 THEN <<Digit[i + 1]>> ELSE <<Digit[(i \div 10) + 1], Digit[(i % 10) + 1]>>

\* strconv.Atoi: one or more digits after an optional sign
IsDigits(s) == s # <<>> /\ \A k \in 1 .. Len(s) : \E v \in 0 .. 9 : s[k] = Digit[v + 1]
Unsigned(s) == IF Head(s) \in {"-", "+"} THEN Tail(s) ELSE s
IsNumber(s) == s # <<>> /\ IsDigits(Unsigned(s))
DigitValue(d) == CHOOSE v \in 0 .. 9 : d = Digit[v + 1]
Natural(s) ==
  LET val[k \in 0 .. Len(s)] == IF k = 0 THEN 0 ELSE 10 * val[k - 1] + DigitValue(s[k])
  IN  val[Len(s)]
Atoi(s) == IF Head(s) = "-" THEN -Natural(Unsigned(s)) ELSE Natural(Unsigned(s))

\* a nil slice, which is not the empty one
NoBytes == <<"nil">>

newRedisCommand == [type |-> "unknown", status |-> "start", bytes |-> NoBytes,
                    int |-> 0, commands |-> <<>>]

NewParser == [stack |-> <<1>>, cmds |-> <<newRedisCommand>>, buffer |-> <<>>,
              argLen |-> 0, panic |-> FALSE]

Top(ps) == ps.stack[Len(ps.stack)]
SetType(ps, c, type) == [ps EXCEPT !.cmds[c].type = type]
SetStatus(ps, c, status) == [ps EXCEPT !.cmds[c].status = status]
setBytes(ps, c, bs) == [ps EXCEPT !.cmds[c].bytes = bs]
setCommands(ps, c, ids) == [ps EXCEPT !.cmds[c].commands = ids]
SetBuffer(ps, bs) == [ps EXCEPT !.buffer = bs]
SetStack(ps, ids) == [ps EXCEPT !.stack = ids]
SetCmds(ps, cmds) == [ps EXCEPT !.cmds = cmds]
SetArgLen(ps, i) == [ps EXCEPT !.argLen = i]
Panic(ps) == [ps EXCEPT !.panic = TRUE]

endByCtrf(buffer) ==
  Len(buffer) >= 2 /\ buffer[Len(buffer) - 1] = CR /\ buffer[Len(buffer)] = LF

Text(buffer) == SubSeq(buffer, 1, Len(buffer) - 2)

Ended(cmd) == [cmd EXCEPT !.status = "end"]

\* popStacks: finished commands leave the stack down to the first that is not, and
\* the multi bulk below its last element is finished with it
popStacks(ps) ==
  LET open == {x \in DOMAIN ps.stack : ps.cmds[ps.stack[x]].status \notin {"end", "mulit"}}
      l == IF open = {} THEN 0 ELSE CHOOSE x \in open : \A y \in open : y <= x
      popped == {ps.stack[x] : x \in l + 1 .. Len(ps.stack)}
      ended == [c \in DOMAIN ps.cmds |-> IF c \in popped THEN Ended(ps.cmds[c]) ELSE ps.cmds[c]]
  IN  SetStack(SetCmds(ps, ended), SubSeq(ps.stack, 1, l))

Finish(ps, c) == popStacks(SetStatus(ps, c, "end"))

\* faulty variant: the end is looked for before the length is reached
FixedLenUntilCrlf(ps, b, c) ==
  LET ps1 == SetBuffer(ps, Append(ps.buffer, b)) IN
  IF endByCtrf(ps1.buffer) THEN Finish(setBytes(ps1, c, Text(ps1.buffer)), c) ELSE ps1

parseFixedLen(ps, b, c) ==
  LET ps1 == SetBuffer(ps, Append(ps.buffer, b)) IN
  IF Len(ps1.buffer) # ps.argLen + 2 THEN ps1
  ELSE IF endByCtrf(ps1.buffer) THEN Finish(setBytes(ps1, c, Text(ps1.buffer)), c)
  ELSE SetStatus(ps1, c, "error")

TypeOf(b) ==
  CASE b = "+" -> "status" [] b = "-" -> "error" [] b = "$" -> "bulk"
    [] b = ":" -> "int" [] b = "*" -> "mulit" [] OTHER -> "unknown"

\* an unknown first byte also goes on to "until_CRLF": line 228 overwrites the
\* error of line 225
parseStart(ps, b, c) ==
  SetBuffer(SetStatus(SetType(ps, c, TypeOf(b)), c, "until_CRLF"), <<>>)

\* a multi bulk of i elements: they go on the stack, the first on top
OpenMulti(ps, c, i) ==
  LET old == Len(ps.cmds)
      ps1 == setCommands(SetStatus(ps, c, "mulit"), c, [j \in 1 .. i |-> old + j])
      ps2 == SetCmds(ps1, ps1.cmds \o [j \in 1 .. i |-> newRedisCommand])
  IN  SetStack(ps2, ps.stack \o [j \in 1 .. i |-> old + i + 1 - j])

\* The line is complete.  A number that Atoi refuses leaves the status as it
\* is: the err of lines 243, 250 and 262 is not the one line 277 looks at.
EndLine(ps, c) ==
  LET text == Text(ps.buffer)
      type == ps.cmds[c].type
      i == Atoi(text)
  IN  IF type \in {"status", "error", "unknown"} THEN Finish(setBytes(ps, c, text), c)
      ELSE IF ~IsNumber(text) THEN ps
      ELSE IF type = "int" THEN Finish([ps EXCEPT !.cmds[c].int = i], c)
      ELSE IF type = "bulk"
      THEN IF i < 0 THEN Finish(setBytes(ps, c, NoBytes), c)
           ELSE SetStatus(SetArgLen(ps, i), c, "fixed_len")
      ELSE IF i < 0 THEN Panic(ps) ELSE OpenMulti(ps, c, i)

parseUnitlCrlf(ps, b, c) ==
  LET ps1 == SetBuffer(ps, Append(ps.buffer, b))
  IN  IF endByCtrf(ps1.buffer) THEN SetBuffer(EndLine(ps1, c), <<>>) ELSE ps1

ParseByte(ps, b) ==
  LET c == Top(ps)
      status == ps.cmds[c].status
  IN  CASE status = "start" -> parseStart(ps, b, c)
        [] status = "until_CRLF" -> parseUnitlCrlf(ps, b, c)
        [] status = "fixed_len" -> parseFixedLen(ps, b, c)
        [] OTHER -> ps

\* a turn of the loop of Write: at.n bytes have been taken
Turn(bs, at) ==
  LET c == Top(at.ps)
      ps1 == ParseByte(at.ps, bs[at.n + 1])
  IN  IF at.ps.panic \/ at.ps.stack = <<>> \/ at.n = Len(bs) THEN at
      ELSE [n |-> at.n + 1,
            ps |-> IF ps1.cmds[c].status # "error" THEN ps1
                   ELSE SetStack(SetStatus(ps1, 1, "error"), <<>>)]

\* Write: the parser after the bytes, and how many it has taken
Write(ps, bs) ==
  LET at[k \in Nat] == IF k = 0 THEN [n |-> 0, ps |-> ps] ELSE Turn(bs, at[k - 1])
  IN  at[Len(bs)]

\* RedisCommand.OK and the bytes of the elements of a complete command
OK(ps) == ps.cmds[1].type # "unknown" /\ ps.cmds[1].status = "end"
Argv(ps) == [j \in DOMAIN ps.cmds[1].commands |-> ps.cmds[ps.cmds[1].commands[j]].bytes]

-----------------------------------------------------------------------------
(* wrap.go                                                                  *)

Line(type, text) == <<type>> \o text \o <<CR, LF>>

WrapBulk(bs) ==
  IF bs = NoBytes THEN Line("$", <<"-", "1">>)
  ELSE Line("$", Decimal(Len(bs))) \o bs \o <<CR, LF>>

WrapMulitBulk(argv) ==
  LET wc[k \in 0 .. Len(argv)] ==
        IF k = 0 THEN Line("*", Decimal(Len(argv)))
        ELSE wc[k - 1] \o WrapBulk(argv[k])
  IN  wc[Len(argv)]
=============================================================================
