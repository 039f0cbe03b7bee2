----------------------------- MODULE RedisProofs -----------------------------
(***************************************************************************)
(* Theorems about modules RedisParser and RedisServer, for any payload     *)
(* bytes, any queries and piped requests of up to 99 elements, and any way *)
(* the network cuts the streams.                                           *)
(*                                                                         *)
(* The first half is about the parser alone: Reads says what it becomes on *)
(* the bytes of a stream, a byte at a time, and is then computed for the   *)
(* lines, the bulks and the multi bulks that wrap.go writes.  The second   *)
(* half is about the connection: the bytes under way are always those of   *)
(* the requests the server has not understood yet (StreamInv), and those   *)
(* of the one answer that is due (QueryInv).                               *)
(***************************************************************************)
EXTENDS RedisServer, SequenceFacts

-----------------------------------------------------------------------------
(* What a parser does with a stream.                                       *)

\* Write stops at such a parser
Stopped(ps) == ps.panic \/ ps.stack = <<>>

\* a byte in the loop of Write
Step(ps, b) ==
  LET c == Top(ps)
      ps1 == ParseByte(ps, b)
  IN  IF ps1.cmds[c].status # "error" THEN ps1
      ELSE SetStack(SetStatus(ps1, 1, "error"), <<>>)

\* h has the parsers before each of the bytes and after the last; Write does not
\* stop on the way
Path(h, bs) == \A i \in 0 .. Len(bs) - 1 : ~Stopped(h[i]) /\ h[i + 1] = Step(h[i], bs[i + 1])

\* the bytes take the parser x to y
Reads(x, bs, y) == \E h : h[0] = x /\ h[Len(bs)] = y /\ Path(h, bs)

\* No bytes leave a parser as it is.
LEMMA ReadsNone == \A x : Reads(x, <<>>, x)
<1> TAKE x
<1> DEFINE h == [i \in Nat |-> x]
<1>1. h[0] = x /\ Len(<<>>) = 0 /\ \A i : i \notin 0 .. 0 - 1
  OBVIOUS
<1>2. Path(h, <<>>)
  BY <1>1 DEF Path
<1> QED  BY <1>1, <1>2 DEF Reads

\* One byte is one turn of the loop of Write.
LEMMA ReadsByte ==
  ASSUME NEW x, NEW b, ~Stopped(x)
  PROVE  Reads(x, <<b>>, Step(x, b))
<1> DEFINE h == [i \in Nat |-> IF i = 0 THEN x ELSE Step(x, b)]
<1>1. h[0] = x /\ h[1] = Step(x, b) /\ Len(<<b>>) = 1 /\ <<b>>[1] = b /\ 0 + 1 = 1
  OBVIOUS
<1>2. \A i \in 0 .. 1 - 1 : i = 0
  OBVIOUS
<1> HIDE DEF h
<1>3. Path(h, <<b>>)
  BY <1>1, <1>2 DEF Path
<1> QED  BY <1>1, <1>3 DEF Reads

\* One stream after the other.
LEMMA ReadsBoth ==
  ASSUME NEW S, NEW a \in Seq(S), NEW b \in Seq(S), NEW x, NEW y, NEW z,
         Reads(x, a, y), Reads(y, b, z)
  PROVE  Reads(x, a \o b, z)
<1>1. PICK f : f[0] = x /\ f[Len(a)] = y /\ Path(f, a)
  BY DEF Reads
<1>2. PICK g : g[0] = y /\ g[Len(b)] = z /\ Path(g, b)
  BY DEF Reads
<1> DEFINE e == a \o b
           h == [i \in Nat |-> IF i <= Len(a) THEN f[i] ELSE g[i - Len(a)]]
<1>3. Len(a) \in Nat /\ Len(b) \in Nat /\ Len(e) = Len(a) + Len(b)
      /\ \A i \in 1 .. Len(a) + Len(b) : e[i] = IF i <= Len(a) THEN a[i] ELSE b[i - Len(a)]
  BY ConcatProperties
<1>4. \A i \in 0 .. Len(a) : h[i] = f[i]
  BY <1>3
<1>5. \A i \in 0 .. Len(b) : h[Len(a) + i] = g[i]
  <2> TAKE i \in 0 .. Len(b)
  <2>1. CASE i = 0
    BY <1>1, <1>2, <1>3, <2>1
  <2>2. CASE i # 0
    <3>1. Len(a) + i \in Nat /\ ~(Len(a) + i <= Len(a)) /\ (Len(a) + i) - Len(a) = i
      BY <1>3, <2>2
    <3> QED  BY <3>1
  <2> QED  BY <2>1, <2>2
<1> HIDE DEF h, e
<1>6. h[0] = x /\ h[Len(e)] = z
  BY <1>1, <1>2, <1>3, <1>4, <1>5
<1>7. ASSUME NEW i \in 0 .. Len(e) - 1
      PROVE  ~Stopped(h[i]) /\ h[i + 1] = Step(h[i], e[i + 1])
  <2>1. CASE i < Len(a)
    <3>1. i \in 0 .. Len(a) - 1 /\ i \in 0 .. Len(a) /\ i + 1 \in 0 .. Len(a) /\ i + 1 \in 1 .. Len(a) + Len(b)
          /\ i + 1 <= Len(a)
      BY <1>3, <2>1
    <3>2. ~Stopped(f[i]) /\ f[i + 1] = Step(f[i], a[i + 1])
      BY <1>1, <3>1 DEF Path
    <3> QED  BY <1>3, <1>4, <3>1, <3>2
  <2>2. CASE ~(i < Len(a))
    <3> DEFINE j == i - Len(a)
    <3>1. j \in 0 .. Len(b) - 1 /\ j \in 0 .. Len(b) /\ j + 1 \in 0 .. Len(b)
          /\ Len(a) + j = i /\ Len(a) + (j + 1) = i + 1 /\ i + 1 \in 1 .. Len(a) + Len(b)
          /\ ~(i + 1 <= Len(a)) /\ (i + 1) - Len(a) = j + 1
      BY <1>3, <2>2
    <3> HIDE DEF j
    <3>2. ~Stopped(g[j]) /\ g[j + 1] = Step(g[j], b[j + 1])
      BY <1>2, <3>1 DEF Path
    <3>3. h[i] = g[j] /\ h[i + 1] = g[j + 1]
      BY <1>5, <3>1
    <3>4. e[i + 1] = b[j + 1]
      BY <1>3, <3>1
    <3> QED  BY <3>2, <3>3, <3>4
  <2> QED  BY <2>1, <2>2
<1>8. Path(h, e)
  BY <1>7 DEF Path
<1>9. Reads(x, e, z)
  BY <1>6, <1>8 DEF Reads
<1> QED  BY <1>9 DEF e

\* A stream can be cut anywhere.
LEMMA ReadsCut ==
  ASSUME NEW S, NEW a \in Seq(S), NEW b \in Seq(S), b # <<>>, NEW x, NEW z, Reads(x, a \o b, z)
  PROVE  \E y : Reads(x, a, y) /\ Reads(y, b, z) /\ ~Stopped(y)
<1> DEFINE e == a \o b
<1>1. PICK h : h[0] = x /\ h[Len(e)] = z /\ Path(h, e)
  BY DEF Reads
<1>2. Len(a) \in Nat /\ Len(b) \in Nat \ {0} /\ Len(e) = Len(a) + Len(b)
      /\ \A i \in 1 .. Len(a) + Len(b) : e[i] = IF i <= Len(a) THEN a[i] ELSE b[i - Len(a)]
  BY ConcatProperties, EmptySeq
<1> HIDE DEF e
<1> DEFINE y == h[Len(a)]
           g == [i \in Nat |-> h[Len(a) + i]]
<1>3. ASSUME NEW i \in 0 .. Len(a) - 1 PROVE ~Stopped(h[i]) /\ h[i + 1] = Step(h[i], a[i + 1])
  <2>1. i \in 0 .. Len(e) - 1 /\ i + 1 \in 1 .. Len(a) + Len(b) /\ i + 1 <= Len(a)
    BY <1>2
  <2>2. e[i + 1] = a[i + 1]
    BY <1>2, <2>1
  <2> QED  BY <1>1, <2>1, <2>2 DEF Path
<1>4. Reads(x, a, y)
  BY <1>1, <1>3 DEF Reads, Path
<1>5. ASSUME NEW i \in 0 .. Len(b) - 1 PROVE ~Stopped(g[i]) /\ g[i + 1] = Step(g[i], b[i + 1])
  <2> DEFINE j == Len(a) + i
  <2>1. j \in 0 .. Len(e) - 1 /\ j + 1 \in 1 .. Len(a) + Len(b) /\ ~(j + 1 <= Len(a))
        /\ (j + 1) - Len(a) = i + 1 /\ i \in Nat /\ i + 1 \in Nat /\ Len(a) + (i + 1) = j + 1
    BY <1>2
  <2>2. g[i] = h[j] /\ g[i + 1] = h[j + 1]
    BY <2>1
  <2> HIDE DEF j, g
  <2>3. e[j + 1] = b[i + 1]
    BY <1>2, <2>1
  <2>4. ~Stopped(h[j]) /\ h[j + 1] = Step(h[j], e[j + 1])
    BY <1>1, <2>1 DEF Path
  <2> QED  BY <2>2, <2>3, <2>4
<1>6. Reads(y, b, z)
  <2>1. g[0] = y /\ g[Len(b)] = z
    BY <1>1, <1>2
  <2> HIDE DEF g
  <2> QED  BY <1>5, <2>1 DEF Reads, Path
<1>7. ~Stopped(y)
  <2>1. Len(a) \in 0 .. Len(e) - 1
    BY <1>2
  <2> QED  BY <1>1, <2>1 DEF Path
<1> QED  BY <1>4, <1>6, <1>7

\* Write takes the bytes that are read, and no more when the parser stops or there
\* are no more.
LEMMA WriteReads ==
  ASSUME NEW S, NEW a \in Seq(S), NEW b \in Seq(S), NEW x, NEW y, Reads(x, a, y),
         b = <<>> \/ Stopped(y)
  PROVE  Write(x, a \o b) = [n |-> Len(a), ps |-> y]
<1> DEFINE bs == a \o b
<1>1. PICK h : h[0] = x /\ h[Len(a)] = y /\ Path(h, a)
  BY DEF Reads
<1>2. Len(a) \in Nat /\ Len(b) \in Nat /\ Len(bs) = Len(a) + Len(b)
      /\ \A i \in 1 .. Len(a) + Len(b) : bs[i] = IF i <= Len(a) THEN a[i] ELSE b[i - Len(a)]
  BY ConcatProperties
<1> DEFINE At(i) == [n |-> i, ps |-> h[i]]
           P(f) == f = [k \in Nat |-> IF k = 0 THEN [n |-> 0, ps |-> x] ELSE Turn(bs, f[k - 1])]
           f0 == CHOOSE f : P(f)
           g == [k \in Nat |-> IF k <= Len(a) THEN At(k) ELSE At(Len(a))]
<1>3. Write(x, bs) = f0[Len(bs)]
  BY DEF Write
<1> HIDE DEF bs
<1>4. ASSUME NEW i \in 0 .. Len(a) - 1 PROVE Turn(bs, At(i)) = At(i + 1)
  <2>1. ~Stopped(h[i]) /\ h[i + 1] = Step(h[i], a[i + 1])
    BY <1>1 DEF Path
  <2>2. i + 1 \in 1 .. Len(a) + Len(b) /\ i + 1 <= Len(a) /\ i # Len(bs)
    BY <1>2
  <2>3. bs[i + 1] = a[i + 1]
    BY <1>2, <2>2
  <2>4. At(i).n = i /\ At(i).ps = h[i]
    OBVIOUS
  <2>5. Turn(bs, At(i)) = [n |-> i + 1, ps |-> Step(h[i], bs[i + 1])]
    <3> HIDE DEF At
    <3> QED  BY <2>1, <2>2, <2>4 DEF Turn, Step, Stopped
  <2> QED  BY <2>1, <2>3, <2>5
<1>5. Turn(bs, At(Len(a))) = At(Len(a))
  <2>1. b = <<>> => Len(a) = Len(bs)
    BY <1>2
  <2>2. At(Len(a)).n = Len(a) /\ At(Len(a)).ps = y
    BY <1>1
  <2> HIDE DEF At
  <2> QED  BY <2>1, <2>2 DEF Turn, Stopped
<1> HIDE DEF At
<1>6. g[0] = At(0) /\ At(0) = [n |-> 0, ps |-> x]
  BY <1>1, <1>2 DEF At
<1>7. ASSUME NEW k \in Nat, k # 0 PROVE g[k] = Turn(bs, g[k - 1])
  <2>1. k - 1 \in Nat /\ k = (k - 1) + 1
    BY <1>7
  <2>2. CASE k <= Len(a)
    <3>1. g[k] = At(k) /\ g[k - 1] = At(k - 1) /\ k - 1 \in 0 .. Len(a) - 1
      BY <1>2, <2>1, <2>2
    <3>2. Turn(bs, At(k - 1)) = At((k - 1) + 1)
      BY <1>4, <3>1
    <3> QED  BY <2>1, <3>1, <3>2
  <2>3. CASE ~(k <= Len(a))
    <3>1. g[k] = At(Len(a)) /\ g[k - 1] = At(Len(a))
      BY <1>2, <2>1, <2>3
    <3> QED  BY <1>5, <3>1
  <2> QED  BY <2>2, <2>3
<1>8. P(g)
  <2>1. g = [k \in Nat |-> g[k]]
    OBVIOUS
  <2> HIDE DEF g
  <2> QED  BY <1>6, <1>7, <2>1
<1>9. P(f0)
  <2> HIDE DEF P, g
  <2> QED  BY <1>8
<1> HIDE DEF f0
<1>10. f0[0] = At(0)
  BY <1>6, <1>9
<1>11. ASSUME NEW k \in Nat PROVE f0[k + 1] = Turn(bs, f0[k])
  <2>1. k + 1 \in Nat /\ k + 1 # 0 /\ (k + 1) - 1 = k
    OBVIOUS
  <2>2. f0[k + 1] = Turn(bs, f0[(k + 1) - 1])
    BY <1>9, <2>1
  <2> QED  BY <2>1, <2>2
<1> HIDE DEF P
<1>12. ASSUME NEW k \in Nat PROVE g[k + 1] = Turn(bs, g[k])
  <2>1. k + 1 \in Nat /\ k + 1 # 0 /\ (k + 1) - 1 = k
    OBVIOUS
  <2> HIDE DEF g
  <2>2. g[k + 1] = Turn(bs, g[(k + 1) - 1])
    BY <1>7, <2>1
  <2> QED  BY <2>1, <2>2
<1> DEFINE T == {k \in Nat : f0[k] = g[k]}
<1>13. 0 \in T
  BY <1>6, <1>10
<1>14. g[Len(bs)] = At(Len(a))
  BY <1>2
<1> HIDE DEF g
<1>15. ASSUME NEW k \in Nat, k \in T PROVE k + 1 \in T
  BY <1>11, <1>12, <1>15
<1>16. Nat \subseteq T
  <2> HIDE DEF T
  <2> QED  BY <1>13, <1>15, SetInduction
<1>17. f0[Len(bs)] = g[Len(bs)]
  BY <1>2, <1>16
<1>18. Write(x, bs) = At(Len(a))
  BY <1>3, <1>14, <1>17
<1> QED  BY <1>1, <1>18 DEF bs, At

-----------------------------------------------------------------------------
(* Parsers and commands as terms.                                          *)

Cmd(t, s, b, i, k) == [type |-> t, status |-> s, bytes |-> b, int |-> i, commands |-> k]
Rec(st, cm, bf, al, pn) == [stack |-> st, cmds |-> cm, buffer |-> bf, argLen |-> al, panic |-> pn]
No == FALSE
Psr(st, cm, bf, al) == Rec(st, cm, bf, al, No)
Put(cm, c, x) == [cm EXCEPT ![c] = x]

\* The fields of a command,
LEMMA CmdFields ==
  \A t, s, b, i, k : LET x == Cmd(t, s, b, i, k) IN
    x.type = t /\ x.status = s /\ x.bytes = b /\ x.int = i /\ x.commands = k
  BY DEF Cmd

\* of a parser,
LEMMA RecFields ==
  \A st, cm, bf, al, pn : LET x == Rec(st, cm, bf, al, pn) IN
    x.stack = st /\ x.cmds = cm /\ x.buffer = bf /\ x.argLen = al /\ x.panic = pn
  BY DEF Rec

\* and of a parser that has not panicked.
LEMMA PsrFields ==
  \A st, cm, bf, al : LET x == Psr(st, cm, bf, al) IN
    x.stack = st /\ x.cmds = cm /\ x.buffer = bf /\ x.argLen = al /\ ~x.panic
<1>1. ~No
  BY DEF No
<1> QED  BY <1>1, RecFields DEF Psr

\* A command that is put in its place, and twice.
LEMMA Puts ==
  ASSUME NEW cm, NEW c \in DOMAIN cm, NEW x, NEW y, cm = [j \in DOMAIN cm |-> cm[j]]
  PROVE  /\ DOMAIN Put(cm, c, x) = DOMAIN cm /\ Put(cm, c, x)[c] = x
         /\ \A j \in DOMAIN cm : j # c => Put(cm, c, x)[j] = cm[j]
         /\ Put(Put(cm, c, x), c, y) = Put(cm, c, y)
         /\ Put(cm, c, cm[c]) = cm
         /\ Put(cm, c, x) = [j \in DOMAIN cm |-> Put(cm, c, x)[j]]
  BY DEF Put

\* The setters on a parser that is written out,
LEMMA SetField ==
  ASSUME NEW st, NEW cm, NEW bf, NEW al, NEW pn, NEW x
  PROVE  /\ SetBuffer(Rec(st, cm, bf, al, pn), x) = Rec(st, cm, x, al, pn)
         /\ SetStack(Rec(st, cm, bf, al, pn), x) = Rec(x, cm, bf, al, pn)
         /\ SetCmds(Rec(st, cm, bf, al, pn), x) = Rec(st, x, bf, al, pn)
         /\ SetArgLen(Rec(st, cm, bf, al, pn), x) = Rec(st, cm, bf, x, pn)
  BY DEF SetBuffer, SetStack, SetCmds, SetArgLen, Rec

\* on one that has not panicked,
LEMMA SetPsr ==
  ASSUME NEW st, NEW cm, NEW bf, NEW al, NEW x
  PROVE  /\ SetBuffer(Psr(st, cm, bf, al), x) = Psr(st, cm, x, al)
         /\ SetStack(Psr(st, cm, bf, al), x) = Psr(x, cm, bf, al)
         /\ SetCmds(Psr(st, cm, bf, al), x) = Psr(st, x, bf, al)
         /\ SetArgLen(Psr(st, cm, bf, al), x) = Psr(st, cm, bf, x)
  BY SetField DEF Psr

\* and those that change one of its commands.
LEMMA SetCmd ==
  ASSUME NEW st, NEW cm, NEW bf, NEW al, NEW pn, NEW c \in DOMAIN cm,
         NEW t, NEW s, NEW b, NEW i, NEW k, cm[c] = Cmd(t, s, b, i, k), NEW x
  PROVE  /\ SetType(Rec(st, cm, bf, al, pn), c, x) =
              Rec(st, Put(cm, c, Cmd(x, s, b, i, k)), bf, al, pn)
         /\ SetStatus(Rec(st, cm, bf, al, pn), c, x) =
              Rec(st, Put(cm, c, Cmd(t, x, b, i, k)), bf, al, pn)
         /\ setBytes(Rec(st, cm, bf, al, pn), c, x) =
              Rec(st, Put(cm, c, Cmd(t, s, x, i, k)), bf, al, pn)
         /\ setCommands(Rec(st, cm, bf, al, pn), c, x) =
              Rec(st, Put(cm, c, Cmd(t, s, b, i, x)), bf, al, pn)
<1>1. [cm[c] EXCEPT !.type = x] = Cmd(x, s, b, i, k)
  BY DEF Cmd
<1>2. [cm[c] EXCEPT !.status = x] = Cmd(t, x, b, i, k)
  BY DEF Cmd
<1>3. [cm[c] EXCEPT !.bytes = x] = Cmd(t, s, x, i, k)
  BY DEF Cmd
<1>4. [cm[c] EXCEPT !.commands = x] = Cmd(t, s, b, i, x)
  BY DEF Cmd
<1>5. SetType(Rec(st, cm, bf, al, pn), c, x) =
        Rec(st, [cm EXCEPT ![c] = [cm[c] EXCEPT !.type = x]], bf, al, pn)
  BY DEF SetType, Rec
<1>6. SetStatus(Rec(st, cm, bf, al, pn), c, x) =
        Rec(st, [cm EXCEPT ![c] = [cm[c] EXCEPT !.status = x]], bf, al, pn)
  BY DEF SetStatus, Rec
<1>7. setBytes(Rec(st, cm, bf, al, pn), c, x) =
        Rec(st, [cm EXCEPT ![c] = [cm[c] EXCEPT !.bytes = x]], bf, al, pn)
  BY DEF setBytes, Rec
<1>8. setCommands(Rec(st, cm, bf, al, pn), c, x) =
        Rec(st, [cm EXCEPT ![c] = [cm[c] EXCEPT !.commands = x]], bf, al, pn)
  BY DEF setCommands, Rec
<1> QED  BY <1>1, <1>2, <1>3, <1>4, <1>5, <1>6, <1>7, <1>8 DEF Put

AnyByte == Byte \cup ToSet(Digit) \cup {CR, LF, "$", "*", "+", "-", "x", "O", "K", "P", "N", "G"}

\* The bytes that the parser tells apart are different ones.
LEMMA StringsApart ==
  /\ CR # LF /\ CR # "-" /\ CR # "1" /\ LF # "-"
  /\ \A v \in 0 .. 9 : Digit[v + 1] # CR /\ Digit[v + 1] \notin {"-", "+"} /\ Digit[v + 1] \in AnyByte
  /\ \A v, w \in 0 .. 9 : Digit[v + 1] = Digit[w + 1] => v = w
<1>1. \A v \in 0 .. 9 : v = 0 \/ v = 1 \/ v = 2 \/ v = 3 \/ v = 4 \/ v = 5 \/ v = 6 \/ v = 7
                        \/ v = 8 \/ v = 9
  OBVIOUS
<1>2. Digit[1] = "0" /\ Digit[2] = "1" /\ Digit[3] = "2" /\ Digit[4] = "3" /\ Digit[5] = "4"
      /\ Digit[6] = "5" /\ Digit[7] = "6" /\ Digit[8] = "7" /\ Digit[9] = "8" /\ Digit[10] = "9"
  BY DEF Digit
<1>3. ASSUME NEW v \in 0 .. 9, NEW w \in 0 .. 9, Digit[v + 1] = Digit[w + 1] PROVE v = w
  BY <1>1, <1>2, <1>3
<1>4. ASSUME NEW v \in 0 .. 9 PROVE Digit[v + 1] # CR /\ Digit[v + 1] \notin {"-", "+"}
  BY <1>1, <1>2 DEF CR
<1>5. ASSUME NEW v \in 0 .. 9 PROVE Digit[v + 1] \in AnyByte
  <2>1. v + 1 \in DOMAIN Digit
    BY DEF Digit
  <2> QED  BY <2>1 DEF AnyByte, ToSet
<1> QED  BY <1>3, <1>4, <1>5 DEF CR, LF

-----------------------------------------------------------------------------
(* Numbers.                                                                *)

\* DigitValue is the inverse of Digit.
LEMMA DigitValues ==
  ASSUME NEW v \in 0 .. 9
  PROVE  DigitValue(Digit[v + 1]) = v
<1>1. DigitValue(Digit[v + 1]) \in 0 .. 9 /\ Digit[v + 1] = Digit[DigitValue(Digit[v + 1]) + 1]
  BY DEF DigitValue
<1> QED  BY <1>1, StringsApart

\* One or two digits.
LEMMA Naturals12 ==
  ASSUME NEW v \in 0 .. 9, NEW w \in 0 .. 9, NEW n \in 1 .. 2, NEW s,
         s = [k \in 1 .. n |-> IF k = 1 THEN Digit[v + 1] ELSE Digit[w + 1]], Len(s) = n
  PROVE  Natural(s) = IF n = 1 THEN v ELSE 10 * v + w
<1> DEFINE P(f) == f = [k \in 0 .. Len(s) |-> IF k = 0 THEN 0
                                               ELSE 10 * f[k - 1] + DigitValue(s[k])]
           f0 == CHOOSE f : P(f)
           g == [k \in 0 .. n |-> IF k = 0 THEN 0 ELSE IF k = 1 THEN v ELSE 10 * v + w]
<1>1. DigitValue(s[1]) = v /\ (n = 2 => DigitValue(s[2]) = w)
  BY DigitValues
<1>2. Natural(s) = f0[Len(s)]
  BY DEF Natural
<1>3. P(g)
  <2> SUFFICES ASSUME NEW k \in 0 .. n
               PROVE  g[k] = IF k = 0 THEN 0 ELSE 10 * g[k - 1] + DigitValue(s[k])
    OBVIOUS
  <2>1. k = 0 \/ k = 1 \/ (k = 2 /\ n = 2)
    OBVIOUS
  <2> QED  BY <1>1, <2>1
<1>4. P(f0)
  <2> HIDE DEF P
  <2> QED  BY <1>3
<1> HIDE DEF f0
<1>5. \A k \in 0 .. n : f0[k] = IF k = 0 THEN 0 ELSE 10 * f0[k - 1] + DigitValue(s[k])
  BY <1>4
<1> HIDE DEF P
<1>6. f0[0] = 0
  <2>1. 0 \in 0 .. n
    OBVIOUS
  <2>2. f0[0] = IF 0 = 0 THEN 0 ELSE 10 * f0[0 - 1] + DigitValue(s[0])
    BY <1>5, <2>1, Zenon
  <2> QED  BY <2>2
<1>7. f0[1] = v
  <2>1. 1 \in 0 .. n /\ 1 # 0 /\ 1 - 1 = 0
    OBVIOUS
  <2>2. f0[1] = 10 * f0[0] + DigitValue(s[1])
    BY <1>5, <2>1
  <2> QED  BY <1>1, <1>6, <2>2
<1>8. n = 2 => f0[2] = 10 * v + w
  <2> SUFFICES ASSUME n = 2 PROVE f0[2] = 10 * v + w
    OBVIOUS
  <2>1. 2 \in 0 .. n /\ 2 # 0 /\ 2 - 1 = 1
    OBVIOUS
  <2>2. f0[2] = 10 * f0[1] + DigitValue(s[2])
    BY <1>5, <2>1
  <2> QED  BY <1>1, <1>7, <2>2
<1>9. n = 1 \/ n = 2
  OBVIOUS
<1> QED  BY <1>2, <1>7, <1>8, <1>9

\* What %d writes, Atoi reads.
LEMMA Decimals ==
  ASSUME NEW n \in 0 .. 99
  PROVE  /\ Decimal(n) \in Seq(AnyByte) /\ Len(Decimal(n)) \in 1 .. 2
         /\ \A k \in 1 .. Len(Decimal(n)) : Decimal(n)[k] # CR
         /\ IsNumber(Decimal(n)) /\ Atoi(Decimal(n)) = n
<1> DEFINE s == Decimal(n)
           v == IF n < 10 THEN n ELSE n \div 10
           w == IF n < 10 THEN 0 ELSE n % 10
           m == IF n < 10 THEN 1 ELSE 2
<1>1. v \in 0 .. 9 /\ w \in 0 .. 9 /\ m \in 1 .. 2 /\ n = IF m = 1 THEN v ELSE 10 * v + w
  OBVIOUS
<1>2. /\ s = [k \in 1 .. m |-> IF k = 1 THEN Digit[v + 1] ELSE Digit[w + 1]] /\ Len(s) = m
      /\ s # <<>>
  <2>1. CASE n < 10
    BY <2>1 DEF Decimal
  <2>2. CASE ~(n < 10)
    BY <2>2 DEF Decimal
  <2> QED  BY <2>1, <2>2
<1>3. Digit[v + 1] \in AnyByte /\ Digit[w + 1] \in AnyByte /\ Digit[v + 1] # CR /\ Digit[w + 1] # CR
      /\ Digit[v + 1] \notin {"-", "+"}
  BY <1>1, StringsApart
<1> HIDE DEF s, v, w, m
<1>4. s \in Seq(AnyByte) /\ \A k \in 1 .. Len(s) : s[k] # CR
  <2>1. s \in [1 .. m -> AnyByte]
    BY <1>2, <1>3
  <2> QED  BY <1>1, <1>2, <1>3, <2>1
<1>5. Head(s) # "-" /\ Unsigned(s) = s
  BY <1>1, <1>2, <1>3, <1>4 DEF Unsigned
<1>6. IsNumber(s)
  BY <1>1, <1>2, <1>5 DEF IsNumber, IsDigits
<1>7. Atoi(s) = n
  <2>1. Atoi(s) = Natural(s)
    BY <1>5 DEF Atoi
  <2> QED  BY <1>1, <1>2, <2>1, Naturals12
<1> QED  BY <1>1, <1>2, <1>4, <1>6, <1>7 DEF s

\* The length of a nil slice is written as a number, and read as one below zero.
LEMMA MinusOne ==
  LET s == <<"-", "1">> IN
  /\ s \in Seq(AnyByte) /\ Len(s) = 2 /\ \A k \in 1 .. Len(s) : s[k] # CR
  /\ IsNumber(s) /\ Atoi(s) = -1
<1> DEFINE s == <<"-", "1">>
<1>1. "1" = Digit[1 + 1]
  BY DEF Digit
<1>2. Tail(s) = <<"1">> /\ Head(s) = "-" /\ Unsigned(s) = Tail(s) /\ s # <<>> /\ Len(<<"1">>) = 1 /\ <<"1">>[1] = "1"
      /\ <<"1">> # <<>>
  BY DEF Unsigned
<1>3. Natural(<<"1">>) = 1
  <2>1. <<"1">> = [k \in 1 .. 1 |-> IF k = 1 THEN Digit[1 + 1] ELSE Digit[0 + 1]]
    BY <1>1
  <2> QED  BY <1>2, <2>1, Naturals12
<1>4. Atoi(s) = -1
  BY <1>2, <1>3 DEF Atoi
<1>5. IsDigits(<<"1">>)
  BY <1>1, <1>2 DEF IsDigits
<1>6. IsNumber(s)
  BY <1>2, <1>5 DEF IsNumber
<1>7. "1" \in AnyByte /\ "-" \in AnyByte /\ "1" # CR /\ "-" # CR
  BY <1>1, StringsApart DEF AnyByte
<1>8. s \in Seq(AnyByte) /\ Len(s) = 2 /\ \A k \in 1 .. Len(s) : s[k] # CR
  BY <1>7
<1> QED  BY <1>4, <1>6, <1>8

-----------------------------------------------------------------------------
(* One byte.                                                               *)

\* command c is the one the parser is at
Context(st, cm, c) ==
  st # <<>> /\ st[Len(st)] = c /\ c \in DOMAIN cm /\ cm = [j \in DOMAIN cm |-> cm[j]]

Fresh == Cmd("unknown", "start", NoBytes, 0, <<>>)
InLine(t) == Cmd(t, "until_CRLF", NoBytes, 0, <<>>)
InBulk == Cmd("bulk", "fixed_len", NoBytes, 0, <<>>)

\* a buffer with one more byte, and with the end of the line
Grown(bf, b) == Append(bf, b)
WithCrlf(text) == text \o <<CR, LF>>

\* The parser that is at command c, and what the setters make of it.
LEMMA AtCommand ==
  ASSUME NEW st, NEW cm, NEW c, Context(st, cm, c), NEW t, NEW s, NEW b, NEW i, NEW k,
         NEW bf, NEW al, NEW ps, ps = Psr(st, Put(cm, c, Cmd(t, s, b, i, k)), bf, al)
  PROVE  /\ Top(ps) = c /\ ps.cmds[c].status = s /\ ps.cmds[c].type = t /\ ~Stopped(ps)
         /\ ps.buffer = bf /\ ps.argLen = al
         /\ \A x : SetType(ps, c, x) = Psr(st, Put(cm, c, Cmd(x, s, b, i, k)), bf, al)
         /\ \A x : SetStatus(ps, c, x) = Psr(st, Put(cm, c, Cmd(t, x, b, i, k)), bf, al)
         /\ \A x : setBytes(ps, c, x) = Psr(st, Put(cm, c, Cmd(t, s, x, i, k)), bf, al)
         /\ \A x : setCommands(ps, c, x) = Psr(st, Put(cm, c, Cmd(t, s, b, i, x)), bf, al)
         /\ \A x : SetBuffer(ps, x) = Psr(st, Put(cm, c, Cmd(t, s, b, i, k)), x, al)
<1> DEFINE m == Put(cm, c, Cmd(t, s, b, i, k))
<1>1. c \in DOMAIN m /\ m[c] = Cmd(t, s, b, i, k) /\ \A y : Put(m, c, y) = Put(cm, c, y)
  BY Puts DEF Context
<1>2. /\ ps.stack = st /\ ps.cmds = m /\ ps.buffer = bf /\ ps.argLen = al /\ ~ps.panic
      /\ \A x : SetBuffer(ps, x) = Psr(st, m, x, al)
  BY PsrFields, SetPsr
<1> HIDE DEF m
<1>3. Top(ps) = c /\ ~Stopped(ps)
  BY <1>2 DEF Top, Context, Stopped
<1>4. ps.cmds[c].status = s /\ ps.cmds[c].type = t
  BY <1>1, <1>2, CmdFields
<1>5. /\ \A x : SetType(ps, c, x) = Psr(st, Put(m, c, Cmd(x, s, b, i, k)), bf, al)
      /\ \A x : SetStatus(ps, c, x) = Psr(st, Put(m, c, Cmd(t, x, b, i, k)), bf, al)
      /\ \A x : setBytes(ps, c, x) = Psr(st, Put(m, c, Cmd(t, s, x, i, k)), bf, al)
      /\ \A x : setCommands(ps, c, x) = Psr(st, Put(m, c, Cmd(t, s, b, i, x)), bf, al)
  BY <1>1, SetCmd DEF m, Psr
<1> QED  BY <1>1, <1>2, <1>3, <1>4, <1>5 DEF m

\* The byte goes to the function for the status of the command, and Write looks at
\* the status afterwards.
LEMMA Dispatch ==
  ASSUME NEW ps, NEW x
  PROVE  LET c == Top(ps) IN
         /\ ps.cmds[c].status = "start" => ParseByte(ps, x) = parseStart(ps, x, c)
         /\ ps.cmds[c].status = "until_CRLF" => ParseByte(ps, x) = parseUnitlCrlf(ps, x, c)
         /\ ps.cmds[c].status = "fixed_len" => ParseByte(ps, x) = parseFixedLen(ps, x, c)
         /\ ps.cmds[c].status = "mulit" => ParseByte(ps, x) = ps
         /\ ParseByte(ps, x).cmds[c].status # "error" => Step(ps, x) = ParseByte(ps, x)
<1> DEFINE c == Top(ps)
           s == ps.cmds[c].status
<1>1. ParseByte(ps, x) = CASE s = "start" -> parseStart(ps, x, c)
        [] s = "until_CRLF" -> parseUnitlCrlf(ps, x, c)
        [] s = "fixed_len" -> parseFixedLen(ps, x, c)
        [] OTHER -> ps
  BY DEF ParseByte
<1>2. ParseByte(ps, x).cmds[c].status # "error" => Step(ps, x) = ParseByte(ps, x)
  BY DEF Step
<1> HIDE DEF s, c
<1>3. CASE s = "start"
  BY <1>1, <1>2, <1>3 DEF s, c
<1>4. CASE s = "until_CRLF"
  BY <1>1, <1>2, <1>4 DEF s, c
<1>5. CASE s = "fixed_len"
  BY <1>1, <1>2, <1>5 DEF s, c
<1>6. CASE s \notin {"start", "until_CRLF", "fixed_len"}
  BY <1>1, <1>2, <1>6 DEF s, c
<1> QED  BY <1>3, <1>4, <1>5, <1>6

\* The first byte gives the type.
LEMMA StartByte ==
  ASSUME NEW st, NEW cm, NEW c, Context(st, cm, c), NEW bf, NEW al, NEW b
  PROVE  /\ ~Stopped(Psr(st, Put(cm, c, Fresh), bf, al))
         /\ Step(Psr(st, Put(cm, c, Fresh), bf, al), b) =
              Psr(st, Put(cm, c, InLine(TypeOf(b))), <<>>, al)
<1> DEFINE ps == Psr(st, Put(cm, c, Fresh), bf, al)
           t == TypeOf(b)
           ps1 == SetType(ps, c, t)
           ps2 == SetStatus(ps1, c, "until_CRLF")
           ps3 == SetBuffer(ps2, <<>>)
<1> HIDE DEF t
<1>1. ps = Psr(st, Put(cm, c, Cmd("unknown", "start", NoBytes, 0, <<>>)), bf, al)
  BY DEF Fresh
<1>2. Top(ps) = c /\ ps.cmds[c].status = "start" /\ ~Stopped(ps)
      /\ ps1 = Psr(st, Put(cm, c, Cmd(t, "start", NoBytes, 0, <<>>)), bf, al)
  <2> HIDE DEF ps
  <2> QED  BY <1>1, AtCommand
<1>3. ps2 = Psr(st, Put(cm, c, Cmd(t, "until_CRLF", NoBytes, 0, <<>>)), bf, al)
  <2> HIDE DEF ps1
  <2> QED  BY <1>2, AtCommand
<1>4. ps3 = Psr(st, Put(cm, c, Cmd(t, "until_CRLF", NoBytes, 0, <<>>)), <<>>, al)
  <2> HIDE DEF ps2
  <2> QED  BY <1>3, AtCommand
<1>5. ps3.cmds[c].status = "until_CRLF"
  <2> HIDE DEF ps3
  <2> QED  BY <1>4, AtCommand
<1>6. ParseByte(ps, b) = parseStart(ps, b, c)
  <2> HIDE DEF ps
  <2> QED  BY <1>2, Dispatch
<1>7. parseStart(ps, b, c) = ps3
  BY DEF parseStart, t
<1> HIDE DEF ps, ps3
<1>8. Step(ps, b) = ps3
  BY <1>2, <1>5, <1>6, <1>7, Dispatch
<1> QED  BY <1>2, <1>4, <1>8 DEF ps, InLine, t

\* A byte of a line.
LEMMA LineByte ==
  ASSUME NEW st, NEW cm, NEW c, Context(st, cm, c), NEW t, NEW bf, NEW al, NEW b,
         NEW x, x = Grown(bf, b)
  PROVE  LET ps == Psr(st, Put(cm, c, InLine(t)), bf, al)
             ps1 == Psr(st, Put(cm, c, InLine(t)), x, al)
             ps2 == SetBuffer(EndLine(ps1, c), <<>>)
         IN  /\ ~Stopped(ps)
             /\ ~endByCtrf(x) => Step(ps, b) = ps1
             /\ endByCtrf(x) /\ ps2.cmds[c].status # "error" => Step(ps, b) = ps2
<1> DEFINE ps == Psr(st, Put(cm, c, InLine(t)), bf, al)
           ps1 == Psr(st, Put(cm, c, InLine(t)), x, al)
           ps2 == SetBuffer(EndLine(ps1, c), <<>>)
<1>1. /\ ps = Psr(st, Put(cm, c, Cmd(t, "until_CRLF", NoBytes, 0, <<>>)), bf, al)
      /\ ps1 = Psr(st, Put(cm, c, Cmd(t, "until_CRLF", NoBytes, 0, <<>>)), x, al)
  BY DEF InLine
<1> HIDE DEF ps, ps1
<1>2. Top(ps) = c /\ ps.cmds[c].status = "until_CRLF" /\ ~Stopped(ps) /\ ps.buffer = bf
      /\ SetBuffer(ps, x) = ps1
  BY <1>1, AtCommand
<1>3. ps1.buffer = x /\ ps1.cmds[c].status = "until_CRLF"
  BY <1>1, AtCommand
<1>4. ParseByte(ps, b) = parseUnitlCrlf(ps, b, c)
  BY <1>2, Dispatch
<1>5. parseUnitlCrlf(ps, b, c) = IF endByCtrf(x) THEN ps2 ELSE ps1
  BY <1>2, <1>3 DEF parseUnitlCrlf, Grown
<1> HIDE DEF ps2
<1>6. ASSUME ~endByCtrf(x) PROVE Step(ps, b) = ps1
  BY <1>2, <1>3, <1>4, <1>5, <1>6, Dispatch
<1>7. ASSUME endByCtrf(x), ps2.cmds[c].status # "error" PROVE Step(ps, b) = ps2
  BY <1>2, <1>4, <1>5, <1>7, Dispatch
<1> QED  BY <1>2, <1>6, <1>7 DEF ps, ps1, ps2

\* A byte of a bulk.
LEMMA BulkByte ==
  ASSUME NEW st, NEW cm, NEW c, Context(st, cm, c), NEW bf, NEW al, NEW b,
         NEW x, x = Grown(bf, b)
  PROVE  LET ps == Psr(st, Put(cm, c, InBulk), bf, al)
             ps1 == Psr(st, Put(cm, c, InBulk), x, al)
             ps2 == popStacks(Psr(st, Put(cm, c, Cmd("bulk", "end", Text(x), 0, <<>>)),
                                  x, al))
         IN  /\ ~Stopped(ps)
             /\ Len(x) # al + 2 => Step(ps, b) = ps1
             /\ /\ Len(x) = al + 2 /\ endByCtrf(x)
                /\ ps2.cmds[c].status # "error"
                => Step(ps, b) = ps2
<1> DEFINE ps == Psr(st, Put(cm, c, InBulk), bf, al)
           ps1 == Psr(st, Put(cm, c, InBulk), x, al)
           ps2 == setBytes(ps1, c, Text(x))
           ps3 == SetStatus(ps2, c, "end")
           ps4 == popStacks(ps3)
<1>1. /\ ps = Psr(st, Put(cm, c, Cmd("bulk", "fixed_len", NoBytes, 0, <<>>)), bf, al)
      /\ ps1 = Psr(st, Put(cm, c, Cmd("bulk", "fixed_len", NoBytes, 0, <<>>)), x, al)
  BY DEF InBulk
<1> HIDE DEF ps, ps1
<1>2. Top(ps) = c /\ ps.cmds[c].status = "fixed_len" /\ ~Stopped(ps) /\ ps.buffer = bf
      /\ ps.argLen = al /\ SetBuffer(ps, x) = ps1
  BY <1>1, AtCommand
<1>3. ps1.buffer = x /\ ps1.cmds[c].status = "fixed_len"
      /\ ps2 = Psr(st, Put(cm, c, Cmd("bulk", "fixed_len", Text(x), 0, <<>>)), x, al)
  BY <1>1, AtCommand
<1>4. ps3 = Psr(st, Put(cm, c, Cmd("bulk", "end", Text(x), 0, <<>>)), x, al)
  <2> HIDE DEF ps2
  <2> QED  BY <1>3, AtCommand
<1>5. ParseByte(ps, b) = parseFixedLen(ps, b, c)
  BY <1>2, Dispatch
<1>6. /\ Len(x) # al + 2 => parseFixedLen(ps, b, c) = ps1
      /\ Len(x) = al + 2 /\ endByCtrf(x) => parseFixedLen(ps, b, c) = ps4
  BY <1>2, <1>3 DEF parseFixedLen, Finish, Grown
<1> HIDE DEF ps4
<1>7. ASSUME Len(x) # al + 2 PROVE Step(ps, b) = ps1
  BY <1>2, <1>3, <1>5, <1>6, <1>7, Dispatch
<1>8. ASSUME Len(x) = al + 2, endByCtrf(x), ps4.cmds[c].status # "error" PROVE Step(ps, b) = ps4
  BY <1>2, <1>5, <1>6, <1>8, Dispatch
<1>9. ps4 = popStacks(Psr(st, Put(cm, c, Cmd("bulk", "end", Text(x), 0, <<>>)), x, al))
  BY <1>4 DEF ps4
<1> QED  BY <1>2, <1>7, <1>8, <1>9 DEF ps, ps1

-----------------------------------------------------------------------------
(* Sequences.                                                              *)

\* A part of a sequence, one element more of it, its text and its end.
LEMMA Slices ==
  ASSUME NEW S, NEW e \in Seq(S), NEW a \in 1 .. Len(e) + 1, NEW q \in a - 1 .. Len(e)
  PROVE  /\ SubSeq(e, a, q) \in Seq(S) /\ Len(SubSeq(e, a, q)) = q - a + 1
         /\ \A k \in 1 .. q - a + 1 : SubSeq(e, a, q)[k] = e[a + k - 1]
         /\ q < Len(e) => Append(SubSeq(e, a, q), e[q + 1]) = SubSeq(e, a, q + 1)
         /\ q - a >= 1 => Text(SubSeq(e, a, q)) = SubSeq(e, a, q - 2)
         /\ endByCtrf(SubSeq(e, a, q)) <=> q - a >= 1 /\ e[q - 1] = CR /\ e[q] = LF
<1>1. Len(e) \in Nat /\ a \in Nat /\ q \in Nat
  OBVIOUS
<1>2. ASSUME NEW b \in a - 1 .. Len(e)
      PROVE  /\ SubSeq(e, a, b) \in Seq(S) /\ Len(SubSeq(e, a, b)) = b - a + 1
             /\ \A k \in 1 .. b - a + 1 : SubSeq(e, a, b)[k] = e[a + k - 1]
  BY <1>1, SubSeqProperties
<1>3. ASSUME q < Len(e) PROVE Append(SubSeq(e, a, q), e[q + 1]) = SubSeq(e, a, q + 1)
  <2>1. q + 1 \in a - 1 .. Len(e) /\ e[q + 1] \in S
    BY <1>1, <1>3
  <2> DEFINE x == Append(SubSeq(e, a, q), e[q + 1])
             y == SubSeq(e, a, q + 1)
  <2>2. x \in Seq(S) /\ Len(x) = q - a + 2 /\ x[q - a + 2] = e[q + 1]
        /\ \A k \in 1 .. q - a + 1 : x[k] = e[a + k - 1]
    BY <1>1, <1>2, <2>1, AppendElements
  <2>3. y \in Seq(S) /\ Len(y) = q - a + 2 /\ \A k \in 1 .. q - a + 2 : y[k] = e[a + k - 1]
    BY <1>1, <1>2, <2>1
  <2> HIDE DEF x, y
  <2>4. ASSUME NEW k \in 1 .. Len(x) PROVE x[k] = y[k]
    <3>1. CASE k = q - a + 2
      <4>1. a + k - 1 = q + 1
        BY <1>1, <3>1
      <4> QED  BY <2>2, <2>3, <3>1, <4>1
    <3>2. CASE k # q - a + 2
      <4>1. k \in 1 .. q - a + 1
        BY <1>1, <2>2, <3>2
      <4> QED  BY <2>2, <2>3, <4>1
    <3> QED  BY <3>1, <3>2
  <2>5. x = y
    BY <2>2, <2>3, <2>4, SeqEqual
  <2> QED  BY <2>5 DEF x, y
<1>4. ASSUME q - a >= 1 PROVE Text(SubSeq(e, a, q)) = SubSeq(e, a, q - 2)
  <2> DEFINE z == SubSeq(e, a, q)
             x == SubSeq(z, 1, q - a - 1)
             y == SubSeq(e, a, q - 2)
  <2>1. z \in Seq(S) /\ Len(z) = q - a + 1 /\ \A k \in 1 .. q - a + 1 : z[k] = e[a + k - 1]
    BY <1>2
  <2>2. Text(z) = x
    BY <1>1, <1>4, <2>1 DEF Text
  <2> HIDE DEF z
  <2>3. x \in Seq(S) /\ Len(x) = q - a - 1 /\ \A k \in 1 .. q - a - 1 : x[k] = z[k]
    BY <1>1, <1>4, <2>1, SubSeqProperties
  <2>4. y \in Seq(S) /\ Len(y) = q - a - 1 /\ \A k \in 1 .. q - a - 1 : y[k] = e[a + k - 1]
    BY <1>1, <1>2, <1>4
  <2> HIDE DEF x, y
  <2>5. \A k \in 1 .. Len(x) : x[k] = y[k]
    BY <1>1, <2>1, <2>3, <2>4
  <2>6. x = y
    BY <2>3, <2>4, <2>5, SeqEqual
  <2> QED  BY <2>2, <2>6 DEF y, z
<1>5. endByCtrf(SubSeq(e, a, q)) <=> q - a >= 1 /\ e[q - 1] = CR /\ e[q] = LF
  <2> DEFINE z == SubSeq(e, a, q)
  <2>1. z \in Seq(S) /\ Len(z) = q - a + 1 /\ \A k \in 1 .. q - a + 1 : z[k] = e[a + k - 1]
    BY <1>2
  <2> HIDE DEF z
  <2>2. ASSUME q - a >= 1 PROVE z[Len(z) - 1] = e[q - 1] /\ z[Len(z)] = e[q]
    BY <1>1, <2>1, <2>2
  <2>3. endByCtrf(z) <=> q - a >= 1 /\ e[q - 1] = CR /\ e[q] = LF
    BY <1>1, <2>1, <2>2 DEF endByCtrf
  <2> QED  BY <2>3 DEF z
<1> QED  BY <1>2, <1>3, <1>4, <1>5

\* What is before the end of a line.
LEMMA Crlf ==
  ASSUME NEW text \in Seq(AnyByte), NEW e, e = WithCrlf(text)
  PROVE  /\ e \in Seq(AnyByte) /\ Len(e) = Len(text) + 2 /\ e # <<>>
         /\ \A i \in 1 .. Len(text) : e[i] = text[i]
         /\ e[Len(text) + 1] = CR /\ e[Len(text) + 2] = LF
         /\ Text(e) = text /\ endByCtrf(e)
<1>1. <<CR, LF>> \in Seq(AnyByte) /\ Len(<<CR, LF>>) = 2 /\ <<CR, LF>>[1] = CR /\ <<CR, LF>>[2] = LF
  BY DEF AnyByte
<1>2. Len(text) \in Nat /\ e \in Seq(AnyByte) /\ Len(e) = Len(text) + 2
      /\ \A i \in 1 .. Len(text) + 2 :
           e[i] = IF i <= Len(text) THEN text[i] ELSE <<CR, LF>>[i - Len(text)]
  BY <1>1, ConcatProperties DEF WithCrlf
<1>3. \A i \in 1 .. Len(text) : e[i] = text[i]
  BY <1>2
<1>4. e[Len(text) + 1] = CR
  <2>1. Len(text) + 1 \in 1 .. Len(text) + 2 /\ ~(Len(text) + 1 <= Len(text))
        /\ (Len(text) + 1) - Len(text) = 1
    BY <1>2
  <2> QED  BY <1>1, <1>2, <2>1
<1>5. e[Len(text) + 2] = LF
  <2>1. Len(text) + 2 \in 1 .. Len(text) + 2 /\ ~(Len(text) + 2 <= Len(text))
        /\ (Len(text) + 2) - Len(text) = 2
    BY <1>2
  <2> QED  BY <1>1, <1>2, <2>1
<1>6. Text(e) = text
  <2>1. Text(e) = SubSeq(e, 1, Len(text))
    BY <1>2 DEF Text
  <2>2. /\ SubSeq(e, 1, Len(text)) \in Seq(AnyByte) /\ Len(SubSeq(e, 1, Len(text))) = Len(text)
        /\ \A i \in 1 .. Len(text) : SubSeq(e, 1, Len(text))[i] = e[i]
    <3>1. 1 \in 1 .. Len(e) + 1 /\ Len(text) \in 1 - 1 .. Len(e) /\ Len(text) - 1 + 1 = Len(text)
          /\ \A i \in 1 .. Len(text) : 1 + i - 1 = i
      BY <1>2
    <3> QED  BY <1>2, <3>1, Slices
  <2> QED  BY <1>3, <2>1, <2>2, SeqEqual
<1>7. endByCtrf(e)
  <2>1. Len(e) - 1 = Len(text) + 1 /\ Len(e) >= 2
    BY <1>2
  <2> QED  BY <1>2, <1>4, <1>5, <2>1 DEF endByCtrf
<1>8. e # <<>>
  BY <1>2
<1> QED  BY <1>2, <1>3, <1>4, <1>5, <1>6, <1>7, <1>8

\* The prefixes of a stream.
LEMMA FirstBytes ==
  ASSUME NEW e \in Seq(AnyByte), NEW q \in 0 .. Len(e)
  PROVE  /\ SubSeq(e, 1, 0) = <<>> /\ SubSeq(e, 1, Len(e)) = e /\ Len(SubSeq(e, 1, q)) = q
         /\ q < Len(e) => Grown(SubSeq(e, 1, q), e[q + 1]) = SubSeq(e, 1, q + 1)
         /\ endByCtrf(SubSeq(e, 1, q)) <=> q >= 2 /\ e[q - 1] = CR /\ e[q] = LF
<1>1. Len(e) \in Nat /\ q \in Nat /\ 1 \in 1 .. Len(e) + 1 /\ q \in 1 - 1 .. Len(e) /\ q - 1 + 1 = q
      /\ (q - 1 >= 1 <=> q >= 2)
  OBVIOUS
<1>2. SubSeq(e, 1, 0) = <<>> /\ SubSeq(e, 1, Len(e)) = e
  BY SubSeqEmpty, SubSeqFull
<1> QED  BY <1>1, <1>2, Slices DEF Grown

\* A line is read to its end.
LEMMA ReadsLine ==
  ASSUME NEW st, NEW cm, NEW c, Context(st, cm, c), NEW bf, NEW al, NEW b \in AnyByte,
         NEW text \in Seq(AnyByte), \A i \in 1 .. Len(text) : text[i] # CR,
         NEW t, t = TypeOf(b), NEW y,
         y = SetBuffer(EndLine(Psr(st, Put(cm, c, InLine(t)), WithCrlf(text), al), c), <<>>),
         y.cmds[c].status # "error"
  PROVE  Reads(Psr(st, Put(cm, c, Fresh), bf, al), Line(b, text), y)
<1> DEFINE e == WithCrlf(text)
           n == Len(text)
           A(i) == Psr(st, Put(cm, c, InLine(t)), SubSeq(e, 1, i), al)
           h == [i \in Nat |-> IF i < n + 2 THEN A(i) ELSE y]
           x == Psr(st, Put(cm, c, Fresh), bf, al)
<1>0. e = WithCrlf(text) /\ n = Len(text) /\ n \in Nat
  OBVIOUS
<1> HIDE DEF e, n
<1>1. /\ e \in Seq(AnyByte) /\ Len(e) = n + 2 /\ n \in Nat
      /\ \A i \in 1 .. n : e[i] = text[i]
      /\ e[n + 1] = CR /\ endByCtrf(e)
  BY <1>0, Crlf
<1>2. A(0) = Psr(st, Put(cm, c, InLine(t)), <<>>, al)
  <2>1. 0 \in 0 .. Len(e)
    BY <1>1
  <2> QED  BY <1>1, <2>1, FirstBytes
<1>3. Reads(x, <<b>>, A(0))
  <2>1. ~Stopped(x) /\ Step(x, b) = A(0)
    BY <1>2, StartByte
  <2> HIDE DEF x, A
  <2> QED  BY <2>1, ReadsByte
<1>4. ASSUME NEW i \in 0 .. n PROVE ~Stopped(A(i)) /\ Step(A(i), e[i + 1]) = A(i + 1)
  <2> DEFINE bi == SubSeq(e, 1, i)
             b1 == SubSeq(e, 1, i + 1)
             ei == e[i + 1]
  <2>1. i \in 0 .. Len(e) /\ i < Len(e) /\ i + 1 \in 0 .. Len(e) /\ (i + 1) - 1 = i
    BY <1>1
  <2>2. Grown(bi, ei) = b1
    BY <1>1, <2>1, FirstBytes
  <2>3. ~endByCtrf(b1)
    <3>1. endByCtrf(b1) <=> i + 1 >= 2 /\ e[i] = CR /\ e[i + 1] = LF
      BY <1>1, <2>1, FirstBytes
    <3>2. CASE i = 0
      BY <3>1, <3>2
    <3>3. CASE i # 0
      <4>1. i \in 1 .. n
        BY <1>1, <3>3
      <4> QED  BY <1>1, <3>1, <4>1 DEF n
    <3> QED  BY <3>2, <3>3
  <2> HIDE DEF bi, b1, ei
  <2>4. /\ ~Stopped(Psr(st, Put(cm, c, InLine(t)), bi, al))
        /\ Step(Psr(st, Put(cm, c, InLine(t)), bi, al), ei) = Psr(st, Put(cm, c, InLine(t)), b1, al)
    BY <2>2, <2>3, LineByte
  <2> QED  BY <2>4 DEF bi, b1, ei
<1>5. ~Stopped(A(n + 1)) /\ Step(A(n + 1), e[(n + 1) + 1]) = y
  <2> DEFINE bi == SubSeq(e, 1, n + 1)
             ei == e[(n + 1) + 1]
  <2>1. n + 1 \in 0 .. Len(e) /\ n + 1 < Len(e) /\ (n + 1) + 1 = Len(e)
    BY <1>1
  <2>2. Grown(bi, ei) = e
    BY <1>1, <2>1, FirstBytes
  <2> HIDE DEF bi, ei
  <2>3. y = SetBuffer(EndLine(Psr(st, Put(cm, c, InLine(t)), e, al), c), <<>>)
    BY DEF e
  <2>4. /\ ~Stopped(Psr(st, Put(cm, c, InLine(t)), bi, al))
        /\ Step(Psr(st, Put(cm, c, InLine(t)), bi, al), ei) = y
    BY <1>1, <2>2, <2>3, LineByte
  <2> QED  BY <2>4 DEF bi, ei
<1> HIDE DEF A
<1>6. h[0] = A(0) /\ h[Len(e)] = y /\ \A i \in 0 .. n + 1 : h[i] = A(i)
  BY <1>1
<1>7. Path(h, e)
  <2> SUFFICES ASSUME NEW i \in 0 .. Len(e) - 1
               PROVE  ~Stopped(h[i]) /\ h[i + 1] = Step(h[i], e[i + 1])
    BY DEF Path
  <2> HIDE DEF h
  <2>1. i \in 0 .. n + 1
    BY <1>1
  <2>2. CASE i <= n
    <3>1. i \in 0 .. n /\ i + 1 \in 0 .. n + 1
      BY <1>1, <2>1, <2>2
    <3> QED  BY <1>4, <1>6, <2>1, <3>1
  <2>3. CASE ~(i <= n)
    <3>1. i = n + 1 /\ i + 1 = Len(e)
      BY <1>1, <2>1, <2>3
    <3> QED  BY <1>5, <1>6, <2>1, <3>1
  <2> QED  BY <2>2, <2>3
<1>8. Reads(A(0), e, y)
  <2> HIDE DEF h
  <2> QED  BY <1>6, <1>7 DEF Reads
<1>9. <<b>> \in Seq(AnyByte) /\ Line(b, text) = <<b>> \o e
  <2>1. <<CR, LF>> \in Seq(AnyByte) /\ <<b>> \in Seq(AnyByte)
    BY DEF AnyByte
  <2>2. (<<b>> \o text) \o <<CR, LF>> = <<b>> \o (text \o <<CR, LF>>)
    BY <2>1, ConcatAssociative
  <2> QED  BY <2>1, <2>2 DEF Line, e, WithCrlf
<1> HIDE DEF x
<1>10. Reads(x, <<b>> \o e, y)
  BY <1>1, <1>3, <1>8, <1>9, ReadsBoth
<1> QED  BY <1>9, <1>10 DEF x

\* A payload is read to its end, whatever is in it.
LEMMA ReadsPayload ==
  ASSUME NEW st, NEW cm, NEW c, Context(st, cm, c), NEW v \in Seq(AnyByte), NEW y,
         y = popStacks(Psr(st, Put(cm, c, Cmd("bulk", "end", v, 0, <<>>)), WithCrlf(v), Len(v))),
         y.cmds[c].status # "error"
  PROVE  Reads(Psr(st, Put(cm, c, InBulk), <<>>, Len(v)), WithCrlf(v), y)
<1> DEFINE e == WithCrlf(v)
           n == Len(v)
           A(i) == Psr(st, Put(cm, c, InBulk), SubSeq(e, 1, i), n)
           h == [i \in Nat |-> IF i < n + 2 THEN A(i) ELSE y]
<1>0. e = WithCrlf(v) /\ n = Len(v) /\ n \in Nat
  OBVIOUS
<1>2. y = popStacks(Psr(st, Put(cm, c, Cmd("bulk", "end", v, 0, <<>>)), e, n))
  OBVIOUS
<1> HIDE DEF e, n
<1>1. /\ e \in Seq(AnyByte) /\ Len(e) = n + 2 /\ n \in Nat /\ Text(e) = v /\ endByCtrf(e)
  BY <1>0, Crlf
<1>3. A(0) = Psr(st, Put(cm, c, InBulk), <<>>, n)
  <2>1. 0 \in 0 .. Len(e)
    BY <1>1
  <2> QED  BY <1>1, <2>1, FirstBytes
<1>4. ASSUME NEW i \in 0 .. n PROVE ~Stopped(A(i)) /\ Step(A(i), e[i + 1]) = A(i + 1)
  <2> DEFINE bi == SubSeq(e, 1, i)
             b1 == SubSeq(e, 1, i + 1)
             ei == e[i + 1]
  <2>1. i \in 0 .. Len(e) /\ i < Len(e) /\ i + 1 \in 0 .. Len(e) /\ i + 1 # n + 2
    BY <1>1
  <2>2. Grown(bi, ei) = b1 /\ Len(b1) # n + 2
    BY <1>1, <2>1, FirstBytes
  <2> HIDE DEF bi, b1, ei
  <2>3. /\ ~Stopped(Psr(st, Put(cm, c, InBulk), bi, n))
        /\ Step(Psr(st, Put(cm, c, InBulk), bi, n), ei) = Psr(st, Put(cm, c, InBulk), b1, n)
    BY <2>2, BulkByte
  <2> QED  BY <2>3 DEF bi, b1, ei
<1>5. ~Stopped(A(n + 1)) /\ Step(A(n + 1), e[(n + 1) + 1]) = y
  <2> DEFINE bi == SubSeq(e, 1, n + 1)
             ei == e[(n + 1) + 1]
  <2>1. n + 1 \in 0 .. Len(e) /\ n + 1 < Len(e) /\ (n + 1) + 1 = Len(e)
    BY <1>1
  <2>2. Grown(bi, ei) = e
    BY <1>1, <2>1, FirstBytes
  <2> HIDE DEF bi, ei
  <2>3. /\ ~Stopped(Psr(st, Put(cm, c, InBulk), bi, n))
        /\ Step(Psr(st, Put(cm, c, InBulk), bi, n), ei) = y
    BY <1>1, <1>2, <2>2, BulkByte
  <2> QED  BY <2>3 DEF bi, ei
<1> HIDE DEF A
<1>6. h[0] = A(0) /\ h[Len(e)] = y /\ \A i \in 0 .. n + 1 : h[i] = A(i)
  BY <1>1
<1>7. Path(h, e)
  <2> SUFFICES ASSUME NEW i \in 0 .. Len(e) - 1
               PROVE  ~Stopped(h[i]) /\ h[i + 1] = Step(h[i], e[i + 1])
    BY DEF Path
  <2> HIDE DEF h
  <2>1. i \in 0 .. n + 1
    BY <1>1
  <2>2. CASE i <= n
    <3>1. i \in 0 .. n /\ i + 1 \in 0 .. n + 1
      BY <1>1, <2>1, <2>2
    <3> QED  BY <1>4, <1>6, <2>1, <3>1
  <2>3. CASE ~(i <= n)
    <3>1. i = n + 1 /\ i + 1 = Len(e)
      BY <1>1, <2>1, <2>3
    <3> QED  BY <1>5, <1>6, <2>1, <3>1
  <2> QED  BY <2>2, <2>3
<1>8. Reads(A(0), e, y)
  <2> HIDE DEF h
  <2> QED  BY <1>6, <1>7 DEF Reads
<1> QED  BY <1>3, <1>8 DEF e, n

-----------------------------------------------------------------------------
(* The end of a line, and of a command.                                    *)

\* The types that wrap.go and process.go write.
LEMMA Types ==
  TypeOf("+") = "status" /\ TypeOf("$") = "bulk" /\ TypeOf("*") = "mulit" /\ TypeOf("x") = "unknown"
  BY DEF TypeOf

\* What EndLine makes of a line: an end for a status, an error line or a nil bulk, a
\* wait for the payload of any other bulk.
LEMMA EndOfLine ==
  ASSUME NEW st, NEW cm, NEW c, Context(st, cm, c), NEW al, NEW t, NEW text \in Seq(AnyByte),
         NEW e, e = WithCrlf(text), NEW ps, ps = Psr(st, Put(cm, c, InLine(t)), e, al)
  PROVE  /\ t \in {"status", "unknown"} =>
              EndLine(ps, c) = popStacks(Psr(st, Put(cm, c, Cmd(t, "end", text, 0, <<>>)), e, al))
         /\ t = "bulk" /\ IsNumber(text) /\ Atoi(text) < 0 =>
              EndLine(ps, c) = popStacks(Psr(st, Put(cm, c, Cmd(t, "end", NoBytes, 0, <<>>)), e, al))
         /\ t = "bulk" /\ IsNumber(text) /\ ~(Atoi(text) < 0) =>
              EndLine(ps, c) = Psr(st, Put(cm, c, InBulk), e, Atoi(text))
         /\ t = "mulit" /\ IsNumber(text) /\ Atoi(text) < 0 => EndLine(ps, c) = Panic(ps)
         /\ t = "mulit" /\ IsNumber(text) /\ ~(Atoi(text) < 0) =>
              EndLine(ps, c) = OpenMulti(ps, c, Atoi(text))
<1>1. ps = Psr(st, Put(cm, c, Cmd(t, "until_CRLF", NoBytes, 0, <<>>)), e, al)
  BY DEF InLine
<1>2. /\ ps.buffer = e /\ ps.cmds[c].type = t
      /\ \A x : setBytes(ps, c, x) = Psr(st, Put(cm, c, Cmd(t, "until_CRLF", x, 0, <<>>)), e, al)
  BY <1>1, AtCommand
<1>3. ASSUME NEW x
      PROVE  Finish(setBytes(ps, c, x), c) =
               popStacks(Psr(st, Put(cm, c, Cmd(t, "end", x, 0, <<>>)), e, al))
  <2> DEFINE ps1 == setBytes(ps, c, x)
  <2>1. ps1 = Psr(st, Put(cm, c, Cmd(t, "until_CRLF", x, 0, <<>>)), e, al)
    BY <1>2
  <2> HIDE DEF ps1
  <2>2. SetStatus(ps1, c, "end") = Psr(st, Put(cm, c, Cmd(t, "end", x, 0, <<>>)), e, al)
    BY <2>1, AtCommand
  <2>3. Finish(ps1, c) = popStacks(Psr(st, Put(cm, c, Cmd(t, "end", x, 0, <<>>)), e, al))
    BY <2>2 DEF Finish
  <2> QED  BY <2>3 DEF ps1
<1>4. ASSUME t = "bulk", NEW i
      PROVE  SetStatus(SetArgLen(ps, i), c, "fixed_len") = Psr(st, Put(cm, c, InBulk), e, i)
  <2> DEFINE ps1 == SetArgLen(ps, i)
  <2>1. ps1 = Psr(st, Put(cm, c, Cmd(t, "until_CRLF", NoBytes, 0, <<>>)), e, i)
    BY <1>1, SetPsr
  <2> HIDE DEF ps1
  <2>2. SetStatus(ps1, c, "fixed_len") =
          Psr(st, Put(cm, c, Cmd(t, "fixed_len", NoBytes, 0, <<>>)), e, i)
    BY <2>1, AtCommand
  <2> QED  BY <1>4, <2>2 DEF ps1, InBulk
<1>5. Text(ps.buffer) = text
  BY <1>2, Crlf
<1> DEFINE i == Atoi(text)
<1>6. EndLine(ps, c) =
        IF t \in {"status", "error", "unknown"} THEN Finish(setBytes(ps, c, text), c)
        ELSE IF ~IsNumber(text) THEN ps
        ELSE IF t = "int" THEN Finish([ps EXCEPT !.cmds[c].int = i], c)
        ELSE IF t = "bulk"
        THEN IF i < 0 THEN Finish(setBytes(ps, c, NoBytes), c)
             ELSE SetStatus(SetArgLen(ps, i), c, "fixed_len")
        ELSE IF i < 0 THEN Panic(ps) ELSE OpenMulti(ps, c, i)
  BY <1>2, <1>5 DEF EndLine
<1> HIDE DEF i
<1>7. CASE t \in {"status", "unknown"}
  BY <1>3, <1>6, <1>7
<1>8. CASE t = "bulk"
  <2>1. IsNumber(text) => EndLine(ps, c) =
        IF i < 0 THEN Finish(setBytes(ps, c, NoBytes), c)
        ELSE SetStatus(SetArgLen(ps, i), c, "fixed_len")
    BY <1>6, <1>8
  <2> QED  BY <1>3, <1>4, <1>8, <2>1 DEF i
<1>9. CASE t = "mulit"
  <2>1. IsNumber(text) => EndLine(ps, c) = IF i < 0 THEN Panic(ps) ELSE OpenMulti(ps, c, i)
    BY <1>6, <1>9
  <2> QED  BY <1>9, <2>1 DEF i
<1> QED  BY <1>7, <1>8, <1>9

\* the first l commands of the stack stay, the others are done
CutAt(st, cm, l) ==
  /\ l \in Nat /\ Len(st) \in Nat /\ DOMAIN st = 1 .. Len(st)
  /\ \A x \in DOMAIN st : x > l => cm[st[x]].status \in {"end", "mulit"}
  /\ l = 0 \/ (l \in DOMAIN st /\ cm[st[l]].status \notin {"end", "mulit"})

\* cm1 is cm with the others ended
EndsOthers(st, cm, l, cm1) ==
  /\ DOMAIN cm1 = DOMAIN cm /\ cm1 = [c \in DOMAIN cm1 |-> cm1[c]]
  /\ \A c \in DOMAIN cm : (\E x \in DOMAIN st : x > l /\ st[x] = c) => cm1[c] = Ended(cm[c])
  /\ \A c \in DOMAIN cm : ~(\E x \in DOMAIN st : x > l /\ st[x] = c) => cm1[c] = cm[c]

\* The stack is cut at the last command that is open.
LEMMA PopShape ==
  ASSUME NEW st, NEW cm, NEW bf, NEW al, NEW l, CutAt(st, cm, l),
         NEW cm1, EndsOthers(st, cm, l, cm1)
  PROVE  popStacks(Psr(st, cm, bf, al)) = Psr(SubSeq(st, 1, l), cm1, bf, al)
<1> USE DEF CutAt, EndsOthers
<1> DEFINE ps == Psr(st, cm, bf, al)
<1>1. ps.stack = st /\ ps.cmds = cm /\ SetCmds(ps, cm1) = Psr(st, cm1, bf, al)
  BY PsrFields, SetPsr
<1> HIDE DEF ps
<1> DEFINE open == {x \in DOMAIN st : cm[st[x]].status \notin {"end", "mulit"}}
           m == IF open = {} THEN 0 ELSE CHOOSE x \in open : \A y \in open : y <= x
<1>2. m = l
  <2>1. CASE l = 0
    <3>1. open = {}
      BY <2>1
    <3> QED  BY <2>1, <3>1
  <2>2. CASE l # 0
    <3>1. l \in open /\ \A y \in open : y \in Nat /\ y <= l
      BY <2>2
    <3> HIDE DEF open
    <3>2. m \in open /\ \A y \in open : y <= m
      BY <3>1
    <3> HIDE DEF m
    <3> QED  BY <3>1, <3>2
  <2> QED  BY <2>1, <2>2
<1>3. popStacks(ps) =
        SetStack(SetCmds(ps, [c \in DOMAIN cm |->
          IF c \in {st[x] : x \in m + 1 .. Len(st)} THEN Ended(cm[c]) ELSE cm[c]]), SubSeq(st, 1, m))
  BY <1>1 DEF popStacks
<1> HIDE DEF m, open
<1>4. popStacks(ps) = SetStack(SetCmds(ps, cm1), SubSeq(st, 1, l))
  <2> DEFINE cm2 == [c \in DOMAIN cm |->
                      IF c \in {st[x] : x \in l + 1 .. Len(st)} THEN Ended(cm[c]) ELSE cm[c]]
  <2>1. ASSUME NEW c \in DOMAIN cm PROVE cm1[c] = cm2[c]
    <3>1. c \in {st[x] : x \in l + 1 .. Len(st)} <=> \E x \in DOMAIN st : x > l /\ st[x] = c
      OBVIOUS
    <3> QED  BY <3>1
  <2>2. cm1 = cm2
    BY <2>1
  <2>3. popStacks(ps) = SetStack(SetCmds(ps, cm2), SubSeq(st, 1, l))
    BY <1>2, <1>3
  <2> QED  BY <2>2, <2>3
<1>5. SetStack(Psr(st, cm1, bf, al), SubSeq(st, 1, l)) = Psr(SubSeq(st, 1, l), cm1, bf, al)
  BY SetPsr
<1> QED  BY <1>1, <1>4, <1>5 DEF ps

\* A command that is ended.
LEMMA EndedCmd == \A t, s, b, i, k : Ended(Cmd(t, s, b, i, k)) = Cmd(t, "end", b, i, k)
  BY DEF Ended, Cmd

\* A command by itself.
One == <<Fresh>>

\* A new parser is at its only command.
LEMMA OneContext ==
  /\ Context(<<1>>, One, 1) /\ NewParser = Psr(<<1>>, Put(One, 1, Fresh), <<>>, 0)
  /\ \A x : Put(One, 1, x) = <<x>>
<1>1. One = [j \in DOMAIN One |-> One[j]] /\ 1 \in DOMAIN One /\ One[1] = Fresh /\ DOMAIN One = {1}
  BY DEF One
<1>2. Context(<<1>>, One, 1)
  BY <1>1 DEF Context
<1>3. ASSUME NEW x PROVE Put(One, 1, x) = <<x>>
  BY DEF Put, One
<1>4. newRedisCommand = Fresh
  BY DEF newRedisCommand, Fresh, Cmd
<1>5. Put(One, 1, Fresh) = <<newRedisCommand>>
  BY <1>3, <1>4
<1>6. NewParser = Psr(<<1>>, <<newRedisCommand>>, <<>>, 0)
  BY DEF NewParser, Psr, Rec, No
<1> QED  BY <1>2, <1>3, <1>5, <1>6

\* popStacks on a single command that is finished leaves nothing on the stack.
LEMMA PopOne ==
  ASSUME NEW t, NEW b, NEW bf, NEW al
  PROVE  popStacks(Psr(<<1>>, Put(One, 1, Cmd(t, "end", b, 0, <<>>)), bf, al)) =
           Psr(<<>>, Put(One, 1, Cmd(t, "end", b, 0, <<>>)), bf, al)
<1> DEFINE C == Cmd(t, "end", b, 0, <<>>)
           cm == Put(One, 1, C)
           st == <<1>>
<1>1. cm = <<C>> /\ C.status = "end" /\ Ended(C) = C
  BY OneContext, CmdFields, EndedCmd
<1> HIDE DEF C
<1>2. DOMAIN st = {1} /\ st[1] = 1 /\ cm[1] = C /\ DOMAIN cm = {1} /\ SubSeq(st, 1, 0) = <<>>
  BY <1>1, SubSeqEmpty
<1>3. cm = [c \in DOMAIN cm |-> cm[c]]
  BY <1>1
<1> HIDE DEF cm, st
<1>4. \A c \in DOMAIN cm : Ended(cm[c]) = cm[c]
  BY <1>1, <1>2
<1>6. \A x \in DOMAIN st : cm[st[x]].status \in {"end", "mulit"}
  BY <1>1, <1>2
<1>7. Len(st) \in Nat /\ DOMAIN st = 1 .. Len(st)
  BY DEF st
<1>8. popStacks(Psr(st, cm, bf, al)) = Psr(SubSeq(st, 1, 0), cm, bf, al)
  <2> DEFINE l == 0
  <2>1. l \in Nat /\ l = 0
    OBVIOUS
  <2> HIDE DEF l
  <2>2. CutAt(st, cm, l) /\ EndsOthers(st, cm, l, cm)
    BY <1>3, <1>4, <1>6, <1>7, <2>1 DEF CutAt, EndsOthers
  <2>3. popStacks(Psr(st, cm, bf, al)) = Psr(SubSeq(st, 1, l), cm, bf, al)
    BY <2>2, PopShape
  <2> QED  BY <2>1, <2>3
<1> QED  BY <1>2, <1>8 DEF cm, C, st

-----------------------------------------------------------------------------
(* A bulk.                                                                 *)

\* what popStacks makes of the parser when command c has become x
Pops(st, cm, c, x, stx, cmx) ==
  \A bf, al : popStacks(Psr(st, Put(cm, c, x), bf, al)) = Psr(stx, cmx, bf, al)

\* A line is bytes, and not empty.
LEMMA LineBytes ==
  ASSUME NEW b \in AnyByte, NEW text \in Seq(AnyByte)
  PROVE  Line(b, text) \in Seq(AnyByte) /\ Line(b, text) # <<>>
<1>1. <<b>> \in Seq(AnyByte) /\ <<CR, LF>> \in Seq(AnyByte) /\ Len(<<b>>) = 1
  BY DEF AnyByte
<1>2. <<b>> \o text \in Seq(AnyByte) /\ Len(<<b>> \o text) = 1 + Len(text)
  BY <1>1, ConcatProperties
<1> DEFINE s == <<b>> \o text
<1> HIDE DEF s
<1>3. s \o <<CR, LF>> \in Seq(AnyByte) /\ Len(s \o <<CR, LF>>) = Len(s) + 2
  BY <1>1, <1>2, ConcatProperties DEF s
<1>4. Len(s \o <<CR, LF>>) # 0
  BY <1>2, <1>3 DEF s
<1> QED  BY <1>3, <1>4 DEF Line, s

\* The command a bulk is read into is ended, and what popStacks then does is done.
LEMMA ReadsBulk ==
  ASSUME NEW st, NEW cm, NEW c, Context(st, cm, c), NEW bf, NEW al, NEW v,
         v = NoBytes \/ (v \in Seq(AnyByte) /\ Len(v) < 100),
         NEW stx, NEW cmx, Pops(st, cm, c, Cmd("bulk", "end", v, 0, <<>>), stx, cmx),
         cmx[c].status # "error"
  PROVE  /\ \E bf1, al1 : Reads(Psr(st, Put(cm, c, Fresh), bf, al), WrapBulk(v), Psr(stx, cmx, bf1, al1))
         /\ WrapBulk(v) \in Seq(AnyByte)
<1> DEFINE x == Psr(st, Put(cm, c, Fresh), bf, al)
           C == Cmd("bulk", "end", v, 0, <<>>)
<1>0. "$" \in AnyByte
  BY DEF AnyByte
<1>1. CASE v = NoBytes
  <2> DEFINE text == <<"-", "1">>
             e == WithCrlf(text)
             ps == Psr(st, Put(cm, c, InLine("bulk")), e, al)
             y == Psr(stx, cmx, <<>>, al)
  <2>1. text \in Seq(AnyByte) /\ (\A k \in 1 .. Len(text) : text[k] # CR) /\ IsNumber(text) /\ Atoi(text) < 0
    BY MinusOne
  <2> HIDE DEF text
  <2>2. EndLine(ps, c) = popStacks(Psr(st, Put(cm, c, C), e, al))
    <3> HIDE DEF e
    <3>1. e = WithCrlf(text)
      BY DEF e
    <3> HIDE DEF ps
    <3>2. ps = Psr(st, Put(cm, c, InLine("bulk")), e, al)
      BY DEF ps
    <3> QED  BY <1>1, <2>1, <3>1, <3>2, EndOfLine
  <2> HIDE DEF e
  <2>3. SetBuffer(EndLine(ps, c), <<>>) = y
    BY <2>2, SetPsr DEF Pops
  <2>4. y.cmds[c].status # "error"
    BY PsrFields
  <2>5. Reads(x, Line("$", text), y)
    <3> HIDE DEF y, x
    <3> QED  BY <1>0, <2>1, <2>3, <2>4, ReadsLine, Types DEF e, x
  <2>6. WrapBulk(v) = Line("$", text)
    BY <1>1 DEF WrapBulk, text
  <2>7. Line("$", text) \in Seq(AnyByte)
    BY <1>0, <2>1, LineBytes
  <2> QED  BY <2>5, <2>6, <2>7
<1>2. CASE v # NoBytes
  <2> DEFINE n == Len(v)
             text == Decimal(n)
             e == WithCrlf(text)
             d == WithCrlf(v)
             ps == Psr(st, Put(cm, c, InLine("bulk")), e, al)
             y == Psr(st, Put(cm, c, InBulk), <<>>, n)
             z == Psr(stx, cmx, d, n)
  <2>a. v \in Seq(AnyByte) /\ Len(v) < 100
    BY <1>2, Zenon
  <2>b. Len(v) \in Nat
    BY <2>a
  <2>d. \A m \in Nat : m < 100 => m \in 0 .. 99
    OBVIOUS
  <2>0. v \in Seq(AnyByte) /\ n \in 0 .. 99
    BY <2>a, <2>b, <2>d, Zenon
  <2> HIDE DEF n
  <2>1. text \in Seq(AnyByte) /\ (\A k \in 1 .. Len(text) : text[k] # CR) /\ IsNumber(text) /\ Atoi(text) = n
    BY <2>0, Decimals
  <2>c. ~(n < 0)
    BY <2>0
  <2> HIDE DEF text
  <2>2. EndLine(ps, c) = Psr(st, Put(cm, c, InBulk), e, n)
    <3> HIDE DEF e
    <3>1. e = WithCrlf(text)
      BY DEF e
    <3> HIDE DEF ps
    <3>2. ps = Psr(st, Put(cm, c, InLine("bulk")), e, al)
      BY DEF ps
    <3> QED  BY <2>1, <2>c, <3>1, <3>2, EndOfLine
  <2> HIDE DEF e, d
  <2>3. SetBuffer(EndLine(ps, c), <<>>) = y
    BY <2>2, SetPsr
  <2>4. y.cmds[c].status # "error"
    <3>1. y = Psr(st, Put(cm, c, Cmd("bulk", "fixed_len", NoBytes, 0, <<>>)), <<>>, n)
      BY DEF InBulk
    <3> HIDE DEF y
    <3> QED  BY <3>1, AtCommand
  <2>5. Reads(x, Line("$", text), y)
    <3> HIDE DEF y, x
    <3> QED  BY <1>0, <2>1, <2>3, <2>4, ReadsLine, Types DEF e, x
  <2>6. z = popStacks(Psr(st, Put(cm, c, C), d, n)) /\ z.cmds[c].status # "error"
    BY PsrFields DEF Pops
  <2>7. Reads(y, d, z)
    <3> HIDE DEF z
    <3> QED  BY <2>0, <2>6, ReadsPayload DEF d, n
  <2>8. Line("$", text) \in Seq(AnyByte) /\ d \in Seq(AnyByte)
    BY <1>0, <2>0, <2>1, LineBytes, Crlf DEF d
  <2>9. WrapBulk(v) = Line("$", text) \o d
    <3>1. <<CR, LF>> \in Seq(AnyByte)
      BY DEF AnyByte
    <3>2. (Line("$", text) \o v) \o <<CR, LF>> = Line("$", text) \o (v \o <<CR, LF>>)
      BY <2>0, <2>8, <3>1, ConcatAssociative
    <3>3. WrapBulk(v) = (Line("$", text) \o v) \o <<CR, LF>>
      BY <1>2 DEF WrapBulk, text, n
    <3> QED  BY <3>2, <3>3 DEF d, WithCrlf
  <2>10. Reads(x, Line("$", text) \o d, z)
    <3> HIDE DEF x, y, z
    <3> QED  BY <2>5, <2>7, <2>8, ReadsBoth
  <2>11. Line("$", text) \o d \in Seq(AnyByte)
    BY <2>8, ConcatProperties
  <2> QED  BY <2>9, <2>10, <2>11
<1> QED  BY <1>1, <1>2

-----------------------------------------------------------------------------
(* One command by itself.                                                  *)

\* The parser that has read a single command.
LEMMA OneEnds ==
  ASSUME NEW t, NEW b, NEW bf, NEW al, NEW y, y = Psr(<<>>, Put(One, 1, Cmd(t, "end", b, 0, <<>>)), bf, al)
  PROVE  y.stack = <<>> /\ ~y.panic /\ y.cmds[1].type = t /\ y.cmds[1].status = "end" /\ y.cmds[1].bytes = b
<1> DEFINE C == Cmd(t, "end", b, 0, <<>>)
<1>1. C.type = t /\ C.status = "end" /\ C.bytes = b
  BY CmdFields
<1>2. Put(One, 1, C) = <<C>>
  BY OneContext
<1> HIDE DEF C
<1>3. <<C>>[1] = C
  OBVIOUS
<1>4. y.stack = <<>> /\ ~y.panic /\ y.cmds = Put(One, 1, C)
  BY PsrFields DEF C
<1> QED  BY <1>1, <1>2, <1>3, <1>4

\* A bulk that is an answer.
LEMMA ReadsOneBulk ==
  ASSUME NEW v, v = NoBytes \/ (v \in Seq(AnyByte) /\ Len(v) < 100)
  PROVE  \E y : /\ Reads(NewParser, WrapBulk(v), y) /\ y.stack = <<>> /\ ~y.panic
                /\ Command(y) = [type |-> "bulk", bytes |-> v]
<1> DEFINE C == Cmd("bulk", "end", v, 0, <<>>)
           st == <<1>>
           stx == <<>>
           cmx == Put(One, 1, C)
<1>1. Pops(st, One, 1, C, stx, cmx)
  BY PopOne DEF Pops
<1>2. cmx[1].status # "error"
  <2>1. cmx = <<C>> /\ C.status = "end"
    BY OneContext, CmdFields
  <2> HIDE DEF cmx, C
  <2> QED  BY <2>1
<1>3. Context(st, One, 1) /\ NewParser = Psr(st, Put(One, 1, Fresh), <<>>, 0)
  BY OneContext
<1>4. PICK bf1, al1 : Reads(NewParser, WrapBulk(v), Psr(stx, cmx, bf1, al1))
  <2> HIDE DEF st, stx, cmx
  <2> QED  BY <1>1, <1>2, <1>3, ReadsBulk
<1> DEFINE y == Psr(stx, cmx, bf1, al1)
<1>5. y.stack = <<>> /\ ~y.panic /\ y.cmds[1].type = "bulk" /\ y.cmds[1].bytes = v
  BY OneEnds
<1> HIDE DEF y
<1>6. Command(y) = [type |-> "bulk", bytes |-> v]
  BY <1>5 DEF Command
<1> QED  BY <1>4, <1>5, <1>6 DEF y

\* A line that is an answer or no command.
LEMMA ReadsOneLine ==
  ASSUME NEW b \in AnyByte, NEW t, t = TypeOf(b), t \in {"status", "unknown"},
         NEW text \in Seq(AnyByte), \A i \in 1 .. Len(text) : text[i] # CR
  PROVE  \E y : /\ Reads(NewParser, Line(b, text), y) /\ y.stack = <<>> /\ ~y.panic
                /\ y.cmds[1].type = t /\ y.cmds[1].bytes = text
<1> DEFINE C == Cmd(t, "end", text, 0, <<>>)
           st == <<1>>
           e == WithCrlf(text)
           ps == Psr(st, Put(One, 1, InLine(t)), e, 0)
           y == Psr(<<>>, Put(One, 1, C), <<>>, 0)
<1>1. EndLine(ps, 1) = popStacks(Psr(st, Put(One, 1, C), e, 0))
  <2>1. e = WithCrlf(text) /\ ps = Psr(st, Put(One, 1, InLine(t)), e, 0) /\ Context(st, One, 1)
    BY OneContext
  <2> HIDE DEF e, ps, st
  <2> QED  BY <2>1, EndOfLine
<1>2. SetBuffer(EndLine(ps, 1), <<>>) = y
  BY <1>1, PopOne, SetPsr
<1>3. y.stack = <<>> /\ ~y.panic /\ y.cmds[1].type = t /\ y.cmds[1].bytes = text /\ y.cmds[1].status = "end"
  BY OneEnds
<1>4. Context(st, One, 1) /\ NewParser = Psr(st, Put(One, 1, Fresh), <<>>, 0)
  BY OneContext
<1>5. Reads(NewParser, Line(b, text), y)
  <2> HIDE DEF y, st
  <2> QED  BY <1>2, <1>3, <1>4, ReadsLine
<1> HIDE DEF y
<1> QED  BY <1>3, <1>5

\* A multi bulk of a negative length panics.
LEMMA ReadsNegMulti ==
  \E y : Reads(NewParser, Line("*", <<"-", "1">>), y) /\ y.panic
<1> DEFINE text == <<"-", "1">>
           st == <<1>>
           e == WithCrlf(text)
           ps == Psr(st, Put(One, 1, InLine("mulit")), e, 0)
           y == SetBuffer(Panic(ps), <<>>)
<1>0. text \in Seq(AnyByte) /\ (\A k \in 1 .. Len(text) : text[k] # CR) /\ IsNumber(text) /\ Atoi(text) < 0
  BY MinusOne
<1> HIDE DEF text
<1>1. EndLine(ps, 1) = Panic(ps)
  <2>1. e = WithCrlf(text) /\ ps = Psr(st, Put(One, 1, InLine("mulit")), e, 0) /\ Context(st, One, 1)
    BY OneContext
  <2> HIDE DEF e, ps, st
  <2> QED  BY <1>0, <2>1, EndOfLine
<1>2. y.panic /\ y.cmds = Put(One, 1, InLine("mulit"))
  <2>1. ps.cmds = Put(One, 1, InLine("mulit"))
    BY PsrFields
  <2>2. y.panic /\ y.cmds = ps.cmds
    BY DEF SetBuffer, Panic, Psr, Rec
  <2> QED  BY <2>1, <2>2
<1>3. y.cmds[1].status # "error"
  <2>1. Put(One, 1, InLine("mulit")) = <<InLine("mulit")>> /\ InLine("mulit").status = "until_CRLF"
    BY OneContext, CmdFields DEF InLine
  <2> HIDE DEF y
  <2> QED  BY <1>2, <2>1
<1>4. Context(st, One, 1) /\ NewParser = Psr(st, Put(One, 1, Fresh), <<>>, 0) /\ "*" \in AnyByte
  BY OneContext DEF AnyByte
<1>6. y = SetBuffer(EndLine(Psr(st, Put(One, 1, InLine("mulit")), WithCrlf(text), 0), 1), <<>>)
  BY <1>1
<1>5. Reads(NewParser, Line("*", text), y)
  <2> HIDE DEF y, st
  <2> QED  BY <1>0, <1>6, <1>3, <1>4, ReadsLine, Types
<1> HIDE DEF y
<1> QED  BY <1>2, <1>5 DEF text

-----------------------------------------------------------------------------
(* A multi bulk.                                                           *)

\* a value that WrapBulk writes and the parser reads
IsValue(v) == v = NoBytes \/ (v \in Seq(AnyByte) /\ Len(v) < 100)

\* k of n elements have been read: the others are on the stack, the next on top
Stack(n, k) == [x \in 1 .. n - k + 1 |-> IF x = 1 THEN 1 ELSE n + 3 - x]
Ids(n) == [j \in 1 .. n |-> 1 + j]
Multi(n, s) == Cmd("mulit", s, NoBytes, 0, Ids(n))
Bulk(v) == Cmd("bulk", "end", v, 0, <<>>)

\* the commands then
Cmds(r, n, k, s) ==
  [c \in 1 .. n + 1 |-> IF c = 1 THEN Multi(n, s)
                        ELSE IF c <= k + 1 THEN Bulk(r[c - 1]) ELSE Fresh]

IsFcn(f) == f = [x \in DOMAIN f |-> f[x]]

IsCmds(cm, r, n, k, s) ==
  /\ DOMAIN cm = 1 .. n + 1 /\ IsFcn(cm) /\ cm[1] = Multi(n, s)
  /\ \A c \in 2 .. k + 1 : cm[c] = Bulk(r[c - 1])
  /\ \A c \in k + 2 .. n + 1 : cm[c] = Fresh

IsStack(st, n, k) ==
  /\ DOMAIN st = 1 .. n - k + 1 /\ Len(st) = n - k + 1 /\ st \in Seq(Nat) /\ st[1] = 1
  /\ \A x \in 2 .. n - k + 1 : st[x] = n + 3 - x

\* The commands and
LEMMA CmdsShape ==
  ASSUME NEW r, NEW n \in Nat, NEW k, k \in 0 .. n, NEW s
  PROVE  IsCmds(Cmds(r, n, k, s), r, n, k, s)
<1> DEFINE cm == Cmds(r, n, k, s)
<1>1. DOMAIN cm = 1 .. n + 1 /\ IsFcn(cm) /\ cm[1] = Multi(n, s)
  BY DEF Cmds, IsFcn
<1>2. \A c \in 2 .. k + 1 : cm[c] = Bulk(r[c - 1])
  BY DEF Cmds
<1>3. \A c \in k + 2 .. n + 1 : cm[c] = Fresh
  BY DEF Cmds
<1> HIDE DEF cm
<1>4. IsCmds(cm, r, n, k, s)
  BY <1>1, <1>2, <1>3 DEF IsCmds
<1> QED  BY <1>4 DEF cm

\* the stack, when k of n elements have been read.
LEMMA StackShape ==
  ASSUME NEW n \in Nat, NEW k, k \in 0 .. n
  PROVE  IsStack(Stack(n, k), n, k)
<1> DEFINE st == Stack(n, k)
<1>4. n - k + 1 \in Nat /\ st \in [1 .. n - k + 1 -> Nat]
  BY DEF Stack
<1>5. st \in Seq(Nat) /\ Len(st) = n - k + 1 /\ DOMAIN st = 1 .. n - k + 1
  <2> HIDE DEF st
  <2> QED  BY <1>4
<1>6. st[1] = 1 /\ \A x \in 2 .. n - k + 1 : st[x] = n + 3 - x
  BY DEF Stack
<1> HIDE DEF st
<1>7. IsStack(st, n, k)
  BY <1>5, <1>6 DEF IsStack
<1> QED  BY <1>7 DEF st

\* The status of a multi bulk, of an element that was read and of one that was not.
LEMMA Statuses ==
  /\ \A n, s : Multi(n, s).status = s /\ Multi(n, s).type = "mulit" /\ Multi(n, s).commands = Ids(n)
               /\ Ended(Multi(n, s)) = Multi(n, "end")
  /\ \A v : Bulk(v).status = "end" /\ Bulk(v).bytes = v /\ Ended(Bulk(v)) = Bulk(v)
  /\ Fresh.status = "start"
  BY CmdFields, EndedCmd DEF Multi, Bulk, Fresh

\* The next element is at the top of the stack, and the commands are those after it
\* once it has been read.
LEMMA NextElement ==
  ASSUME NEW r, NEW n \in Nat, NEW k, k \in 0 .. n - 1, NEW k1, k1 = k + 1, NEW c, c = k + 2
  PROVE  /\ Context(Stack(n, k), Cmds(r, n, k, "mulit"), c)
         /\ Put(Cmds(r, n, k, "mulit"), c, Fresh) = Cmds(r, n, k, "mulit")
         /\ Put(Cmds(r, n, k, "mulit"), c, Bulk(r[k1])) = Cmds(r, n, k1, "mulit")
<1> DEFINE cm == Cmds(r, n, k, "mulit")
           st == Stack(n, k)
           d == Cmds(r, n, k1, "mulit")
<1>1. k \in 0 .. n /\ k1 \in 0 .. n /\ c \in k + 2 .. n + 1 /\ c \in 2 .. (k + 1) + 1 /\ c \in 1 .. n + 1
      /\ c - 1 = k + 1 /\ n - k + 1 \in 2 .. n - k + 1 /\ n + 3 - (n - k + 1) = c /\ n - k + 1 # 0
  OBVIOUS
<1>2. IsCmds(cm, r, n, k, "mulit") /\ IsStack(st, n, k) /\ IsCmds(d, r, n, k1, "mulit")
  BY <1>1, CmdsShape, StackShape
<1> HIDE DEF cm, st, d
<1>3. /\ DOMAIN cm = 1 .. n + 1 /\ IsFcn(cm) /\ cm[1] = Multi(n, "mulit") /\ cm[c] = Fresh
      /\ \A j \in 2 .. k + 1 : cm[j] = Bulk(r[j - 1])
      /\ \A j \in k + 2 .. n + 1 : cm[j] = Fresh
  BY <1>1, <1>2 DEF IsCmds
<1>4. /\ DOMAIN d = 1 .. n + 1 /\ IsFcn(d) /\ d[1] = Multi(n, "mulit")
      /\ \A j \in 2 .. (k + 1) + 1 : d[j] = Bulk(r[j - 1])
      /\ \A j \in (k + 1) + 2 .. n + 1 : d[j] = Fresh
  BY <1>1, <1>2 DEF IsCmds
<1>5. d[c] = Bulk(r[k1])
  BY <1>1, <1>4
<1>6. Len(st) = n - k + 1 /\ st[n - k + 1] = c
  BY <1>1, <1>2 DEF IsStack
<1>7. Context(st, cm, c)
  <2>1. st # <<>>
    BY <1>1, <1>6
  <2> QED  BY <1>1, <1>3, <1>6, <2>1 DEF Context, IsFcn
<1>8. Put(cm, c, Fresh) = cm
  BY <1>1, <1>3, Puts DEF IsFcn
<1>9. Put(cm, c, Bulk(r[k1])) = d
  <2>2. ASSUME NEW j \in 1 .. n + 1, j # c PROVE d[j] = cm[j]
    <3>1. CASE j = 1
      BY <1>3, <1>4, <3>1
    <3>2. CASE j \in 2 .. k + 1
      <4>1. j \in 2 .. (k + 1) + 1
        BY <3>2
      <4> QED  BY <1>3, <1>4, <3>2, <4>1
    <3>3. CASE j \in k + 3 .. n + 1
      <4>1. j \in k + 2 .. n + 1 /\ j \in (k + 1) + 2 .. n + 1
        BY <3>3
      <4> QED  BY <1>3, <1>4, <4>1
    <3>4. j = 1 \/ j \in 2 .. k + 1 \/ j \in k + 3 .. n + 1
      BY <2>2
    <3> QED  BY <3>1, <3>2, <3>3, <3>4
  <2> DEFINE b == Bulk(r[k1])
             q == Put(cm, c, b)
  <2> HIDE DEF b
  <2>3. /\ DOMAIN q = 1 .. n + 1 /\ q[c] = b /\ IsFcn(q)
        /\ \A j \in 1 .. n + 1 : j # c => q[j] = cm[j]
    BY <1>1, <1>3 DEF IsFcn, Put
  <2> HIDE DEF q
  <2>4. \A j \in 1 .. n + 1 : q[j] = d[j]
    BY <1>5, <2>2, <2>3 DEF b
  <2>5. q = d
    BY <1>4, <2>3, <2>4 DEF IsFcn
  <2> QED  BY <2>5 DEF q, b
<1> QED  BY <1>7, <1>8, <1>9 DEF cm, d, st

\* An element that is not the last leaves the stack alone.
LEMMA PopElement ==
  ASSUME NEW r, NEW n \in Nat, NEW k, k \in 0 .. n - 2,
         NEW k1, k1 = k + 1, NEW c, c = k + 2
  PROVE  Pops(Stack(n, k), Cmds(r, n, k, "mulit"), c, Bulk(r[k1]), Stack(n, k1), Cmds(r, n, k1, "mulit"))
<1> DEFINE d == Cmds(r, n, k1, "mulit")
           st == Stack(n, k)
           l == n - k
<1>0. k \in 0 .. n - 1 /\ k \in 0 .. n /\ k1 \in 0 .. n /\ l \in Nat /\ l # 0
      /\ l \in 2 .. n - k + 1 /\ n + 3 - l = k + 3 /\ k + 3 \in (k + 1) + 2 .. n + 1
      /\ n - k + 1 = l + 1 /\ l + 1 \in 2 .. n - k + 1 /\ n + 3 - (l + 1) = k + 2
      /\ k + 2 \in 2 .. (k + 1) + 1 /\ n - (k + 1) + 1 = l
  OBVIOUS
<1>a. IsCmds(d, r, n, k1, "mulit") /\ IsStack(st, n, k)
  BY <1>0, CmdsShape, StackShape
<1> HIDE DEF d, st
<1>1. /\ DOMAIN st = 1 .. l + 1 /\ Len(st) = l + 1 /\ st \in Seq(Nat) /\ st[1] = 1
      /\ st[l] = k + 3 /\ st[l + 1] = k + 2 /\ \A x \in 2 .. n - k + 1 : st[x] = n + 3 - x
  BY <1>0, <1>a DEF IsStack
<1>2. DOMAIN d = 1 .. n + 1 /\ IsFcn(d) /\ d[k + 3] = Fresh /\ d[k + 2] = Bulk(r[(k + 2) - 1])
  BY <1>0, <1>a DEF IsCmds
<1>3. SubSeq(st, 1, l) = Stack(n, k1)
  <2> DEFINE s == SubSeq(st, 1, l)
             s1 == Stack(n, k1)
  <2>1. s \in Seq(Nat) /\ Len(s) = l /\ \A x \in 1 .. l : s[x] = st[x]
    <3>1. 1 \in 1 .. Len(st) + 1 /\ l \in 1 - 1 .. Len(st) /\ l - 1 + 1 = l
          /\ \A i \in 1 .. l : 1 + i - 1 = i
      BY <1>0, <1>1
    <3> HIDE DEF l
    <3> QED  BY <1>1, <3>1, Slices
  <2>a. IsStack(s1, n, k1)
    BY <1>0, StackShape
  <2> HIDE DEF s1
  <2>2. s1 \in Seq(Nat) /\ Len(s1) = l /\ s1[1] = 1 /\ \A x \in 2 .. l : s1[x] = n + 3 - x
    BY <1>0, <2>a DEF IsStack
  <2>3. ASSUME NEW x \in 1 .. l PROVE s1[x] = st[x]
    <3>1. CASE x = 1
      BY <1>1, <2>2, <3>1
    <3>2. CASE x # 1
      <4>1. x \in 2 .. l /\ x \in 2 .. n - k + 1
        BY <1>0, <3>2
      <4> QED  BY <1>1, <2>2, <4>1
    <3> QED  BY <3>1, <3>2
  <2> HIDE DEF s, l
  <2>4. s = s1
    BY <2>1, <2>2, <2>3, SeqEqual
  <2> QED  BY <2>4 DEF s, s1
<1>4. Fresh.status = "start" /\ d[k + 2].status = "end" /\ Ended(d[k + 2]) = d[k + 2]
  BY <1>2, Statuses
<1> HIDE DEF l
<1>5. \A x \in DOMAIN st : x > l => x = l + 1
  BY <1>0, <1>1
<1>6. CutAt(st, d, l)
  <2>1. \A x \in DOMAIN st : x > l => d[st[x]].status \in {"end", "mulit"}
    BY <1>1, <1>4, <1>5
  <2>2. l \in DOMAIN st /\ d[st[l]].status \notin {"end", "mulit"}
    BY <1>0, <1>1, <1>2, <1>4
  <2>3. l \in Nat /\ Len(st) \in Nat /\ DOMAIN st = 1 .. Len(st)
    BY <1>0, <1>1
  <2> QED  BY <2>1, <2>2, <2>3 DEF CutAt
<1>7. EndsOthers(st, d, l, d)
  BY <1>1, <1>2, <1>4, <1>5 DEF EndsOthers, IsFcn
<1>8. ASSUME NEW bf, NEW al PROVE popStacks(Psr(st, d, bf, al)) = Psr(SubSeq(st, 1, l), d, bf, al)
  BY <1>6, <1>7, PopShape
<1>9. Put(Cmds(r, n, k, "mulit"), c, Bulk(r[k1])) = d
  BY <1>0, NextElement DEF d
<1> QED  BY <1>3, <1>8, <1>9 DEF Pops, st, d

\* The last one empties it, and the multi bulk is ended with it.
LEMMA PopLast ==
  ASSUME NEW r, NEW n \in Nat, n # 0, NEW k, k = n - 1, NEW c, c = k + 2
  PROVE  Pops(Stack(n, k), Cmds(r, n, k, "mulit"), c, Bulk(r[n]), <<>>, Cmds(r, n, n, "end"))
<1> DEFINE d == Cmds(r, n, n, "mulit")
           d1 == Cmds(r, n, n, "end")
           st == Stack(n, k)
           l == 0
<1>0. k \in 0 .. n - 1 /\ k \in 0 .. n /\ n = k + 1 /\ n \in 0 .. n
      /\ n - k + 1 = 2 /\ 2 \in 2 .. n - k + 1 /\ n + 3 - 2 = n + 1 /\ n + 1 \in 2 .. n + 1 /\ n + 1 # 1
      /\ 1 \in 1 .. n + 1
  OBVIOUS
<1>a. IsCmds(d, r, n, n, "mulit") /\ IsCmds(d1, r, n, n, "end") /\ IsStack(st, n, k)
  BY <1>0, CmdsShape, StackShape
<1> HIDE DEF d, d1, st
<1>1. DOMAIN st = 1 .. 2 /\ Len(st) = 2 /\ st \in Seq(Nat) /\ st[1] = 1 /\ st[2] = n + 1
  BY <1>0, <1>a DEF IsStack
<1>2. /\ DOMAIN d = 1 .. n + 1 /\ IsFcn(d) /\ d[1] = Multi(n, "mulit")
      /\ \A j \in 2 .. n + 1 : d[j] = Bulk(r[j - 1])
      /\ DOMAIN d1 = 1 .. n + 1 /\ IsFcn(d1) /\ d1[1] = Multi(n, "end")
      /\ \A j \in 2 .. n + 1 : d1[j] = Bulk(r[j - 1])
  BY <1>0, <1>a DEF IsCmds
<1>3. SubSeq(st, 1, l) = <<>> /\ l = 0
  BY <1>1, SubSeqEmpty
<1>4. d[1].status = "mulit" /\ d1[1] = Ended(d[1])
      /\ \A j \in 2 .. n + 1 : d[j].status = "end" /\ d1[j] = d[j] /\ Ended(d[j]) = d[j]
  BY <1>2, Statuses
<1> HIDE DEF l
<1>5. \A x \in DOMAIN st : x = 1 \/ x = 2
  BY <1>1
<1>6. CutAt(st, d, l)
  <2>1. \A x \in DOMAIN st : d[st[x]].status \in {"end", "mulit"}
    BY <1>0, <1>1, <1>4, <1>5
  <2>2. l \in Nat /\ Len(st) \in Nat /\ DOMAIN st = 1 .. Len(st)
    BY <1>1, <1>3
  <2> QED  BY <1>3, <2>1, <2>2 DEF CutAt
<1>7. EndsOthers(st, d, l, d1)
  <2>1. ASSUME NEW j \in DOMAIN d, \E x \in DOMAIN st : x > l /\ st[x] = j PROVE d1[j] = Ended(d[j])
    <3>1. j = 1 \/ j = n + 1
      BY <1>1, <1>5, <2>1
    <3> QED  BY <1>0, <1>4, <3>1
  <2>2. ASSUME NEW j \in DOMAIN d, ~(\E x \in DOMAIN st : x > l /\ st[x] = j) PROVE d1[j] = d[j]
    <3>1. j # 1
      <4>1. 1 \in DOMAIN st /\ 1 > l
        BY <1>1, <1>3
      <4> QED  BY <1>1, <2>2, <4>1
    <3>2. j \in 2 .. n + 1
      BY <1>2, <3>1
    <3> QED  BY <1>4, <3>2
  <2> QED  BY <1>2, <2>1, <2>2 DEF EndsOthers, IsFcn
<1>8. ASSUME NEW bf, NEW al PROVE popStacks(Psr(st, d, bf, al)) = Psr(SubSeq(st, 1, l), d1, bf, al)
  BY <1>6, <1>7, PopShape
<1>9. Put(Cmds(r, n, k, "mulit"), c, Bulk(r[n])) = d
  BY <1>0, NextElement DEF d
<1> QED  BY <1>3, <1>8, <1>9 DEF Pops, st, d, d1

-----------------------------------------------------------------------------
(* WrapMulitBulk.                                                          *)

\* h[k] is s0 with the first k of the sequences w after it
Joins(h, s0, w) == h[0] = s0 /\ \A k \in Nat : h[k + 1] = h[k] \o w[k + 1]

\* Sequences can be put one after the other.
LEMMA JoinExists ==
  ASSUME NEW A, NEW s0 \in Seq(A), NEW w \in [Nat -> Seq(A)]
  PROVE  \E h \in [Nat -> Seq(A)] : Joins(h, s0, w)
<1> DEFINE B == Seq(A)
           S == [b : B, k : Nat]
           Longer(x) == [b |-> x.b \o w[x.k + 1], k |-> x.k + 1]
           g == [x \in S |-> Longer(x)]
           x0 == [b |-> s0, k |-> 0]
<1>1. x0 \in S
  OBVIOUS
<1>2. ASSUME NEW x \in S PROVE Longer(x) \in S
  <2> DEFINE xb == x.b
             wk == w[x.k + 1]
  <2>a. xb \in B /\ x.k \in Nat
    <3> HIDE DEF B
    <3> QED  OBVIOUS
  <2> DEFINE i == x.k
  <2> HIDE DEF xb, S, Longer
  <2>b. xb \in Seq(A) /\ i \in Nat
    BY <2>a
  <2>c. i + 1 \in Nat
    <3> HIDE DEF i
    <3> QED  BY <2>b
  <2>1. xb \in Seq(A) /\ x.k \in Nat /\ x.k + 1 \in Nat
    BY <2>b, <2>c
  <2>2. wk \in Seq(A)
    BY <2>1
  <2> HIDE DEF wk
  <2>3. xb \o wk \in Seq(A)
    BY <2>1, <2>2, ConcatProperties
  <2>4. x.b \o w[x.k + 1] \in B
    BY <2>3 DEF xb, wk
  <2> DEFINE c == x.b \o w[x.k + 1]
  <2> HIDE DEF c
  <2>5. [b |-> c, k |-> x.k + 1] \in [b : B, k : Nat]
    BY <2>1, <2>4 DEF c
  <2> QED  BY <2>5 DEF c, S, Longer
<1>3. g \in [S -> S] /\ \A x \in S : g[x] = Longer(x)
  <2> HIDE DEF S, Longer
  <2> QED  BY <1>2
<1> HIDE DEF g, x0
<1>4. PICK H \in [Nat -> S] : Iterates(g, x0, H)
  <2> HIDE DEF S
  <2> QED  BY <1>1, <1>3, IterateExists
<1>5. /\ H[0].b = s0 /\ H[0].k = 0
      /\ \A k \in Nat : H[k] \in S /\ H[k + 1] = Longer(H[k])
  <2>1. \A k \in Nat : H[k] \in S
    <3> HIDE DEF S
    <3> QED  OBVIOUS
  <2>2. H[0] = x0 /\ \A k \in Nat : H[k + 1] = g[H[k]]
    BY <1>4 DEF Iterates
  <2> HIDE DEF S, Longer
  <2> QED  BY <1>3, <2>1, <2>2 DEF x0
<1>6. ASSUME NEW k \in Nat
      PROVE  H[k].b \in B /\ H[k + 1].b = H[k].b \o w[H[k].k + 1] /\ H[k + 1].k = H[k].k + 1
  <2>1. H[k] \in S /\ H[k + 1] = Longer(H[k])
    BY <1>5
  <2> DEFINE x == H[k]
             y == H[k + 1]
  <2> HIDE DEF x, y, B
  <2>2. x.b \in B
    BY <2>1 DEF x
  <2> DEFINE c == x.b \o w[x.k + 1]
             d == x.k + 1
  <2>4. y = [b |-> c, k |-> d]
    BY <2>1 DEF x, y
  <2> HIDE DEF c, d
  <2>5. y.b = c /\ y.k = d
    BY <2>4
  <2>3. y.b = x.b \o w[x.k + 1] /\ y.k = x.k + 1
    BY <2>5 DEF c, d
  <2> QED  BY <2>2, <2>3 DEF x, y
<1> HIDE DEF S, Longer
<1> DEFINE T == {k \in Nat : H[k].k = k}
<1>7. 0 \in T
  BY <1>5
<1>8. ASSUME NEW k \in Nat, k \in T PROVE k + 1 \in T
  <2>1. H[k].k = k /\ k + 1 \in Nat
    BY <1>8
  <2>2. H[k + 1].k = H[k].k + 1
    BY <1>6
  <2>3. H[k + 1].k = k + 1
    BY <2>1, <2>2
  <2> QED  BY <2>1, <2>3
<1>9. Nat \subseteq T
  <2> HIDE DEF T
  <2> QED  BY <1>7, <1>8, SetInduction
<1> DEFINE h == [k \in Nat |-> H[k].b]
<1> HIDE DEF B
<1>10. h \in [Nat -> B] /\ h[0] = s0
  BY <1>5, <1>6
<1>11. ASSUME NEW k \in Nat PROVE h[k + 1] = h[k] \o w[k + 1]
  <2>1. h[k] = H[k].b /\ h[k + 1] = H[k + 1].b /\ H[k].k = k
    BY <1>9
  <2> HIDE DEF h
  <2> QED  BY <1>6, <2>1
<1> HIDE DEF h
<1>12. Joins(h, s0, w)
  BY <1>10, <1>11 DEF Joins
<1> QED  BY <1>10, <1>12 DEF B

\* the bytes of the first k elements
IsWrap(wc, r, n) ==
  /\ wc[0] = Line("*", Decimal(n))
  /\ \A k \in Nat : k < n => wc[k + 1] = wc[k] \o WrapBulk(r[k + 1])

\* What the loop of WrapMulitBulk computes.
LEMMA WrapLoop ==
  ASSUME NEW r, NEW n \in Nat, Len(r) = n, Line("*", Decimal(n)) \in Seq(AnyByte),
         \A k \in Nat : k < n => WrapBulk(r[k + 1]) \in Seq(AnyByte)
  PROVE  \E wc : IsWrap(wc, r, n) /\ WrapMulitBulk(r) = wc[n]
<1> DEFINE l == Line("*", Decimal(n))
           w == [j \in Nat |-> IF j \in 1 .. n THEN WrapBulk(r[j]) ELSE <<>>]
           P(f) == f = [k \in 0 .. n |-> IF k = 0 THEN l ELSE f[k - 1] \o WrapBulk(r[k])]
           f0 == CHOOSE f : P(f)
<1>1. WrapMulitBulk(r) = f0[n]
  BY DEF WrapMulitBulk
<1> HIDE DEF l
<1>2. w \in [Nat -> Seq(AnyByte)]
  <2> SUFFICES ASSUME NEW j \in 1 .. n PROVE WrapBulk(r[j]) \in Seq(AnyByte)
    OBVIOUS
  <2>1. j - 1 \in Nat /\ j - 1 < n /\ (j - 1) + 1 = j
    OBVIOUS
  <2> QED  BY <2>1
<1>3. \A j \in 1 .. n : w[j] = WrapBulk(r[j])
  OBVIOUS
<1>4. l \in Seq(AnyByte)
  BY DEF l
<1> HIDE DEF w
<1>a. PICK h \in [Nat -> Seq(AnyByte)] : Joins(h, l, w)
  BY <1>2, <1>4, JoinExists
<1>5. h[0] = l /\ \A k \in Nat : h[k + 1] = h[k] \o w[k + 1]
  BY <1>a DEF Joins
<1> DEFINE g == [k \in 0 .. n |-> h[k]]
<1>6. P(g)
  <2> SUFFICES ASSUME NEW k \in 0 .. n PROVE h[k] = IF k = 0 THEN l ELSE g[k - 1] \o WrapBulk(r[k])
    OBVIOUS
  <2>1. CASE k = 0
    BY <1>5, <2>1
  <2>2. CASE k # 0
    <3>1. k - 1 \in 0 .. n /\ k - 1 \in Nat /\ (k - 1) + 1 = k /\ k \in 1 .. n
      BY <2>2
    <3>2. g[k - 1] = h[k - 1] /\ w[k] = WrapBulk(r[k])
      BY <1>3, <3>1
    <3>3. h[(k - 1) + 1] = h[k - 1] \o w[(k - 1) + 1]
      BY <1>5, <3>1
    <3> QED  BY <2>2, <3>1, <3>2, <3>3
  <2> QED  BY <2>1, <2>2
<1>7. P(f0)
  <2> HIDE DEF P, g
  <2> QED  BY <1>6
<1> HIDE DEF f0
<1>8. f0[0] = l
  BY <1>7
<1>9. ASSUME NEW k \in Nat, k < n PROVE f0[k + 1] = f0[k] \o WrapBulk(r[k + 1])
  <2>1. k + 1 \in 0 .. n /\ k + 1 # 0 /\ (k + 1) - 1 = k
    BY <1>9
  <2>2. f0[k + 1] = f0[(k + 1) - 1] \o WrapBulk(r[k + 1])
    BY <1>7, <2>1
  <2> QED  BY <2>1, <2>2
<1> HIDE DEF P
<1>10. IsWrap(f0, r, n)
  BY <1>8, <1>9 DEF IsWrap, l
<1> QED  BY <1>1, <1>10

\* The header opens the multi bulk.
LEMMA OpensMulti ==
  ASSUME NEW r, NEW n \in Nat, NEW e, NEW ps, ps = Psr(NewParser.stack, Put(One, 1, InLine("mulit")), e, 0)
  PROVE  OpenMulti(ps, 1, n) = Psr(Stack(n, 0), Cmds(r, n, 0, "mulit"), e, 0)
<1> DEFINE st == <<1>>
           ids == [j \in 1 .. n |-> 1 + j]
           ps0 == SetStatus(ps, 1, "mulit")
           ps1 == setCommands(ps0, 1, ids)
           M == Multi(n, "mulit")
           news == [j \in 1 .. n |-> newRedisCommand]
           tops == [j \in 1 .. n |-> 1 + n + 1 - j]
<1>1. Context(st, One, 1)
  BY OneContext
<1>a. NewParser.stack = st
  BY DEF NewParser
<1>2. ps = Psr(st, Put(One, 1, Cmd("mulit", "until_CRLF", NoBytes, 0, <<>>)), e, 0)
  BY <1>a DEF InLine
<1> HIDE DEF st
<1>3. ps0 = Psr(st, Put(One, 1, Cmd("mulit", "mulit", NoBytes, 0, <<>>)), e, 0)
  BY <1>1, <1>2, AtCommand
<1> HIDE DEF ps0
<1>4. ps1 = Psr(st, Put(One, 1, Cmd("mulit", "mulit", NoBytes, 0, ids)), e, 0)
  <2> HIDE DEF ids
  <2> QED  BY <1>1, <1>3, AtCommand
<1>5. ids = Ids(n)
  BY DEF Ids
<1>6. ps1 = Psr(st, <<M>>, e, 0)
  <2>1. Put(One, 1, M) = <<M>>
    BY OneContext
  <2> QED  BY <1>4, <1>5, <2>1 DEF Multi
<1>7. ps.stack = st /\ Len(ps.cmds) = 1
  <2>1. ps.stack = st /\ ps.cmds = Put(One, 1, InLine("mulit"))
    BY <1>a, PsrFields
  <2>2. Put(One, 1, InLine("mulit")) = <<InLine("mulit")>>
    BY OneContext
  <2> QED  BY <2>1, <2>2
<1>8. ps1.cmds = <<M>>
  BY <1>6, PsrFields
<1> HIDE DEF ps1
<1>9. OpenMulti(ps, 1, n) = SetStack(SetCmds(ps1, <<M>> \o news), st \o tops)
  BY <1>7, <1>8 DEF OpenMulti, ps1, ps0
<1>10. SetStack(SetCmds(ps1, <<M>> \o news), st \o tops) = Psr(st \o tops, <<M>> \o news, e, 0)
  <2> DEFINE u == <<M>> \o news
             v == st \o tops
  <2> HIDE DEF u, v
  <2>1. SetStack(SetCmds(ps1, u), v) = Psr(v, u, e, 0)
    BY <1>6, SetPsr
  <2> QED  BY <2>1 DEF u, v
<1>11. st \o tops = Stack(n, 0)
  <2> DEFINE q == Stack(n, 0)
             s == st \o tops
  <2>1. IsStack(q, n, 0)
    BY StackShape
  <2>2. tops \in Seq(Nat) /\ Len(tops) = n /\ \A j \in 1 .. n : tops[j] = n + 2 - j
    <3>1. tops \in [1 .. n -> Nat] /\ \A j \in 1 .. n : tops[j] = n + 2 - j
      OBVIOUS
    <3> HIDE DEF tops
    <3> QED  BY <3>1
  <2> HIDE DEF tops, q
  <2>3. st \in Seq(Nat) /\ Len(st) = 1 /\ st[1] = 1
    BY DEF st
  <2>4. s \in Seq(Nat) /\ Len(s) = 1 + n
        /\ \A i \in 1 .. 1 + n : s[i] = IF i <= 1 THEN st[i] ELSE tops[i - 1]
    <3>1. s \in Seq(Nat) /\ Len(s) = Len(st) + Len(tops)
          /\ \A i \in 1 .. Len(st) + Len(tops) : s[i] = IF i <= Len(st) THEN st[i] ELSE tops[i - Len(st)]
      BY <2>2, <2>3, ConcatProperties
    <3> HIDE DEF s
    <3> QED  BY <2>2, <2>3, <3>1
  <2> HIDE DEF s
  <2>5. q \in Seq(Nat) /\ Len(q) = n + 1 /\ q[1] = 1 /\ \A x \in 2 .. n + 1 : q[x] = n + 3 - x
    BY <2>1 DEF IsStack
  <2>6. ASSUME NEW i \in 1 .. n + 1 PROVE s[i] = q[i]
    <3>1. CASE i = 1
      BY <2>3, <2>4, <2>5, <3>1
    <3>2. CASE i # 1
      <4>1. i \in 2 .. n + 1 /\ i - 1 \in 1 .. n /\ ~(i <= 1) /\ n + 2 - (i - 1) = n + 3 - i /\ i \in 1 .. 1 + n
        BY <3>2
      <4>2. s[i] = tops[i - 1] /\ tops[i - 1] = n + 2 - (i - 1)
        BY <2>2, <2>4, <4>1
      <4> QED  BY <2>5, <4>1, <4>2
    <3> QED  BY <3>1, <3>2
  <2>7. s = q
    BY <2>4, <2>5, <2>6, SeqEqual
  <2> QED  BY <2>7 DEF s, q
<1>12. <<M>> \o news = Cmds(r, n, 0, "mulit")
  <2> DEFINE q == Cmds(r, n, 0, "mulit")
             s == <<M>> \o news
             S == {M, Fresh}
  <2>1. IsCmds(q, r, n, 0, "mulit")
    BY CmdsShape
  <2>2. news \in Seq(S) /\ Len(news) = n /\ \A j \in 1 .. n : news[j] = Fresh
    <3>0. newRedisCommand = Fresh
      BY DEF newRedisCommand, Fresh, Cmd
    <3>1. news \in [1 .. n -> S] /\ \A j \in 1 .. n : news[j] = Fresh
      BY <3>0
    <3> HIDE DEF news, S
    <3> QED  BY <3>1
  <2>a. M = Multi(n, "mulit")
    OBVIOUS
  <2> HIDE DEF news, q, M
  <2>3. <<M>> \in Seq(S) /\ Len(<<M>>) = 1 /\ <<M>>[1] = M
    OBVIOUS
  <2>4. s \in Seq(S) /\ Len(s) = 1 + n
        /\ \A i \in 1 .. 1 + n : s[i] = IF i <= 1 THEN <<M>>[i] ELSE news[i - 1]
    <3> HIDE DEF S
    <3> QED  BY <2>2, <2>3, ConcatProperties
  <2> HIDE DEF s
  <2>5. /\ DOMAIN q = 1 .. n + 1 /\ IsFcn(q) /\ q[1] = M /\ \A x \in 2 .. n + 1 : q[x] = Fresh
    BY <2>1, <2>a DEF IsCmds
  <2>6. ASSUME NEW i \in 1 .. n + 1 PROVE s[i] = q[i]
    <3>1. CASE i = 1
      BY <2>3, <2>4, <2>5, <3>1
    <3>2. CASE i # 1
      <4>1. i \in 2 .. n + 1 /\ i - 1 \in 1 .. n /\ ~(i <= 1) /\ i \in 1 .. 1 + n
        BY <3>2
      <4>2. s[i] = news[i - 1] /\ news[i - 1] = Fresh
        BY <2>2, <2>4, <4>1
      <4> QED  BY <2>5, <4>1, <4>2
    <3> QED  BY <3>1, <3>2
  <2>7. DOMAIN s = 1 .. n + 1 /\ IsFcn(s)
    <3> HIDE DEF S
    <3> QED  BY <2>4 DEF IsFcn
  <2>8. s = q
    BY <2>5, <2>6, <2>7 DEF IsFcn
  <2> QED  BY <2>8 DEF s, q, M
<1> QED  BY <1>9, <1>10, <1>11, <1>12

-----------------------------------------------------------------------------
(* A request.                                                              *)

\* one more element takes the parser to y
LEMMA ReadsElement ==
  ASSUME NEW r, NEW n \in Nat, NEW k, k \in 0 .. n - 1, NEW k1, k1 = k + 1, IsValue(r[k1]),
         NEW bf, NEW al, NEW stx, NEW cmx,
         Pops(Stack(n, k), Cmds(r, n, k, "mulit"), k + 2, Bulk(r[k1]), stx, cmx),
         cmx[k + 2].status # "error"
  PROVE  /\ \E bf1, al1 : Reads(Psr(Stack(n, k), Cmds(r, n, k, "mulit"), bf, al), WrapBulk(r[k1]),
                                Psr(stx, cmx, bf1, al1))
         /\ WrapBulk(r[k1]) \in Seq(AnyByte)
<1> DEFINE c == k + 2
           v == r[k1]
           st == Stack(n, k)
           cm == Cmds(r, n, k, "mulit")
<1>1. c = k + 2
  OBVIOUS
<1> HIDE DEF c
<1>2. Context(st, cm, c) /\ Put(cm, c, Fresh) = cm
  BY <1>1, NextElement
<1>3. Pops(st, cm, c, Cmd("bulk", "end", v, 0, <<>>), stx, cmx) /\ cmx[c].status # "error"
  BY <1>1 DEF Bulk
<1>4. v = NoBytes \/ (v \in Seq(AnyByte) /\ Len(v) < 100)
  BY DEF IsValue
<1> HIDE DEF v, st, cm
<1>5. /\ \E bf1, al1 : Reads(Psr(st, Put(cm, c, Fresh), bf, al), WrapBulk(v), Psr(stx, cmx, bf1, al1))
      /\ WrapBulk(v) \in Seq(AnyByte)
  BY <1>2, <1>3, <1>4, ReadsBulk
<1> QED  BY <1>2, <1>5 DEF v, st, cm

\* the elements of a request
IsRequest(r, n) == n \in 0 .. 99 /\ Len(r) = n /\ \A j \in 1 .. n : IsValue(r[j])

\* An element as WrapBulk writes it is bytes.
LEMMA ElementBytes ==
  ASSUME NEW v, IsValue(v)
  PROVE  WrapBulk(v) \in Seq(AnyByte)
<1> DEFINE C == Cmd("bulk", "end", v, 0, <<>>)
           st == <<1>>
           stx == <<>>
           cmx == Put(One, 1, C)
<1>1. Pops(st, One, 1, C, stx, cmx)
  BY PopOne DEF Pops
<1>2. cmx[1].status # "error"
  <2>1. cmx = <<C>> /\ C.status = "end"
    BY OneContext, CmdFields
  <2> HIDE DEF cmx, C
  <2> QED  BY <2>1
<1>3. Context(st, One, 1)
  BY OneContext
<1> HIDE DEF st, stx, cmx
<1> QED  BY <1>1, <1>2, <1>3, ReadsBulk DEF IsValue

\* After the first line of a multi bulk its elements are on the stack, the first on top.
LEMMA Header ==
  ASSUME NEW r, NEW n, IsRequest(r, n)
  PROVE  /\ Line("*", Decimal(n)) \in Seq(AnyByte) /\ Line("*", Decimal(n)) # <<>>
         /\ Reads(NewParser, Line("*", Decimal(n)), Psr(Stack(n, 0), Cmds(r, n, 0, "mulit"), <<>>, 0))
<1> DEFINE text == Decimal(n)
           st == <<1>>
           e == WithCrlf(text)
           ps == Psr(st, Put(One, 1, InLine("mulit")), e, 0)
           y == Psr(Stack(n, 0), Cmds(r, n, 0, "mulit"), <<>>, 0)
<1>a. n \in 0 .. 99 /\ n \in Nat /\ ~(n < 0)
  BY DEF IsRequest
<1>0. text \in Seq(AnyByte) /\ (\A k \in 1 .. Len(text) : text[k] # CR) /\ IsNumber(text) /\ Atoi(text) = n
  BY <1>a, Decimals
<1> HIDE DEF text
<1>1. EndLine(ps, 1) = OpenMulti(ps, 1, n)
  <2>1. e = WithCrlf(text) /\ ps = Psr(st, Put(One, 1, InLine("mulit")), e, 0) /\ Context(st, One, 1)
    BY OneContext
  <2> HIDE DEF e, ps, st
  <2> QED  BY <1>0, <1>a, <2>1, EndOfLine
<1>2. OpenMulti(ps, 1, n) = Psr(Stack(n, 0), Cmds(r, n, 0, "mulit"), e, 0)
  <2> HIDE DEF e
  <2>1. ps = Psr(NewParser.stack, Put(One, 1, InLine("mulit")), e, 0)
    BY DEF NewParser
  <2> HIDE DEF ps
  <2> QED  BY <1>a, <2>1, OpensMulti
<1> HIDE DEF e
<1>3. SetBuffer(EndLine(ps, 1), <<>>) = y
  BY <1>1, <1>2, SetPsr
<1>4. y.cmds[1].status # "error"
  <2> DEFINE cm == Cmds(r, n, 0, "mulit")
             zero == 0
  <2>0. zero \in 0 .. n
    BY <1>a
  <2>1. IsCmds(cm, r, n, zero, "mulit")
    <3>1. cm = Cmds(r, n, zero, "mulit")
      OBVIOUS
    <3> HIDE DEF cm, zero
    <3> QED  BY <1>a, <2>0, <3>1, CmdsShape
  <2>2. y.cmds = cm
    BY PsrFields
  <2> HIDE DEF cm, y, zero
  <2> QED  BY <2>1, <2>2, Statuses DEF IsCmds
<1>5. "*" \in AnyByte
  BY DEF AnyByte
<1>6. Context(st, One, 1) /\ NewParser = Psr(st, Put(One, 1, Fresh), <<>>, 0)
  BY OneContext
<1>7. y = SetBuffer(EndLine(Psr(st, Put(One, 1, InLine("mulit")), WithCrlf(text), 0), 1), <<>>)
  BY <1>3 DEF e
<1>8. Reads(NewParser, Line("*", text), y)
  <2> HIDE DEF y, st
  <2> QED  BY <1>0, <1>4, <1>5, <1>6, <1>7, ReadsLine, Types
<1>9. Line("*", text) \in Seq(AnyByte) /\ Line("*", text) # <<>>
  BY <1>0, <1>5, LineBytes
<1> QED  BY <1>8, <1>9 DEF text

\* a parser that takes bytes and does nothing with them
Stuck(y) == ~Stopped(y) /\ y.cmds[Top(y)].status = "mulit"

\* A parser that is stuck ignores a byte,
LEMMA StuckStep ==
  ASSUME NEW y, Stuck(y), NEW b
  PROVE  Step(y, b) = y
  BY Dispatch DEF Stuck

\* and any number of them.
LEMMA StuckReads ==
  ASSUME NEW y, Stuck(y), NEW bs \in Seq(AnyByte)
  PROVE  Reads(y, bs, y)
<1> DEFINE h == [i \in Nat |-> y]
<1>1. Len(bs) \in Nat /\ \A i \in 0 .. Len(bs) - 1 : i \in Nat /\ i + 1 \in Nat
  OBVIOUS
<1>2. h[0] = y /\ h[Len(bs)] = y /\ \A i \in Nat : h[i] = y
  BY <1>1
<1> HIDE DEF h
<1>3. Path(h, bs)
  <2> SUFFICES ASSUME NEW i \in 0 .. Len(bs) - 1
               PROVE  ~Stopped(h[i]) /\ h[i + 1] = Step(h[i], bs[i + 1])
    BY DEF Path
  <2>1. h[i] = y /\ h[i + 1] = y
    BY <1>1, <1>2
  <2> QED  BY <2>1, StuckStep DEF Stuck
<1> QED  BY <1>2, <1>3 DEF Reads

\* An empty multi bulk.
LEMMA ReadsEmpty ==
  \E y : Reads(NewParser, Line("*", Decimal(0)), y) /\ Stuck(y)
<1> DEFINE n == 0
           r == <<>>
           st == Stack(n, 0)
           cm == Cmds(r, n, 0, "mulit")
           y == Psr(st, cm, <<>>, 0)
<1>1. IsRequest(r, n)
  BY DEF IsRequest
<1>2. Reads(NewParser, Line("*", Decimal(n)), y)
  <2> HIDE DEF n, r
  <2> QED  BY <1>1, Header
<1>3. n \in Nat /\ n \in 0 .. n
  OBVIOUS
<1>4. IsStack(st, n, n) /\ IsCmds(cm, r, n, n, "mulit")
  <2>1. st = Stack(n, n) /\ cm = Cmds(r, n, n, "mulit")
    OBVIOUS
  <2> HIDE DEF n, st, cm, r
  <2> QED  BY <1>3, <2>1, StackShape, CmdsShape
<1> HIDE DEF st, cm, r
<1>5. Len(st) = 1 /\ st[1] = 1 /\ st # <<>>
  <2>1. Len(st) = n - n + 1 /\ st[1] = 1
    <3> HIDE DEF n
    <3> QED  BY <1>4 DEF IsStack
  <2> QED  BY <2>1
<1>6. cm[1].status = "mulit"
  <2> HIDE DEF n
  <2> QED  BY <1>4, Statuses DEF IsCmds
<1>7. y.stack = st /\ y.cmds = cm /\ ~y.panic
  BY PsrFields
<1> HIDE DEF y
<1>8. Stuck(y)
  BY <1>5, <1>6, <1>7 DEF Stuck, Stopped, Top
<1> QED  BY <1>2, <1>8

\* r is the sequence of its n elements
Listed(r, n) == r = [j \in 1 .. n |-> r[j]]

\* the parser has k elements of r
Has(bs, r, n, k) ==
  /\ bs \in Seq(AnyByte) /\ bs # <<>>
  /\ \E bf, al : Reads(NewParser, bs, Psr(Stack(n, k), Cmds(r, n, k, "mulit"), bf, al))

\* One more element is read, and it is not the last.
LEMMA HasMore ==
  ASSUME NEW r, NEW n, IsRequest(r, n), NEW k, k \in 0 .. n - 2, NEW k1, k1 = k + 1,
         NEW bs, Has(bs, r, n, k)
  PROVE  Has(bs \o WrapBulk(r[k1]), r, n, k1)
<1> DEFINE c == k + 2
           w == WrapBulk(r[k1])
           cmx == Cmds(r, n, k1, "mulit")
<1>1. n \in Nat /\ k \in 0 .. n - 1 /\ k1 \in 1 .. n /\ k1 \in 0 .. n /\ c \in 2 .. k1 + 1 /\ c = k + 2
  BY DEF IsRequest
<1>2. IsValue(r[k1])
  BY <1>1 DEF IsRequest
<1>3. Pops(Stack(n, k), Cmds(r, n, k, "mulit"), c, Bulk(r[k1]), Stack(n, k1), cmx)
  <2> HIDE DEF c
  <2> QED  BY <1>1, PopElement
<1>4. cmx[c].status # "error"
  <2>1. IsCmds(cmx, r, n, k1, "mulit")
    BY <1>1, CmdsShape
  <2> HIDE DEF cmx
  <2>2. cmx[c] = Bulk(r[c - 1])
    BY <1>1, <2>1 DEF IsCmds
  <2> QED  BY <2>2, Statuses
<1>5. PICK bf, al : Reads(NewParser, bs, Psr(Stack(n, k), Cmds(r, n, k, "mulit"), bf, al))
  BY DEF Has
<1> HIDE DEF cmx
<1>6. /\ \E bf1, al1 : Reads(Psr(Stack(n, k), Cmds(r, n, k, "mulit"), bf, al), w,
                             Psr(Stack(n, k1), cmx, bf1, al1))
      /\ w \in Seq(AnyByte)
  BY <1>1, <1>2, <1>3, <1>4, ReadsElement
<1>7. PICK bf1, al1 : Reads(Psr(Stack(n, k), Cmds(r, n, k, "mulit"), bf, al), w,
                            Psr(Stack(n, k1), cmx, bf1, al1))
  BY <1>6
<1> DEFINE x == Psr(Stack(n, k), Cmds(r, n, k, "mulit"), bf, al)
           y == Psr(Stack(n, k1), cmx, bf1, al1)
<1> HIDE DEF x, y, w
<1>8. bs \in Seq(AnyByte) /\ bs # <<>>
  BY DEF Has
<1>9. Reads(NewParser, bs \o w, y)
  <2>1. Reads(NewParser, bs, x) /\ Reads(x, w, y)
    BY <1>5, <1>7 DEF x, y
  <2> QED  BY <1>6, <1>8, <2>1, ReadsBoth
<1>10. bs \o w \in Seq(AnyByte) /\ bs \o w # <<>>
  <2>1. bs \o w \in Seq(AnyByte) /\ Len(bs \o w) = Len(bs) + Len(w) /\ Len(bs) # 0
        /\ Len(bs) \in Nat /\ Len(w) \in Nat
    BY <1>6, <1>8, ConcatProperties, EmptySeq
  <2>2. Len(bs \o w) # 0
    BY <2>1
  <2> QED  BY <2>1, <2>2
<1>11. \E bf2, al2 : Reads(NewParser, bs \o w, Psr(Stack(n, k1), Cmds(r, n, k1, "mulit"), bf2, al2))
  BY <1>9 DEF y, cmx
<1> QED  BY <1>10, <1>11 DEF Has, w

\* The parser is done and has r.
Complete(r, y) == y.stack = <<>> /\ ~y.panic /\ OK(y) /\ Argv(y) = r

\* A parser with all elements has the argv that was written.
LEMMA HasAll ==
  ASSUME NEW r, NEW n, IsRequest(r, n), n # 0, Listed(r, n),
         NEW bf, NEW al, NEW y, y = Psr(<<>>, Cmds(r, n, n, "end"), bf, al)
  PROVE  Complete(r, y)
<1> DEFINE cm == Cmds(r, n, n, "end")
<1>1. n \in Nat /\ n \in 0 .. n
  BY DEF IsRequest
<1>2. IsCmds(cm, r, n, n, "end")
  BY <1>1, CmdsShape
<1>3. y.stack = <<>> /\ ~y.panic /\ y.cmds = cm
  BY PsrFields
<1> HIDE DEF cm
<1>4. cm[1] = Multi(n, "end") /\ \A c \in 2 .. n + 1 : cm[c] = Bulk(r[c - 1])
  BY <1>1, <1>2 DEF IsCmds
<1>5. OK(y)
  BY <1>3, <1>4, Statuses DEF OK
<1> DEFINE ids == Ids(n)
<1>6. y.cmds[1].commands = ids
  BY <1>3, <1>4, Statuses
<1>7. DOMAIN ids = 1 .. n /\ \A j \in 1 .. n : ids[j] = 1 + j
  BY DEF Ids
<1> HIDE DEF ids
<1>8. Argv(y) = [j \in DOMAIN ids |-> cm[ids[j]].bytes]
  BY <1>3, <1>6 DEF Argv
<1>9. ASSUME NEW j \in 1 .. n PROVE cm[ids[j]].bytes = r[j]
  <2>1. ids[j] \in 2 .. n + 1 /\ ids[j] - 1 = j
    BY <1>1, <1>7
  <2>2. cm[ids[j]] = Bulk(r[ids[j] - 1])
    BY <1>4, <2>1
  <2>3. cm[ids[j]] = Bulk(r[j])
    BY <2>1, <2>2
  <2> QED  BY <2>3, Statuses
<1>10. Argv(y) = r
  <2>1. [j \in DOMAIN ids |-> cm[ids[j]].bytes] = [j \in 1 .. n |-> r[j]]
    BY <1>7, <1>9
  <2> QED  BY <1>8, <2>1 DEF Listed
<1> QED  BY <1>3, <1>5, <1>10 DEF Complete

\* The last element finishes the multi bulk.
LEMMA HasLast ==
  ASSUME NEW r, NEW n, IsRequest(r, n), Listed(r, n), n # 0, NEW k, k = n - 1,
         NEW bs, Has(bs, r, n, k)
  PROVE  /\ bs \o WrapBulk(r[n]) \in Seq(AnyByte) /\ bs \o WrapBulk(r[n]) # <<>>
         /\ \E y : Reads(NewParser, bs \o WrapBulk(r[n]), y) /\ Complete(r, y)
<1> DEFINE c == k + 2
           w == WrapBulk(r[n])
           cmx == Cmds(r, n, n, "end")
           stx == <<>>
<1>1. n \in Nat /\ k \in 0 .. n - 1 /\ n \in 1 .. n /\ n \in 0 .. n /\ c \in 2 .. n + 1 /\ c = k + 2 /\ n = k + 1
  BY DEF IsRequest
<1>2. IsValue(r[n])
  BY <1>1 DEF IsRequest
<1>3. Pops(Stack(n, k), Cmds(r, n, k, "mulit"), c, Bulk(r[n]), stx, cmx)
  <2> HIDE DEF c
  <2> QED  BY <1>1, PopLast
<1>4. cmx[c].status # "error"
  <2>1. IsCmds(cmx, r, n, n, "end")
    BY <1>1, CmdsShape
  <2> HIDE DEF cmx
  <2>2. cmx[c] = Bulk(r[c - 1])
    BY <1>1, <2>1 DEF IsCmds
  <2> QED  BY <2>2, Statuses
<1>5. PICK bf, al : Reads(NewParser, bs, Psr(Stack(n, k), Cmds(r, n, k, "mulit"), bf, al))
  BY DEF Has
<1> HIDE DEF cmx, stx
<1>6. /\ \E bf1, al1 : Reads(Psr(Stack(n, k), Cmds(r, n, k, "mulit"), bf, al), w,
                             Psr(stx, cmx, bf1, al1))
      /\ w \in Seq(AnyByte)
  BY <1>1, <1>2, <1>3, <1>4, ReadsElement
<1>7. PICK bf1, al1 : Reads(Psr(Stack(n, k), Cmds(r, n, k, "mulit"), bf, al), w,
                            Psr(stx, cmx, bf1, al1))
  BY <1>6
<1> DEFINE x == Psr(Stack(n, k), Cmds(r, n, k, "mulit"), bf, al)
           y == Psr(stx, cmx, bf1, al1)
<1>a. Complete(r, y)
  BY HasAll DEF cmx, stx
<1> HIDE DEF x, y, w
<1>8. bs \in Seq(AnyByte) /\ bs # <<>>
  BY DEF Has
<1>9. Reads(NewParser, bs \o w, y)
  <2>1. Reads(NewParser, bs, x) /\ Reads(x, w, y)
    BY <1>5, <1>7 DEF x, y
  <2> QED  BY <1>6, <1>8, <2>1, ReadsBoth
<1>10. bs \o w \in Seq(AnyByte) /\ bs \o w # <<>>
  <2>1. bs \o w \in Seq(AnyByte) /\ Len(bs \o w) = Len(bs) + Len(w) /\ Len(bs) # 0
        /\ Len(bs) \in Nat /\ Len(w) \in Nat
    BY <1>6, <1>8, ConcatProperties, EmptySeq
  <2>2. Len(bs \o w) # 0
    BY <2>1
  <2> QED  BY <2>1, <2>2
<1> QED  BY <1>a, <1>9, <1>10 DEF w

\* A multi bulk with elements is read whole.
LEMMA ReadsMulti ==
  ASSUME NEW r, NEW n, IsRequest(r, n), Listed(r, n), n # 0
  PROVE  /\ WrapMulitBulk(r) \in Seq(AnyByte) /\ WrapMulitBulk(r) # <<>>
         /\ \E y : Reads(NewParser, WrapMulitBulk(r), y) /\ Complete(r, y)
<1>1. n \in Nat /\ Len(r) = n /\ n - 1 \in Nat /\ (n - 1) + 1 = n /\ n - 1 < n
  BY DEF IsRequest
<1>2. ASSUME NEW k \in Nat, k < n PROVE WrapBulk(r[k + 1]) \in Seq(AnyByte)
  <2>1. k + 1 \in 1 .. n
    BY <1>1, <1>2
  <2>2. IsValue(r[k + 1])
    BY <2>1 DEF IsRequest
  <2> QED  BY <2>2, ElementBytes
<1>3. Line("*", Decimal(n)) \in Seq(AnyByte)
  BY Header
<1>4. PICK wc : IsWrap(wc, r, n) /\ WrapMulitBulk(r) = wc[n]
  BY <1>1, <1>2, <1>3, WrapLoop
<1> DEFINE T == {k \in Nat : k < n => Has(wc[k], r, n, k)}
<1>5. 0 \in T
  <2>1. wc[0] = Line("*", Decimal(n))
    BY <1>4 DEF IsWrap
  <2>2. Has(wc[0], r, n, 0)
    BY <2>1, Header DEF Has
  <2> QED  BY <2>2
<1>6. ASSUME NEW k \in Nat, k \in T PROVE k + 1 \in T
  <2> DEFINE k1 == k + 1
  <2> SUFFICES ASSUME k1 < n PROVE Has(wc[k1], r, n, k1)
    OBVIOUS
  <2>1. k \in 0 .. n - 2 /\ k < n /\ k1 = k + 1
    BY <1>1
  <2>2. Has(wc[k], r, n, k) /\ wc[k1] = wc[k] \o WrapBulk(r[k1])
    BY <1>4, <1>6, <2>1 DEF IsWrap
  <2> HIDE DEF k1
  <2> QED  BY <2>1, <2>2, HasMore
<1>7. Nat \subseteq T
  <2> HIDE DEF T
  <2> QED  BY <1>5, <1>6, SetInduction
<1> DEFINE k == n - 1
<1>8. Has(wc[k], r, n, k)
  BY <1>1, <1>7
<1>9. wc[n] = wc[k] \o WrapBulk(r[n])
  <2>1. wc[k + 1] = wc[k] \o WrapBulk(r[k + 1])
    BY <1>1, <1>4 DEF IsWrap
  <2> QED  BY <1>1, <2>1
<1>10. k = n - 1
  OBVIOUS
<1> HIDE DEF k
<1> QED  BY <1>4, <1>8, <1>9, <1>10, HasLast

\* What becomes of a request when its bytes have been read.
Served(r, y) ==
  \/ r = NegMulti /\ y.panic
  \/ r = <<>> /\ Stuck(y)
  \/ r = BadLine /\ y.stack = <<>> /\ ~y.panic /\ ~OK(y)
  \/ r \notin {NegMulti, BadLine} /\ Complete(r, y)

\* What the parser makes of each request: the argv that was written, a panic of a
\* negative length, a stuck parser of an empty multi bulk, a command that is not OK of
\* any other line.
LEMMA ReadsRequest ==
  ASSUME RedisServerAssumption, NEW r \in Queries \cup Piped
  PROVE  /\ Encode(r) \in Seq(AnyByte) /\ Encode(r) # <<>>
         /\ \E y : Reads(NewParser, Encode(r), y) /\ Served(r, y)
<1>0. "x" \in AnyByte /\ "*" \in AnyByte
  BY DEF AnyByte
<1>1. CASE r = BadLine
  <2> DEFINE text == <<>>
  <2>1. text \in Seq(AnyByte) /\ \A i \in 1 .. Len(text) : text[i] # CR
    OBVIOUS
  <2> HIDE DEF text
  <2>2. PICK y : Reads(NewParser, Line("x", text), y) /\ y.stack = <<>> /\ ~y.panic /\ y.cmds[1].type = "unknown"
    BY <1>0, <2>1, ReadsOneLine, Types
  <2>3. Encode(r) = Line("x", text)
    BY <1>1 DEF Encode, text
  <2>4. Line("x", text) \in Seq(AnyByte) /\ Line("x", text) # <<>>
    BY <1>0, <2>1, LineBytes
  <2>5. Served(r, y)
    BY <1>1, <2>2 DEF Served, OK
  <2> QED  BY <2>2, <2>3, <2>4, <2>5
<1>2. CASE r = NegMulti
  <2>1. BadLine # NegMulti
    <3>1. BadLine[1][2] = "x" /\ NegMulti[1][2] = "*" /\ "x" # "*"
      BY DEF BadLine, NegMulti
    <3> QED  BY <3>1
  <2>2. PICK y : Reads(NewParser, Line("*", <<"-", "1">>), y) /\ y.panic
    BY ReadsNegMulti
  <2> DEFINE text == <<"-", "1">>
  <2>3. text \in Seq(AnyByte)
    BY MinusOne
  <2>4. Encode(r) = Line("*", text)
    BY <1>2, <2>1 DEF Encode
  <2> HIDE DEF text
  <2>5. Line("*", text) \in Seq(AnyByte) /\ Line("*", text) # <<>>
    BY <1>0, <2>3, LineBytes
  <2>6. Served(r, y)
    BY <1>2, <2>2 DEF Served
  <2> QED  BY <2>2, <2>4, <2>5, <2>6 DEF text
<1>3. CASE r \notin {BadLine, NegMulti}
  <2>1. IsArgv(r) /\ Encode(r) = WrapMulitBulk(r)
    BY <1>3 DEF RedisServerAssumption, Encode
  <2> DEFINE V == Seq(Byte) \cup {NoBytes}
             n == Len(r)
  <2>2. r \in Seq(V) /\ n < 100 /\ \A i \in 1 .. n : Len(r[i]) < 100
    BY <2>1 DEF IsArgv
  <2>3. n \in Nat /\ n \in 0 .. 99 /\ Listed(r, n) /\ \A i \in 1 .. n : r[i] \in V
    <3> HIDE DEF V
    <3>1. n \in Nat
      BY <2>2
    <3>2. n \in 0 .. 99
      <4> HIDE DEF n
      <4> QED  BY <2>2, <3>1
    <3>3. Listed(r, n)
      BY <2>2 DEF Listed
    <3>4. \A i \in 1 .. n : r[i] \in V
      BY <2>2
    <3> QED  BY <3>1, <3>2, <3>3, <3>4
  <2>4. ASSUME NEW i \in 1 .. n PROVE IsValue(r[i])
    <3> DEFINE v == r[i]
    <3>1. v \in V /\ Len(v) < 100
      BY <2>2, <2>3
    <3> HIDE DEF v
    <3>2. CASE v = NoBytes
      BY <3>2 DEF IsValue, v
    <3>3. CASE v \in Seq(Byte)
      <4>1. v \in Seq(AnyByte)
        <5>1. Byte \subseteq AnyByte
          BY DEF AnyByte
        <5> QED  BY <3>3, <5>1
      <4> QED  BY <3>1, <4>1 DEF IsValue, v
    <3> QED  BY <3>1, <3>2, <3>3
  <2>5. IsRequest(r, n)
    BY <2>3, <2>4 DEF IsRequest
  <2>6. CASE n = 0
    <3>1. r = <<>>
      <4> HIDE DEF V
      <4> QED  BY <2>2, <2>6, EmptySeq
    <3>2. PICK wc : IsWrap(wc, r, n) /\ WrapMulitBulk(r) = wc[n]
      <4>1. \A k \in Nat : ~(k < n)
        BY <2>6
      <4>2. Line("*", Decimal(n)) \in Seq(AnyByte)
        BY <2>5, Header
      <4> HIDE DEF n, V
      <4>3. n = Len(r)
        BY DEF n
      <4> QED  BY <2>3, <4>1, <4>2, <4>3, WrapLoop
    <3>3. WrapMulitBulk(r) = Line("*", Decimal(0))
      BY <2>6, <3>2 DEF IsWrap
    <3>4. PICK y : Reads(NewParser, Line("*", Decimal(0)), y) /\ Stuck(y)
      BY ReadsEmpty
    <3>5. Served(r, y)
      BY <3>1, <3>4 DEF Served
    <3>6. Line("*", Decimal(n)) \in Seq(AnyByte) /\ Line("*", Decimal(n)) # <<>>
      BY <2>5, Header
    <3> QED  BY <2>1, <2>6, <3>3, <3>4, <3>5, <3>6
  <2>7. CASE n # 0
    <3> HIDE DEF n
    <3>1. /\ WrapMulitBulk(r) \in Seq(AnyByte) /\ WrapMulitBulk(r) # <<>>
          /\ \E y : Reads(NewParser, WrapMulitBulk(r), y) /\ Complete(r, y)
      BY <2>3, <2>5, <2>7, ReadsMulti
    <3>2. PICK y : Reads(NewParser, WrapMulitBulk(r), y) /\ Complete(r, y)
      BY <3>1
    <3>3. Served(r, y)
      BY <1>3, <3>2 DEF Served
    <3> QED  BY <2>1, <3>1, <3>2, <3>3
  <2> QED  BY <2>6, <2>7
<1> QED  BY <1>1, <1>2, <1>3

-----------------------------------------------------------------------------
(* The stream of requests.                                                 *)

Bytes == Seq(AnyByte)
Requests == Queries \cup Piped

\* one stream and then another
Cat(a, b) == a \o b

\* Two ways to cut one stream.
LEMMA TwoCuts ==
  ASSUME NEW S, NEW a \in Seq(S), NEW b \in Seq(S), NEW c \in Seq(S), NEW d \in Seq(S),
         Cat(a, b) = Cat(c, d), Len(a) <= Len(c)
  PROVE  \E m \in Seq(S) : c = Cat(a, m) /\ b = Cat(m, d)
<1> DEFINE m == SubSeq(c, Len(a) + 1, Len(c))
           e == a \o b
           f == c \o d
           am == a \o m
           md == m \o d
<1>1. Len(a) \in Nat /\ Len(b) \in Nat /\ Len(c) \in Nat /\ Len(d) \in Nat
  OBVIOUS
<1>2. /\ Len(e) = Len(a) + Len(b)
      /\ \A i \in 1 .. Len(a) + Len(b) : e[i] = IF i <= Len(a) THEN a[i] ELSE b[i - Len(a)]
      /\ Len(f) = Len(c) + Len(d)
      /\ \A i \in 1 .. Len(c) + Len(d) : f[i] = IF i <= Len(c) THEN c[i] ELSE d[i - Len(c)]
  BY ConcatProperties
<1>3. m \in Seq(S) /\ Len(m) = Len(c) - Len(a) /\ \A i \in 1 .. Len(c) - Len(a) : m[i] = c[Len(a) + i]
  <2>1. Len(a) + 1 \in 1 .. Len(c) + 1 /\ Len(c) \in (Len(a) + 1) - 1 .. Len(c)
        /\ Len(c) - (Len(a) + 1) + 1 = Len(c) - Len(a)
        /\ \A i \in 1 .. Len(c) - Len(a) : (Len(a) + 1) + i - 1 = Len(a) + i
    BY <1>1
  <2> QED  BY <2>1, Slices
<1>4. e = f
  BY DEF Cat
<1> HIDE DEF m, e, f
<1>5. /\ am \in Seq(S) /\ Len(am) = Len(a) + Len(m)
      /\ \A i \in 1 .. Len(a) + Len(m) : am[i] = IF i <= Len(a) THEN a[i] ELSE m[i - Len(a)]
      /\ md \in Seq(S) /\ Len(md) = Len(m) + Len(d)
      /\ \A i \in 1 .. Len(m) + Len(d) : md[i] = IF i <= Len(m) THEN m[i] ELSE d[i - Len(m)]
  BY <1>3, ConcatProperties
<1> HIDE DEF am, md
<1>6. Len(b) = Len(md) /\ Len(am) = Len(c)
  <2>1. Len(a) + Len(b) = Len(c) + Len(d) /\ Len(m) = Len(c) - Len(a) /\ Len(am) = Len(a) + Len(m)
        /\ Len(md) = Len(m) + Len(d)
    BY <1>2, <1>3, <1>4, <1>5
  <2> QED  BY <1>1, <2>1
<1>7. ASSUME NEW i \in 1 .. Len(c) PROVE am[i] = c[i]
  <2>1. CASE i <= Len(a)
    <3>1. i \in 1 .. Len(a) + Len(b) /\ i \in 1 .. Len(c) + Len(d) /\ i <= Len(c) /\ i \in 1 .. Len(a) + Len(m)
      BY <1>1, <1>3, <2>1
    <3> QED  BY <1>2, <1>4, <1>5, <2>1, <3>1
  <2>2. CASE ~(i <= Len(a))
    <3>1. i \in 1 .. Len(a) + Len(m) /\ i - Len(a) \in 1 .. Len(c) - Len(a) /\ Len(a) + (i - Len(a)) = i
      BY <1>1, <1>3, <2>2
    <3>2. am[i] = m[i - Len(a)]
      BY <1>5, <2>2, <3>1
    <3>3. m[i - Len(a)] = c[Len(a) + (i - Len(a))]
      BY <1>3, <3>1
    <3> QED  BY <3>1, <3>2, <3>3
  <2> QED  BY <2>1, <2>2
<1>8. ASSUME NEW i \in 1 .. Len(b) PROVE b[i] = md[i]
  <2> DEFINE j == Len(a) + i
  <2>1. j \in 1 .. Len(a) + Len(b) /\ j \in 1 .. Len(c) + Len(d) /\ ~(j <= Len(a)) /\ j - Len(a) = i
        /\ i \in 1 .. Len(m) + Len(d)
    BY <1>1, <1>2, <1>3, <1>4
  <2>2. e[j] = b[i]
    BY <1>2, <2>1
  <2>3. CASE i <= Len(m)
    <3>1. j <= Len(c) /\ i \in 1 .. Len(c) - Len(a)
      BY <1>1, <1>3, <2>3
    <3>2. f[j] = c[j] /\ m[i] = c[j]
      BY <1>2, <1>3, <2>1, <3>1
    <3>3. md[i] = m[i]
      BY <1>5, <2>1, <2>3
    <3> QED  BY <1>4, <2>2, <3>2, <3>3
  <2>4. CASE ~(i <= Len(m))
    <3>1. ~(j <= Len(c)) /\ j - Len(c) = i - Len(m)
      BY <1>1, <1>3, <2>4
    <3>2. f[j] = d[j - Len(c)]
      BY <1>2, <2>1, <3>1
    <3>3. md[i] = d[i - Len(m)]
      BY <1>5, <2>1, <2>4
    <3> QED  BY <1>4, <2>2, <3>1, <3>2, <3>3
  <2> QED  BY <2>3, <2>4
<1>9. am = c
  BY <1>5, <1>6, <1>7, SeqEqual
<1>10. b = md
  BY <1>5, <1>6, <1>8, SeqEqual
<1>11. c = Cat(a, m) /\ b = Cat(m, d)
  BY <1>9, <1>10 DEF am, md, Cat
<1> QED  BY <1>3, <1>11

\* The first k bytes and the others.
LEMMA Divided ==
  ASSUME NEW S, NEW w \in Seq(S), NEW k \in 0 .. Len(w)
  PROVE  /\ SubSeq(w, 1, k) \in Seq(S) /\ SubSeq(w, k + 1, Len(w)) \in Seq(S)
         /\ Len(SubSeq(w, 1, k)) = k /\ Len(SubSeq(w, k + 1, Len(w))) = Len(w) - k
         /\ w = SubSeq(w, 1, k) \o SubSeq(w, k + 1, Len(w))
<1> DEFINE a == SubSeq(w, 1, k)
           b == SubSeq(w, k + 1, Len(w))
           e == a \o b
<1>0. Len(w) \in Nat /\ k \in Nat /\ k <= Len(w)
  OBVIOUS
<1>1. a \in Seq(S) /\ Len(a) = k /\ \A i \in 1 .. k : a[i] = w[i]
  <2>1. 1 \in 1 .. Len(w) + 1 /\ k \in 1 - 1 .. Len(w) /\ k - 1 + 1 = k /\ \A i \in 1 .. k : 1 + i - 1 = i
    BY <1>0
  <2> QED  BY <2>1, Slices
<1>2. b \in Seq(S) /\ Len(b) = Len(w) - k /\ \A i \in 1 .. Len(w) - k : b[i] = w[k + i]
  <2>1. k + 1 \in 1 .. Len(w) + 1 /\ Len(w) \in (k + 1) - 1 .. Len(w)
        /\ Len(w) - (k + 1) + 1 = Len(w) - k
        /\ \A i \in 1 .. Len(w) - k : (k + 1) + i - 1 = k + i
    BY <1>0
  <2> DEFINE k1 == k + 1
             l == Len(w)
  <2>2. k1 \in 1 .. Len(w) + 1 /\ l \in k1 - 1 .. Len(w) /\ l - k1 + 1 = Len(w) - k
        /\ \A i \in 1 .. Len(w) - k : k1 + i - 1 = k + i
    BY <2>1
  <2>3. b = SubSeq(w, k1, l)
    OBVIOUS
  <2> HIDE DEF k1, l
  <2>4. SubSeq(w, k1, l) \in Seq(S) /\ Len(SubSeq(w, k1, l)) = l - k1 + 1
        /\ \A i \in 1 .. l - k1 + 1 : SubSeq(w, k1, l)[i] = w[k1 + i - 1]
    BY <2>2, Slices
  <2> HIDE DEF b
  <2> QED  BY <2>2, <2>3, <2>4
<1> HIDE DEF a, b
<1>3. e \in Seq(S) /\ Len(e) = Len(a) + Len(b)
      /\ \A i \in 1 .. Len(a) + Len(b) : e[i] = IF i <= Len(a) THEN a[i] ELSE b[i - Len(a)]
  BY <1>1, <1>2, ConcatProperties
<1> HIDE DEF e
<1>4. Len(e) = Len(w)
  BY <1>0, <1>1, <1>2, <1>3
<1>5. ASSUME NEW i \in 1 .. Len(w) PROVE e[i] = w[i]
  <2>1. i \in 1 .. Len(a) + Len(b)
    BY <1>0, <1>1, <1>2
  <2>2. CASE i <= k
    BY <1>1, <1>3, <2>1, <2>2
  <2>3. CASE ~(i <= k)
    <3>1. i - k \in 1 .. Len(w) - k /\ k + (i - k) = i
      BY <1>0, <2>3
    <3>2. e[i] = b[i - k]
      BY <1>1, <1>3, <2>1, <2>3
    <3>3. b[i - k] = w[k + (i - k)]
      BY <1>2, <3>1
    <3> QED  BY <3>1, <3>2, <3>3
  <2> QED  BY <2>2, <2>3
<1>6. e = w
  BY <1>3, <1>4, <1>5, SeqEqual
<1> QED  BY <1>1, <1>2, <1>6 DEF a, b, e

\* What is left of a stream after its first part.
LEMMA RestOf ==
  ASSUME NEW a \in Bytes, NEW b \in Bytes, NEW n, n = Len(a)
  PROVE  Rest(a \o b, n) = b
<1> DEFINE e == a \o b
           q == SubSeq(e, n + 1, Len(e))
<1>1. e \in Bytes /\ Len(e) = Len(a) + Len(b) /\ Len(a) \in Nat /\ Len(b) \in Nat
      /\ \A i \in 1 .. Len(a) + Len(b) : e[i] = IF i <= Len(a) THEN a[i] ELSE b[i - Len(a)]
  BY ConcatProperties DEF Bytes
<1> HIDE DEF e
<1>2. q \in Bytes /\ Len(q) = Len(b) /\ \A i \in 1 .. Len(b) : q[i] = e[n + i]
  <2>1. n + 1 \in 1 .. Len(e) + 1 /\ Len(e) \in (n + 1) - 1 .. Len(e)
        /\ Len(e) - (n + 1) + 1 = Len(b)
        /\ \A i \in 1 .. Len(b) : (n + 1) + i - 1 = n + i
    BY <1>1
  <2> QED  BY <1>1, <2>1, Slices DEF Bytes
<1>3. ASSUME NEW i \in 1 .. Len(b) PROVE q[i] = b[i]
  <2>1. n + i \in 1 .. Len(a) + Len(b) /\ ~(n + i <= Len(a)) /\ (n + i) - Len(a) = i
    BY <1>1
  <2>2. e[n + i] = b[i]
    BY <1>1, <2>1
  <2> HIDE DEF q
  <2> QED  BY <1>2, <2>2
<1> HIDE DEF q
<1>4. q = b
  BY <1>2, <1>3, SeqEqual DEF Bytes
<1> QED  BY <1>4 DEF q, e, Rest

\* The empty stream.
LEMMA NoBytesLeft ==
  /\ <<>> \in Bytes /\ Len(<<>>) = 0
  /\ \A a \in Bytes : <<>> \o a = a /\ a \o <<>> = a /\ (Len(a) = 0 <=> a = <<>>)
  /\ \A a, b \in Bytes : a \o b \in Bytes /\ Len(a \o b) = Len(a) + Len(b) /\ (a \o b = <<>> => a = <<>> /\ b = <<>>)
<1>1. <<>> \in Bytes /\ Len(<<>>) = 0 /\ \A a \in Bytes : Len(a) = 0 <=> a = <<>>
  BY EmptySeq DEF Bytes
<1>2. \A a \in Bytes : <<>> \o a = a /\ a \o <<>> = a
  BY ConcatEmptySeq DEF Bytes
<1>3. ASSUME NEW a \in Bytes, NEW b \in Bytes
      PROVE  a \o b \in Bytes /\ Len(a \o b) = Len(a) + Len(b) /\ (a \o b = <<>> => a = <<>> /\ b = <<>>)
  <2>1. a \o b \in Bytes /\ Len(a \o b) = Len(a) + Len(b) /\ Len(a) \in Nat /\ Len(b) \in Nat
    BY ConcatProperties DEF Bytes
  <2>2. ASSUME a \o b = <<>> PROVE a = <<>> /\ b = <<>>
    <3>1. Len(a) + Len(b) = 0
      BY <1>1, <2>1, <2>2
    <3>2. Len(a) = 0 /\ Len(b) = 0
      BY <2>1, <3>1
    <3> QED  BY <1>1, <3>2
  <2> QED  BY <2>1, <2>2
<1> QED  BY <1>1, <1>2, <1>3

\* Two streams are a stream,
LEMMA CatBytes ==
  ASSUME NEW a \in Bytes, NEW b \in Bytes
  PROVE  /\ Cat(a, b) \in Bytes /\ Len(Cat(a, b)) = Len(a) + Len(b)
         /\ Len(a) \in Nat /\ Len(b) \in Nat
         /\ Cat(a, b) = <<>> => a = <<>> /\ b = <<>>
<1>1. Len(a) \in Nat /\ Len(b) \in Nat
  BY DEF Bytes
<1> QED  BY <1>1, NoBytesLeft DEF Cat

\* the empty one changes nothing,
LEMMA CatNone ==
  /\ <<>> \in Bytes /\ \A a \in Bytes : Cat(<<>>, a) = a /\ Cat(a, <<>>) = a
  BY NoBytesLeft DEF Cat

\* and three can be put together either way.
LEMMA CatThree ==
  ASSUME NEW a \in Bytes, NEW b \in Bytes, NEW c \in Bytes
  PROVE  Cat(Cat(a, b), c) = Cat(a, Cat(b, c))
<1>1. (a \o b) \o c = a \o (b \o c)
  BY ConcatAssociative DEF Bytes
<1> QED  BY <1>1 DEF Cat

\* Two streams are read one after the other,
LEMMA CatReads ==
  ASSUME NEW a \in Bytes, NEW b \in Bytes, NEW x, NEW y, NEW z, Reads(x, a, y), Reads(y, b, z)
  PROVE  Reads(x, Cat(a, b), z)
<1>1. Reads(x, a \o b, z)
  BY ReadsBoth DEF Bytes
<1> QED  BY <1>1 DEF Cat

\* and a stream that is read can be cut anywhere before its end.
LEMMA CatCut ==
  ASSUME NEW a \in Bytes, NEW b \in Bytes, b # <<>>, NEW x, NEW z, Reads(x, Cat(a, b), z)
  PROVE  \E y : Reads(x, a, y) /\ Reads(y, b, z) /\ ~Stopped(y)
<1>1. Reads(x, a \o b, z)
  BY DEF Cat
<1> QED  BY <1>1, ReadsCut DEF Bytes

\* Write on bytes that the parser takes all of, and on bytes at which it stops.
LEMMA WritesAll ==
  ASSUME NEW a \in Bytes, NEW x, NEW y, Reads(x, a, y), NEW o, o = Write(x, a)
  PROVE  o.ps = y /\ o.n = Len(a) /\ Rest(a, o.n) = <<>>
<1> DEFINE b == <<>>
<1>1. b = <<>> /\ b \in Bytes /\ a \o b = a
  BY NoBytesLeft
<1> HIDE DEF b
<1>2. Write(x, a \o b) = [n |-> Len(a), ps |-> y]
  BY <1>1, WriteReads DEF Bytes
<1>3. o.n = Len(a) /\ o.ps = y
  BY <1>1, <1>2
<1>4. Rest(a \o b, Len(a)) = b
  BY <1>1, RestOf
<1> QED  BY <1>1, <1>3, <1>4

\* Write leaves what comes after the byte at which the parser stops.
LEMMA WritesSome ==
  ASSUME NEW a \in Bytes, NEW b \in Bytes, NEW x, NEW y, Reads(x, a, y), Stopped(y),
         NEW o, o = Write(x, Cat(a, b))
  PROVE  o.ps = y /\ Rest(Cat(a, b), o.n) = b
<1>2. Write(x, a \o b) = [n |-> Len(a), ps |-> y]
  BY WriteReads DEF Bytes
<1>3. o.n = Len(a) /\ o.ps = y
  BY <1>2 DEF Cat
<1>4. Rest(a \o b, Len(a)) = b
  BY RestOf
<1> QED  BY <1>3, <1>4 DEF Cat

\* F[j] are the bytes of the requests from the j-th on
Chain(F, s) ==
  /\ F \in [Nat -> Bytes]
  /\ \A j \in Nat : j > Len(s) => F[j] = <<>>
  /\ \A j \in 1 .. Len(s) : F[j] = Cat(Encode(s[j]), F[j + 1])

\* rest is what the parser ps has not had of the next request
Under(F, s, u, bf, w, ps, rest, y) ==
  /\ rest \in Bytes /\ rest # <<>> /\ Reads(ps, rest, y) /\ Served(s[u + 1], y)
  /\ Cat(bf, w) = Cat(rest, F[u + 2])

\* The server has understood u of the requests s; bf and w hold the others
Flow(s, u, bf, w, ps) ==
  \E F : /\ Chain(F, s)
         /\ \/ u = Len(s) /\ bf = <<>> /\ w = <<>> /\ ps = NewParser
            \/ u < Len(s) /\ \E rest, y : Under(F, s, u, bf, w, ps, rest, y)

\* the requests and one more, whose bytes are e
Extended(F, n, e) == [j \in Nat |-> IF j <= n + 1 THEN Cat(F[j], e) ELSE <<>>]

\* The bytes of the requests and of one more.
LEMMA ChainAppend ==
  ASSUME RedisServerAssumption, NEW s \in Seq(Requests), NEW r \in Requests, NEW F, Chain(F, s),
         NEW t, t = Append(s, r), NEW e, e = Encode(r), NEW F1, F1 = Extended(F, Len(s), e)
  PROVE  /\ Chain(F1, t) /\ Len(t) = Len(s) + 1 /\ t[Len(s) + 1] = r
         /\ \A j \in 1 .. Len(s) : t[j] = s[j]
         /\ \A j \in 1 .. Len(s) + 1 : F1[j] = Cat(F[j], e)
<1> DEFINE n == Len(s)
<1>1. n \in Nat /\ t \in Seq(Requests) /\ Len(t) = n + 1 /\ t[n + 1] = r /\ \A j \in 1 .. n : t[j] = s[j] /\ s[j] \in Requests
  BY AppendElements
<1>2. e \in Bytes /\ \A j \in 1 .. n : Encode(s[j]) \in Bytes
  BY <1>1, ReadsRequest DEF Requests, Bytes
<1>3. F \in [Nat -> Bytes] /\ (\A j \in Nat : j > n => F[j] = <<>>) /\ \A j \in 1 .. n : F[j] = Cat(Encode(s[j]), F[j + 1])
  BY DEF Chain
<1> HIDE DEF n
<1>a. F1 = Extended(F, n, e)
  BY DEF n
<1>4. /\ \A j \in Nat : j <= n + 1 => F1[j] = Cat(F[j], e)
      /\ \A j \in Nat : ~(j <= n + 1) => F1[j] = <<>>
  BY <1>a DEF Extended
<1>5. F1 \in [Nat -> Bytes]
  <2>1. ASSUME NEW j \in Nat PROVE F1[j] \in Bytes
    <3>1. F[j] \in Bytes
      BY <1>3
    <3> QED  BY <1>2, <1>4, <3>1, CatBytes, CatNone
  <2>2. F1 = [j \in Nat |-> F1[j]]
    BY <1>a DEF Extended
  <2> QED  BY <2>1, <2>2
<1>6. ASSUME NEW j \in Nat, j > Len(t) PROVE F1[j] = <<>>
  <2>1. ~(j <= n + 1)
    BY <1>1, <1>6
  <2> QED  BY <1>4, <2>1
<1>7. ASSUME NEW j \in 1 .. Len(t) PROVE F1[j] = Cat(Encode(t[j]), F1[j + 1])
  <2>1. CASE j = n + 1
    <3>0. j \in Nat /\ j + 1 \in Nat /\ j <= n + 1 /\ ~(j + 1 <= n + 1) /\ j > n
      BY <1>1, <2>1
    <3>1. F1[j] = Cat(F[j], e) /\ F[j] = <<>> /\ F1[j + 1] = <<>> /\ Encode(t[j]) = e
      BY <1>1, <1>3, <1>4, <2>1, <3>0
    <3> QED  BY <1>2, <3>1, CatNone
  <2>2. CASE j # n + 1
    <3>1. j \in 1 .. n /\ j \in Nat /\ j + 1 \in Nat /\ j <= n + 1 /\ j + 1 <= n + 1
      BY <1>1, <2>2
    <3> DEFINE a == Encode(s[j])
               b == F[j + 1]
    <3>2. F1[j] = Cat(F[j], e) /\ F1[j + 1] = Cat(b, e) /\ F[j] = Cat(a, b) /\ Encode(t[j]) = a
      BY <1>1, <1>3, <1>4, <3>1
    <3>3. a \in Bytes /\ b \in Bytes
      BY <1>2, <1>3, <3>1
    <3> HIDE DEF a, b
    <3> QED  BY <1>2, <3>2, <3>3, CatThree
  <2> QED  BY <2>1, <2>2
<1>8. Chain(F1, t)
  BY <1>5, <1>6, <1>7 DEF Chain
<1>9. \A j \in 1 .. n + 1 : F1[j] = Cat(F[j], e)
  BY <1>1, <1>4
<1> QED  BY <1>1, <1>8, <1>9 DEF n

\* A request that is sent goes to the end of the stream.
LEMMA FlowSends ==
  ASSUME RedisServerAssumption, NEW s \in Seq(Requests), NEW r \in Requests,
         NEW u \in Nat, u <= Len(s), NEW bf \in Bytes, NEW w \in Bytes, NEW ps, Flow(s, u, bf, w, ps)
  PROVE  Flow(Append(s, r), u, bf, Cat(w, Encode(r)), ps)
<1> DEFINE n == Len(s)
           t == Append(s, r)
           e == Encode(r)
           w1 == Cat(w, e)
<1>2. PICK F : /\ Chain(F, s)
               /\ \/ u = Len(s) /\ bf = <<>> /\ w = <<>> /\ ps = NewParser
                  \/ u < Len(s) /\ \E rest, y : Under(F, s, u, bf, w, ps, rest, y)
  BY DEF Flow
<1> DEFINE F1 == Extended(F, n, e)
<1>a. t = Append(s, r) /\ e = Encode(r) /\ F1 = Extended(F, Len(s), e) /\ n = Len(s) /\ n \in Nat
  OBVIOUS
<1> HIDE DEF e, F1, t, n
<1>c. Chain(F, s)
  BY <1>2
<1>d. Chain(F1, t)
  <2>1. F1 = Extended(F, Len(s), e) /\ t = Append(s, r) /\ e = Encode(r)
    BY <1>a
  <2>2. s \in Seq(Requests) /\ r \in Requests
    OBVIOUS
  <2> QED  BY <1>c, <2>1, <2>2, ChainAppend, ZenonT(60)
<1>b. \A j \in 1 .. Len(s) + 1 : F1[j] = Cat(F[j], e)
  BY <1>a, <1>c, ChainAppend
<1>3. Chain(F1, t) /\ \A j \in 1 .. n + 1 : F1[j] = Cat(F[j], e)
  BY <1>a, <1>b, <1>d
<1>1. n \in Nat /\ Len(t) = n + 1 /\ t[n + 1] = r /\ \A j \in 1 .. n : t[j] = s[j]
  BY <1>2, <1>a, ChainAppend
<1>4. e \in Bytes /\ e # <<>> /\ \E y : Reads(NewParser, e, y) /\ Served(r, y)
  BY <1>a, ReadsRequest DEF Requests, Bytes
<1>5. CASE u = n
  <2>1. bf = <<>> /\ w = <<>> /\ ps = NewParser
    BY <1>2, <1>5 DEF n
  <2>2. PICK y : Reads(NewParser, e, y) /\ Served(r, y)
    BY <1>4
  <2>3. F1[u + 2] = <<>>
    BY <1>1, <1>3, <1>5 DEF Chain
  <2>4. Cat(bf, w1) = Cat(e, F1[u + 2])
    BY <1>4, <2>1, <2>3, CatNone
  <2>5. t[u + 1] = r /\ u < Len(t)
    BY <1>1, <1>5
  <2> HIDE DEF w1
  <2>6. Under(F1, t, u, bf, w1, ps, e, y)
    BY <1>4, <2>1, <2>2, <2>4, <2>5 DEF Under
  <2>7. Flow(t, u, bf, w1, ps)
    BY <1>3, <2>5, <2>6 DEF Flow
  <2> QED  BY <2>7 DEF t, w1, e
<1>6. CASE u # n
  <2>1. PICK rest, y : Under(F, s, u, bf, w, ps, rest, y)
    BY <1>2, <1>6 DEF n
  <2>2. u \in 0 .. n - 1 /\ u + 1 \in 1 .. n /\ u + 2 \in 1 .. n + 1 /\ u + 2 \in Nat
    BY <1>1, <1>6 DEF n
  <2> DEFINE f == F[u + 2]
  <2>3. f \in Bytes /\ F1[u + 2] = Cat(f, e)
    BY <1>2, <1>3, <2>2 DEF Chain
  <2> HIDE DEF f
  <2>4. rest \in Bytes /\ Cat(bf, w) = Cat(rest, f)
    BY <2>1 DEF Under, f
  <2>5. Cat(bf, Cat(w, e)) = Cat(Cat(bf, w), e) /\ Cat(rest, Cat(f, e)) = Cat(Cat(rest, f), e)
    BY <1>4, <2>3, <2>4, CatThree
  <2>6. Cat(bf, w1) = Cat(rest, F1[u + 2])
    BY <2>3, <2>4, <2>5
  <2> HIDE DEF w1
  <2>7. t[u + 1] = s[u + 1] /\ u < Len(t)
    BY <1>1, <2>2
  <2>8. Under(F1, t, u, bf, w1, ps, rest, y)
    BY <2>1, <2>6, <2>7 DEF Under
  <2>9. Flow(t, u, bf, w1, ps)
    BY <1>3, <2>7, <2>8 DEF Flow
  <2> QED  BY <2>9 DEF t, w1, e
<1> QED  BY <1>5, <1>6

\* The next request is at the front of the stream.
LEMMA FlowNext ==
  ASSUME RedisServerAssumption, NEW s \in Seq(Requests), NEW u \in Nat, u <= Len(s),
         NEW F, Chain(F, s), NEW bf \in Bytes, NEW w \in Bytes, Cat(bf, w) = F[u + 1]
  PROVE  Flow(s, u, bf, w, NewParser) /\ (u = Len(s) => bf = <<>>)
<1> DEFINE n == Len(s)
<1>1. n \in Nat
  OBVIOUS
<1>2. CASE u = n
  <2>1. F[u + 1] = <<>>
    BY <1>1, <1>2 DEF Chain
  <2>2. bf = <<>> /\ w = <<>>
    BY <2>1, CatBytes
  <2> QED  BY <1>2, <2>2 DEF Flow
<1>3. CASE u # n
  <2>1. u + 1 \in 1 .. n /\ (u + 1) + 1 = u + 2 /\ u < n
    BY <1>1, <1>3
  <2>2. s[u + 1] \in Requests
    BY <2>1
  <2> DEFINE r == s[u + 1]
             e == Encode(r)
  <2>3. e \in Bytes /\ e # <<>> /\ \E y : Reads(NewParser, e, y) /\ Served(r, y)
    BY <2>2, ReadsRequest DEF Requests, Bytes
  <2>4. PICK y : Reads(NewParser, e, y) /\ Served(r, y)
    BY <2>3
  <2>5. F[u + 1] = Cat(e, F[u + 2])
    BY <2>1 DEF Chain
  <2>6. Under(F, s, u, bf, w, NewParser, e, y)
    BY <2>3, <2>4, <2>5 DEF Under
  <2> QED  BY <1>3, <2>1, <2>6 DEF Flow
<1> QED  BY <1>2, <1>3

\* What HandleBytes does to the stream: nothing but take from it.
LEMMA FlowHandles ==
  ASSUME RedisServerAssumption, NEW s \in Seq(Requests), NEW u \in Nat, u <= Len(s),
         NEW bf \in Bytes, NEW w \in Bytes, w # <<>>, NEW ps, Flow(s, u, bf, w, ps),
         NEW bs \in Bytes, NEW w1 \in Bytes, Cat(bs, w1) = Cat(bf, w),
         NEW o, o = Write(ps, bs), NEW b1, b1 = Rest(bs, o.n)
  PROVE  /\ u < Len(s) /\ b1 \in Bytes
         /\ \/ o.ps.panic /\ s[u + 1] = NegMulti
            \/ Stuck(o.ps) /\ b1 = <<>> /\ s[u + 1] = <<>>
            \/ ~Stopped(o.ps) /\ b1 = <<>> /\ Flow(s, u, b1, w1, o.ps)
            \/ /\ o.ps.stack = <<>> /\ ~o.ps.panic
               /\ (s[u + 1] = BadLine /\ ~OK(o.ps))
                  \/ (s[u + 1] # BadLine /\ OK(o.ps) /\ Argv(o.ps) = s[u + 1])
               /\ Flow(s, u + 1, b1, w1, NewParser) /\ (u + 1 = Len(s) => b1 = <<>>)
<1> DEFINE n == Len(s)
<1>1. PICK F : /\ Chain(F, s)
               /\ \/ u = Len(s) /\ bf = <<>> /\ w = <<>> /\ ps = NewParser
                  \/ u < Len(s) /\ \E rest, y : Under(F, s, u, bf, w, ps, rest, y)
  BY DEF Flow
<1>2. u < n /\ \E rest, y : Under(F, s, u, bf, w, ps, rest, y)
  BY <1>1
<1>3. PICK rest, y : Under(F, s, u, bf, w, ps, rest, y)
  BY <1>2
<1> DEFINE f == F[u + 2]
<1>4. f \in Bytes /\ n \in Nat
  BY <1>1 DEF Chain
<1>5. rest \in Bytes /\ rest # <<>> /\ Reads(ps, rest, y) /\ Served(s[u + 1], y) /\ Cat(bs, w1) = Cat(rest, f)
  BY <1>3 DEF Under
<1> HIDE DEF f
<1>6. CASE Len(bs) < Len(rest)
  <2>1. Len(bs) \in Nat /\ Len(rest) \in Nat
    BY <1>5 DEF Bytes
  <2>2. PICK m \in Bytes : rest = Cat(bs, m) /\ w1 = Cat(m, f)
    <3>1. Len(bs) <= Len(rest)
      BY <1>6, <2>1
    <3> QED  BY <1>4, <1>5, <3>1, TwoCuts DEF Bytes
  <2>3. m # <<>>
    <3>1. Cat(bs, <<>>) = bs
      BY CatNone
    <3> QED  BY <1>6, <2>1, <2>2, <3>1
  <2>4. PICK z : Reads(ps, bs, z) /\ Reads(z, m, y) /\ ~Stopped(z)
    BY <1>5, <2>2, <2>3, CatCut
  <2>6. o.ps = z /\ b1 = <<>>
    BY <2>4, WritesAll
  <2>8. Cat(b1, w1) = Cat(m, f)
    BY <2>2, <2>6, CatNone
  <2>9. Under(F, s, u, b1, w1, z, m, y)
    BY <1>5, <2>3, <2>4, <2>8 DEF Under, f
  <2>10. Flow(s, u, b1, w1, z)
    BY <1>1, <1>2, <2>9 DEF Flow
  <2> QED  BY <1>2, <2>4, <2>6, <2>10, CatNone
<1>7. CASE ~(Len(bs) < Len(rest))
  <2>1. Len(bs) \in Nat /\ Len(rest) \in Nat
    BY <1>5 DEF Bytes
  <2>2. PICK m \in Bytes : bs = Cat(rest, m) /\ f = Cat(m, w1)
    <3>1. Len(rest) <= Len(bs) /\ Cat(rest, f) = Cat(bs, w1)
      BY <1>5, <1>7, <2>1
    <3> QED  BY <1>4, <1>5, <3>1, TwoCuts DEF Bytes
  <2>3. ASSUME Stopped(y) PROVE o.ps = y /\ b1 = m
    BY <1>5, <2>2, <2>3, WritesSome
  <2>4. CASE s[u + 1] = NegMulti /\ y.panic
    <3>1. Stopped(y)
      BY <2>4 DEF Stopped
    <3> QED  BY <1>2, <2>3, <2>4, <3>1
  <2>5. CASE s[u + 1] = <<>> /\ Stuck(y)
    <3>1. Reads(y, m, y)
      BY <2>5, StuckReads DEF Bytes
    <3>2. Reads(ps, bs, y)
      BY <1>5, <2>2, <3>1, CatReads
    <3>3. o.ps = y /\ b1 = <<>>
      BY <3>2, WritesAll
    <3> QED  BY <1>2, <2>5, <3>3, CatNone
  <2>6. ASSUME y.stack = <<>>, ~y.panic
        PROVE  o.ps = y /\ b1 \in Bytes /\ Flow(s, u + 1, b1, w1, NewParser) /\ (u + 1 = n => b1 = <<>>)
    <3>1. Stopped(y)
      BY <2>6 DEF Stopped
    <3>2. o.ps = y /\ b1 = m
      BY <2>3, <3>1
    <3> DEFINE u1 == u + 1
    <3>3. u1 \in Nat /\ u1 <= Len(s) /\ u1 + 1 = u + 2
      BY <1>2, <1>4
    <3>4. Cat(b1, w1) = F[u1 + 1]
      BY <2>2, <3>2, <3>3 DEF f
    <3> HIDE DEF u1
    <3>5. Flow(s, u1, b1, w1, NewParser) /\ (u1 = Len(s) => b1 = <<>>)
      BY <1>1, <3>2, <3>3, <3>4, FlowNext
    <3> QED  BY <3>2, <3>5 DEF u1
  <2>7. CASE s[u + 1] = BadLine /\ y.stack = <<>> /\ ~y.panic /\ ~OK(y)
    BY <1>2, <2>6, <2>7
  <2>8. CASE s[u + 1] \notin {NegMulti, BadLine} /\ Complete(s[u + 1], y)
    <3>1. y.stack = <<>> /\ ~y.panic /\ OK(y) /\ Argv(y) = s[u + 1]
      BY <2>8 DEF Complete
    <3> QED  BY <1>2, <2>6, <2>8, <3>1
  <2>9. Served(s[u + 1], y)
    BY <1>5
  <2> QED  BY <2>4, <2>5, <2>7, <2>8, <2>9 DEF Served
<1> QED  BY <1>6, <1>7

\* Nothing comes of the bytes after an empty multi bulk.
LEMMA StuckHandles ==
  ASSUME NEW ps, Stuck(ps), NEW bs \in Bytes, NEW o, o = Write(ps, bs), NEW b1, b1 = Rest(bs, o.n)
  PROVE  o.ps = ps /\ b1 = <<>>
<1>1. Reads(ps, bs, ps)
  BY StuckReads DEF Bytes
<1> QED  BY <1>1, WritesAll

\* The round trip of wrap.go and parser.go: Write takes all the bytes of a query, not
\* one less, and the parser then has the argv that WrapMulitBulk was given.
THEOREM RoundTrip ==
  \A r \in Queries :
    LET bs == WrapMulitBulk(r)
        w == Write(NewParser, bs)
    IN  w.n = Len(bs) /\ HasCommand(w.ps) /\ OK(w.ps) /\ Argv(w.ps) = r
<1> SUFFICES ASSUME NEW r \in Queries, NEW bs, bs = WrapMulitBulk(r), NEW w, w = Write(NewParser, bs)
             PROVE  w.n = Len(bs) /\ HasCommand(w.ps) /\ OK(w.ps) /\ Argv(w.ps) = r
  OBVIOUS
<1>1. r # <<>> /\ r \notin {BadLine, NegMulti}
  BY RedisServerAssumption DEF RedisServerAssumption
<1>2. Encode(r) = bs
  BY <1>1 DEF Encode
<1>3. bs \in Bytes /\ \E y : Reads(NewParser, bs, y) /\ Served(r, y)
  BY <1>2, ReadsRequest, RedisServerAssumption DEF Bytes
<1>4. PICK y : Reads(NewParser, bs, y) /\ Served(r, y)
  BY <1>3
<1>5. Complete(r, y)
  BY <1>1, <1>4 DEF Served
<1>6. w.n = Len(bs) /\ w.ps = y
  BY <1>3, <1>4, WritesAll
<1> QED  BY <1>5, <1>6 DEF Complete, HasCommand

-----------------------------------------------------------------------------
(* What the server understands.                                            *)

\* The stream between the client and the server, as long as the connection holds:
\* either an empty multi bulk has put the parser where it takes anything and makes
\* nothing of it, or the bytes on their way are those of the requests that have not
\* been understood.
StreamInv ==
  /\ mode \in {"query", "piped"}
  /\ sent \in Seq(Requests) /\ (mode = "query" => sent \in Seq(Queries))
  /\ wire \in Bytes /\ buf \in Bytes
  /\ understood \in Seq(Requests) /\ UnderstoodInOrder
  /\ ~lost => \/ mode = "piped" /\ Stuck(parser) /\ buf = <<>>
              \/ Flow(sent, Len(understood), buf, wire, parser)

\* The stream is in order when the connection starts.
LEMMA StreamInit == RedisInit => StreamInv
<1> SUFFICES ASSUME RedisInit PROVE StreamInv
  OBVIOUS
<1> DEFINE F == [j \in Nat |-> <<>>]
           e == <<>>
<1>1. e \in Seq(Requests) /\ e \in Seq(Queries) /\ Len(e) = 0 /\ e \in Bytes /\ DOMAIN e = {}
  BY CatNone
<1>2. Chain(F, e)
  <2>1. F \in [Nat -> Bytes] /\ \A j \in Nat : F[j] = <<>>
    BY CatNone
  <2> HIDE DEF F, e
  <2> QED  BY <1>1, <2>1 DEF Chain
<1>3. sent = e /\ wire = e /\ buf = e /\ understood = e /\ parser = NewParser /\ mode \in {"query", "piped"}
  BY DEF RedisInit
<1>a. e = <<>>
  OBVIOUS
<1> HIDE DEF F, e
<1>4. Flow(e, Len(e), e, e, NewParser)
  BY <1>2, <1>a DEF Flow
<1>5. UnderstoodInOrder
  BY <1>1, <1>3 DEF UnderstoodInOrder
<1> QED  BY <1>1, <1>3, <1>4, <1>5 DEF StreamInv

\* The queries and the piped requests are requests.
LEMMA Subsets ==
  /\ \A s \in Seq(Queries) : s \in Seq(Requests)
  /\ \A r \in Queries : r \in Requests
  /\ \A r \in Piped : r \in Requests
<1>1. Queries \subseteq Requests /\ Piped \subseteq Requests
  BY DEF Requests
<1> QED  BY <1>1

\* A request that is sent.
LEMMA StreamSends ==
  ASSUME RedisServerAssumption, StreamInv, NEW r \in Requests, mode = "query" => r \in Queries, ~lost,
         sent' = Append(sent, r), wire' = Cat(wire, Encode(r)), UNCHANGED <<mode, serverVars, lost>>
  PROVE  StreamInv'
<1> DEFINE u == Len(understood)
<1>1. /\ mode \in {"query", "piped"} /\ sent \in Seq(Requests) /\ (mode = "query" => sent \in Seq(Queries))
      /\ wire \in Bytes /\ buf \in Bytes /\ understood \in Seq(Requests)
      /\ (mode = "piped" /\ Stuck(parser) /\ buf = <<>>) \/ Flow(sent, u, buf, wire, parser)
  BY DEF StreamInv
<1>2. u \in Nat /\ u <= Len(sent) /\ (\A i \in DOMAIN understood : understood[i] = sent[i])
      /\ DOMAIN understood = 1 .. u /\ Len(sent) \in Nat
  BY <1>1 DEF StreamInv, UnderstoodInOrder
<1>3. /\ mode' = mode /\ buf' = buf /\ parser' = parser /\ understood' = understood /\ (lost' <=> lost)
      /\ Len(understood') = u
  BY DEF serverVars
<1> HIDE DEF u
<1>4. sent' \in Seq(Requests) /\ Len(sent') = Len(sent) + 1 /\ \A i \in 1 .. Len(sent) : sent'[i] = sent[i]
  BY <1>1, AppendElements
<1>5. mode = "query" => sent' \in Seq(Queries)
  BY <1>1, AppendElements
<1>6. Encode(r) \in Bytes
  BY ReadsRequest DEF Requests, Bytes
<1>7. wire' \in Bytes
  BY <1>1, <1>6, CatBytes
<1>8. UnderstoodInOrder'
  <2>1. Len(understood') <= Len(sent')
    BY <1>2, <1>3, <1>4
  <2>2. ASSUME NEW i \in DOMAIN understood PROVE understood[i] = sent'[i]
    <3>1. i \in 1 .. Len(sent)
      BY <1>2
    <3> QED  BY <1>2, <1>4, <3>1
  <2> QED  BY <1>3, <2>1, <2>2 DEF UnderstoodInOrder
<1>9. Flow(sent, u, buf, wire, parser) => Flow(sent', u, buf, wire', parser)
  <2> SUFFICES ASSUME Flow(sent, u, buf, wire, parser) PROVE Flow(Append(sent, r), u, buf, Cat(wire, Encode(r)), parser)
    OBVIOUS
  <2> QED  BY <1>1, <1>2, FlowSends
<1>10. mode' \in {"query", "piped"} /\ (mode' = "query" => sent' \in Seq(Queries)) /\ buf' \in Bytes
       /\ understood' \in Seq(Requests)
  BY <1>1, <1>3, <1>5
<1>11. \/ mode' = "piped" /\ Stuck(parser') /\ buf' = <<>>
       \/ Flow(sent', Len(understood'), buf', wire', parser')
  BY <1>1, <1>3, <1>9
<1> QED  BY <1>4, <1>7, <1>8, <1>10, <1>11 DEF StreamInv

\* The parts of HandleBytes.
LEMMA HandleParts ==
  ASSUME StreamInv, NEW k \in 1 .. Len(wire), HandleBytes(k),
         NEW bs, bs = Cat(buf, SubSeq(wire, 1, k)), NEW o, o = Write(parser, bs)
  PROVE  /\ bs \in Bytes /\ wire' \in Bytes /\ Cat(bs, wire') = Cat(buf, wire) /\ wire # <<>>
         /\ ~lost /\ (lost' <=> o.ps.panic) /\ buf' = Rest(bs, o.n)
         /\ o.ps.stack = <<>> /\ ~o.ps.panic =>
              /\ parser' = NewParser
              /\ understood' = Append(understood, IF OK(o.ps) THEN Argv(o.ps) ELSE BadLine)
              /\ store' = StoreAfter(IF OK(o.ps) THEN Argv(o.ps) ELSE BadLine)
              /\ mode = "query" /\ OK(o.ps) => back' = Cat(back, Answer(Argv(o.ps)))
              /\ mode # "query" => back' = back
         /\ ~(o.ps.stack = <<>> /\ ~o.ps.panic) =>
              parser' = o.ps /\ understood' = understood /\ store' = store /\ back' = back
         /\ mode' = mode /\ sent' = sent /\ p' = p /\ got' = got
<1> DEFINE a == SubSeq(wire, 1, k)
           b == SubSeq(wire, k + 1, Len(wire))
<1>1. wire \in Bytes /\ buf \in Bytes
  BY DEF StreamInv
<1>2. a \in Bytes /\ b \in Bytes /\ wire = Cat(a, b)
  <2>1. k \in 0 .. Len(wire)
    OBVIOUS
  <2> QED  BY <1>1, <2>1, Divided DEF Bytes, Cat
<1>3. wire' = b
  BY DEF HandleBytes
<1>4. bs = Cat(buf, a)
  OBVIOUS
<1> HIDE DEF a, b
<1>5. bs \in Bytes /\ Cat(bs, wire') = Cat(buf, wire)
  BY <1>1, <1>2, <1>3, <1>4, CatBytes, CatThree
<1>6. wire # <<>>
  <2>1. Len(<<>>) = 0
    OBVIOUS
  <2> QED  BY <2>1
<1>7. /\ ~lost /\ lost' = o.ps.panic /\ buf' = Rest(bs, o.n)
      /\ parser' = IF o.ps.stack = <<>> /\ ~o.ps.panic THEN NewParser ELSE o.ps
      /\ IF o.ps.stack = <<>> /\ ~o.ps.panic
         THEN /\ understood' = Append(understood, IF OK(o.ps) THEN Argv(o.ps) ELSE BadLine)
              /\ store' = StoreAfter(IF OK(o.ps) THEN Argv(o.ps) ELSE BadLine)
              /\ back' = IF mode = "query"
                         THEN back \o (IF OK(o.ps) THEN Answer(IF OK(o.ps) THEN Argv(o.ps) ELSE BadLine) ELSE Error)
                         ELSE back
         ELSE UNCHANGED <<store, understood, back>>
      /\ mode' = mode /\ sent' = sent /\ p' = p /\ got' = got
  BY DEF HandleBytes, queryVars, Cat
<1>8. CASE o.ps.stack = <<>> /\ ~o.ps.panic
  BY <1>2, <1>3, <1>5, <1>6, <1>7, <1>8 DEF Cat
<1>9. CASE ~(o.ps.stack = <<>> /\ ~o.ps.panic)
  BY <1>2, <1>3, <1>5, <1>6, <1>7, <1>9
<1> QED  BY <1>8, <1>9

\* HandleBytes with the stream: the cases a step may be, for the invariants.
LEMMA HandleCases ==
  ASSUME RedisServerAssumption, StreamInv, NEW k \in 1 .. Len(wire), HandleBytes(k)
  PROVE  LET u == Len(understood) IN
         /\ mode' = mode /\ sent' = sent /\ p' = p /\ got' = got /\ ~lost
         /\ wire' \in Bytes /\ buf' \in Bytes
         /\ \/ /\ lost' /\ u < Len(sent) /\ sent[u + 1] = NegMulti
               /\ understood' = understood /\ store' = store /\ back' = back
            \/ /\ ~lost' /\ mode = "piped" /\ Stuck(parser') /\ buf' = <<>>
               /\ understood' = understood /\ store' = store /\ back' = back
            \/ /\ ~lost' /\ u < Len(sent) /\ sent[u + 1] = <<>> /\ Stuck(parser') /\ buf' = <<>>
               /\ understood' = understood /\ store' = store /\ back' = back
            \/ /\ ~lost' /\ u < Len(sent) /\ Flow(sent, u, buf', wire', parser') /\ buf' = <<>>
               /\ understood' = understood /\ store' = store /\ back' = back
            \/ /\ ~lost' /\ u < Len(sent) /\ Flow(sent, u + 1, buf', wire', parser')
               /\ u + 1 = Len(sent) => buf' = <<>>
               /\ understood' = Append(understood, sent[u + 1])
               /\ store' = StoreAfter(sent[u + 1])
               /\ mode # "query" => back' = back
               /\ mode = "query" /\ sent[u + 1] # BadLine => back' = Cat(back, Answer(sent[u + 1]))
<1> DEFINE u == Len(understood)
           bs == Cat(buf, SubSeq(wire, 1, k))
           o == Write(parser, bs)
           b1 == Rest(bs, o.n)
           done == o.ps.stack = <<>> /\ ~o.ps.panic
           argv == IF OK(o.ps) THEN Argv(o.ps) ELSE BadLine
<1>0. bs = Cat(buf, SubSeq(wire, 1, k)) /\ o = Write(parser, bs) /\ b1 = Rest(bs, o.n)
  OBVIOUS
<1> HIDE DEF bs, o, b1
<1>1. /\ bs \in Bytes /\ wire' \in Bytes /\ Cat(bs, wire') = Cat(buf, wire) /\ wire # <<>>
      /\ ~lost /\ (lost' <=> o.ps.panic) /\ buf' = b1
      /\ mode' = mode /\ sent' = sent /\ p' = p /\ got' = got
  BY <1>0, HandleParts
<1>2. done =>
        /\ parser' = NewParser /\ understood' = Append(understood, argv) /\ store' = StoreAfter(argv)
        /\ mode = "query" /\ OK(o.ps) => back' = Cat(back, Answer(Argv(o.ps)))
        /\ mode # "query" => back' = back
  BY <1>0, HandleParts
<1>3. ~done => parser' = o.ps /\ understood' = understood /\ store' = store /\ back' = back
  BY <1>0, HandleParts
<1>4. /\ sent \in Seq(Requests) /\ wire \in Bytes /\ buf \in Bytes /\ u \in Nat /\ u <= Len(sent)
      /\ \/ mode = "piped" /\ Stuck(parser) /\ buf = <<>>
         \/ Flow(sent, u, buf, wire, parser)
  BY <1>1 DEF StreamInv, UnderstoodInOrder
<1>5. CASE mode = "piped" /\ Stuck(parser) /\ buf = <<>>
  <2>1. o.ps = parser /\ b1 = <<>>
    BY <1>0, <1>1, <1>5, StuckHandles
  <2>2. ~done /\ ~o.ps.panic
    BY <1>5, <2>1 DEF Stuck, Stopped
  <2> QED  BY <1>1, <1>3, <1>5, <2>1, <2>2, CatNone
<1>6. CASE Flow(sent, u, buf, wire, parser)
  <2> HIDE DEF u
  <2>1. /\ u < Len(sent) /\ b1 \in Bytes
        /\ \/ o.ps.panic /\ sent[u + 1] = NegMulti
           \/ Stuck(o.ps) /\ b1 = <<>> /\ sent[u + 1] = <<>>
           \/ ~Stopped(o.ps) /\ b1 = <<>> /\ Flow(sent, u, b1, wire', o.ps)
           \/ /\ o.ps.stack = <<>> /\ ~o.ps.panic
              /\ (sent[u + 1] = BadLine /\ ~OK(o.ps))
                 \/ (sent[u + 1] # BadLine /\ OK(o.ps) /\ Argv(o.ps) = sent[u + 1])
              /\ Flow(sent, u + 1, b1, wire', NewParser) /\ (u + 1 = Len(sent) => b1 = <<>>)
    BY <1>0, <1>1, <1>4, <1>6, FlowHandles
  <2>2. CASE o.ps.panic /\ sent[u + 1] = NegMulti
    BY <1>1, <1>3, <2>1, <2>2 DEF u
  <2>3. CASE Stuck(o.ps) /\ b1 = <<>> /\ sent[u + 1] = <<>>
    <3>1. ~done /\ ~o.ps.panic
      BY <2>3 DEF Stuck, Stopped
    <3> QED  BY <1>1, <1>3, <2>1, <2>3, <3>1 DEF u
  <2>4. CASE ~Stopped(o.ps) /\ b1 = <<>> /\ Flow(sent, u, b1, wire', o.ps)
    <3>1. ~done /\ ~o.ps.panic
      BY <2>4 DEF Stopped
    <3> QED  BY <1>1, <1>3, <2>1, <2>4, <3>1 DEF u
  <2>5. CASE /\ o.ps.stack = <<>> /\ ~o.ps.panic
             /\ (sent[u + 1] = BadLine /\ ~OK(o.ps))
                \/ (sent[u + 1] # BadLine /\ OK(o.ps) /\ Argv(o.ps) = sent[u + 1])
             /\ Flow(sent, u + 1, b1, wire', NewParser) /\ (u + 1 = Len(sent) => b1 = <<>>)
    <3>1. done /\ argv = sent[u + 1]
      BY <2>5
    <3>2. /\ parser' = NewParser /\ understood' = Append(understood, argv) /\ store' = StoreAfter(argv)
          /\ mode = "query" /\ OK(o.ps) => back' = Cat(back, Answer(Argv(o.ps)))
          /\ mode # "query" => back' = back
      BY <1>2, <3>1
    <3> HIDE DEF argv
    <3> QED  BY <1>1, <2>1, <2>5, <3>1, <3>2 DEF u
  <2> QED  BY <2>1, <2>2, <2>3, <2>4, <2>5
<1> QED  BY <1>4, <1>5, <1>6

\* A step of the server keeps the stream in order.
LEMMA StreamHandles ==
  ASSUME RedisServerAssumption, StreamInv, NEW k \in 1 .. Len(wire), HandleBytes(k)
  PROVE  StreamInv'
<1> DEFINE u == Len(understood)
<1>1. /\ mode' = mode /\ sent' = sent /\ wire' \in Bytes /\ buf' \in Bytes
      /\ \/ lost' /\ understood' = understood
         \/ ~lost' /\ mode = "piped" /\ Stuck(parser') /\ buf' = <<>> /\ understood' = understood
         \/ ~lost' /\ u < Len(sent) /\ sent[u + 1] = <<>> /\ Stuck(parser') /\ buf' = <<>> /\ understood' = understood
         \/ ~lost' /\ Flow(sent, u, buf', wire', parser') /\ understood' = understood
         \/ /\ ~lost' /\ u < Len(sent) /\ Flow(sent, u + 1, buf', wire', parser')
            /\ understood' = Append(understood, sent[u + 1])
  BY HandleCases
<1>2. /\ mode \in {"query", "piped"} /\ sent \in Seq(Requests) /\ (mode = "query" => sent \in Seq(Queries))
      /\ understood \in Seq(Requests) /\ UnderstoodInOrder /\ u \in Nat /\ Len(sent) \in Nat
  BY DEF StreamInv
<1>3. /\ mode' \in {"query", "piped"} /\ sent' \in Seq(Requests) /\ (mode' = "query" => sent' \in Seq(Queries))
      /\ wire' \in Bytes /\ buf' \in Bytes
  BY <1>1, <1>2
<1>4. CASE understood' = understood
  <2>1. UnderstoodInOrder'
    BY <1>1, <1>2, <1>4 DEF UnderstoodInOrder
  <2>2. ASSUME u < Len(sent), sent[u + 1] = <<>> PROVE mode = "piped"
    <3>1. u + 1 \in 1 .. Len(sent)
      BY <1>2, <2>2
    <3>2. mode = "query" => sent[u + 1] \in Queries
      BY <1>2, <3>1
    <3>3. mode = "query" => sent[u + 1] # <<>>
      BY <3>2 DEF RedisServerAssumption
    <3> QED  BY <1>2, <2>2, <3>3
  <2>3. u # u + 1
    BY <1>2
  <2>4. understood' # Append(understood, sent[u + 1]) \/ ~(u < Len(sent))
    <3> SUFFICES ASSUME u < Len(sent) PROVE understood # Append(understood, sent[u + 1])
      BY <1>4
    <3>1. sent[u + 1] \in Requests
      BY <1>2
    <3>2. Len(Append(understood, sent[u + 1])) = u + 1
      BY <1>2, <3>1, AppendElements
    <3> QED  BY <2>3, <3>2
  <2>5. ~lost' => \/ mode' = "piped" /\ Stuck(parser') /\ buf' = <<>>
                  \/ Flow(sent', Len(understood'), buf', wire', parser')
    BY <1>1, <1>4, <2>2, <2>4
  <2> QED  BY <1>2, <1>3, <1>4, <2>1, <2>5 DEF StreamInv
<1>5. CASE u < Len(sent) /\ Flow(sent, u + 1, buf', wire', parser') /\ understood' = Append(understood, sent[u + 1])
  <2>1. u + 1 \in 1 .. Len(sent) /\ sent[u + 1] \in Requests
    BY <1>2, <1>5
  <2>2. /\ understood' \in Seq(Requests) /\ Len(understood') = u + 1 /\ understood'[u + 1] = sent[u + 1]
        /\ \A i \in 1 .. u : understood'[i] = understood[i]
    BY <1>2, <1>5, <2>1, AppendElements
  <2>3. UnderstoodInOrder'
    <3>1. \A i \in 1 .. u : understood[i] = sent[i]
      BY <1>2 DEF UnderstoodInOrder
    <3>2. Len(understood') <= Len(sent') /\ DOMAIN understood' = 1 .. u + 1
      BY <1>1, <2>1, <2>2
    <3>3. ASSUME NEW i \in 1 .. u + 1 PROVE understood'[i] = sent[i]
      <4>1. i = u + 1 \/ i \in 1 .. u
        BY <1>2
      <4> QED  BY <2>2, <3>1, <4>1
    <3> QED  BY <1>1, <3>2, <3>3 DEF UnderstoodInOrder
  <2>4. Flow(sent', Len(understood'), buf', wire', parser')
    BY <1>1, <1>5, <2>2
  <2> QED  BY <1>3, <2>2, <2>3, <2>4 DEF StreamInv
<1> QED  BY <1>1, <1>4, <1>5

\* Every step of the connection keeps the stream in order.
LEMMA StreamNext ==
  ASSUME RedisServerAssumption, StreamInv, [RedisNext]_redisVars
  PROVE StreamInv'
<1>1. ASSUME NEW argv \in Queries, Query(argv) PROVE StreamInv'
  <2>1. argv \in Requests /\ Encode(argv) = WrapMulitBulk(argv)
    BY Subsets DEF RedisServerAssumption, Encode
  <2>2. /\ ~lost /\ sent' = Append(sent, argv) /\ wire' = Cat(wire, Encode(argv))
        /\ UNCHANGED <<mode, serverVars, lost>>
    BY <1>1, <2>1 DEF Query, Cat
  <2> QED  BY <2>1, <2>2, StreamSends
<1>2. ASSUME NEW r \in Piped, SendPiped(r) PROVE StreamInv'
  <2>1. r \in Requests
    BY Subsets
  <2>2. /\ ~lost /\ mode # "query" /\ sent' = Append(sent, r) /\ wire' = Cat(wire, Encode(r))
        /\ UNCHANGED <<mode, serverVars, lost>>
    BY <1>2 DEF SendPiped, Cat
  <2> QED  BY <2>1, <2>2, StreamSends
<1>3. ASSUME NEW k \in 1 .. Len(wire), HandleBytes(k) PROVE StreamInv'
  BY <1>3, StreamHandles
<1>4. ASSUME UNCHANGED <<mode, sent, wire, serverVars, lost>> PROVE StreamInv'
  BY <1>4 DEF StreamInv, UnderstoodInOrder, serverVars
<1>5. ASSUME NEW k \in 1 .. Len(back), QueryRead(k) PROVE StreamInv'
  <2>1. UNCHANGED <<mode, sent, wire, serverVars, lost>>
    BY <1>5 DEF QueryRead
  <2> QED  BY <1>4, <2>1
<1>6. ASSUME QueryFails PROVE StreamInv'
  <2>1. UNCHANGED <<mode, sent, wire, serverVars, lost>>
    BY <1>6 DEF QueryFails
  <2> QED  BY <1>4, <2>1
<1>7. ASSUME Break PROVE StreamInv'
  <2>1. lost' /\ wire' = <<>> /\ mode' = mode /\ sent' = sent /\ buf' = buf /\ understood' = understood
    BY <1>7 DEF Break, serverVars
  <2> QED  BY <2>1, CatNone DEF StreamInv, UnderstoodInOrder
<1>8. ASSUME UNCHANGED redisVars PROVE StreamInv'
  <2>1. UNCHANGED <<mode, sent, wire, serverVars, lost>>
    BY <1>8 DEF redisVars
  <2> QED  BY <1>4, <2>1
<1> QED  BY <1>1, <1>2, <1>3, <1>5, <1>6, <1>7, <1>8 DEF RedisNext

\* The server understands the requests the client wrote, in order and byte for byte,
\* however the network cuts the stream: HandleBytes and Write on the client's bytes.
THEOREM RequestsUnderstood == RedisSpec => []UnderstoodInOrder
<1>1. RedisInit => StreamInv
  BY StreamInit
<1>2. StreamInv /\ [RedisNext]_redisVars => StreamInv'
  BY StreamNext, RedisServerAssumption
<1>3. StreamInv => UnderstoodInOrder
  BY DEF StreamInv
<1> QED  BY <1>1, <1>2, <1>3, PTL DEF RedisSpec

-----------------------------------------------------------------------------
(* What the queries get.                                                   *)

\* The elements of a query are values that WrapBulk writes.
LEMMA QueryValues ==
  ASSUME RedisServerAssumption, NEW r \in Queries
  PROVE  /\ r # <<>> /\ r \notin {BadLine, NegMulti} /\ Len(r) \in Nat
         /\ \A i \in 1 .. Len(r) : IsValue(r[i])
<1>1. IsArgv(r) /\ r # <<>> /\ r \notin {BadLine, NegMulti}
  BY DEF RedisServerAssumption
<1>2. r \in Seq(Seq(Byte) \cup {NoBytes}) /\ \A i \in 1 .. Len(r) : Len(r[i]) < 100
  BY <1>1 DEF IsArgv
<1>3. ASSUME NEW i \in 1 .. Len(r) PROVE IsValue(r[i])
  <2>1. r[i] \in Seq(Byte) \cup {NoBytes} /\ Len(r[i]) < 100
    BY <1>2
  <2> DEFINE v == r[i]
  <2>2. v \in Seq(Byte) => v \in Seq(AnyByte)
    BY DEF AnyByte
  <2> HIDE DEF v
  <2>3. v \in Seq(Byte) \cup {NoBytes} /\ Len(v) < 100
    BY <2>1 DEF v
  <2>4. IsValue(v)
    BY <2>2, <2>3 DEF IsValue
  <2> QED  BY <2>4 DEF v
<1> QED  BY <1>1, <1>2, <1>3

\* The store after the first u requests has each key that one of them sets, with
\* the value of the last that does.
Stored(u) ==
  \A key : /\ key \in DOMAIN store <=> SetsBefore(u + 1, key) # {}
           /\ key \in DOMAIN store =>
                store[key] = ValueBefore(u + 1, key) /\ IsValue(store[key])

\* The SETs of a key, with one request more.
LEMMA SetsGrow ==
  ASSUME NEW u \in Nat, NEW key, NEW u1, u1 = u + 1, NEW u2, u2 = u1 + 1
  PROVE  /\ IsSet(sent[u1]) /\ Key(sent[u1][2]) = key => SetsBefore(u2, key) = SetsBefore(u1, key) \cup {u1}
         /\ ~(IsSet(sent[u1]) /\ Key(sent[u1][2]) = key) => SetsBefore(u2, key) = SetsBefore(u1, key)
         /\ SetsBefore(u1, key) \subseteq 1 .. u
<1> DEFINE P(j) == IsSet(sent[j]) /\ Key(sent[j][2]) = key
<1>1. SetsBefore(u1, key) = {j \in 1 .. u1 - 1 : P(j)} /\ SetsBefore(u2, key) = {j \in 1 .. u2 - 1 : P(j)}
  BY DEF SetsBefore
<1>2. u1 - 1 = u /\ u2 - 1 = u1 /\ 1 .. u1 = (1 .. u) \cup {u1}
  OBVIOUS
<1> HIDE DEF P
<1>3. SetsBefore(u1, key) = {j \in 1 .. u : P(j)} /\ SetsBefore(u2, key) = {j \in (1 .. u) \cup {u1} : P(j)}
  BY <1>1, <1>2
<1>4. P(u1) => SetsBefore(u2, key) = SetsBefore(u1, key) \cup {u1}
  BY <1>3
<1>5. ~P(u1) => SetsBefore(u2, key) = SetsBefore(u1, key)
  BY <1>3
<1>6. SetsBefore(u1, key) \subseteq 1 .. u
  BY <1>3
<1> QED  BY <1>4, <1>5, <1>6 DEF P

\* The value under a key, with one request more.
LEMMA ValueGrows ==
  ASSUME NEW u \in Nat, NEW key, NEW u1, u1 = u + 1, NEW u2, u2 = u1 + 1
  PROVE  /\ IsSet(sent[u1]) /\ Key(sent[u1][2]) = key =>
              SetsBefore(u2, key) # {} /\ ValueBefore(u2, key) = sent[u1][3]
         /\ ~(IsSet(sent[u1]) /\ Key(sent[u1][2]) = key) =>
              SetsBefore(u2, key) = SetsBefore(u1, key) /\ ValueBefore(u2, key) = ValueBefore(u1, key)
<1>1. ASSUME IsSet(sent[u1]), Key(sent[u1][2]) = key
      PROVE  SetsBefore(u2, key) # {} /\ ValueBefore(u2, key) = sent[u1][3]
  <2> DEFINE sets == SetsBefore(u2, key)
             last == CHOOSE j \in sets : \A m \in sets : m <= j
  <2>1. sets = SetsBefore(u1, key) \cup {u1} /\ SetsBefore(u1, key) \subseteq 1 .. u
    BY <1>1, SetsGrow
  <2>2. u1 \in sets /\ (\A m \in sets : m \in 1 .. u1) /\ u1 \in Nat
    BY <2>1
  <2>3. ValueBefore(u2, key) = IF sets = {} THEN NoBytes ELSE sent[last][3]
    BY DEF ValueBefore
  <2> HIDE DEF sets
  <2>4. \A m \in sets : m <= u1
    BY <2>2
  <2>5. last \in sets /\ \A m \in sets : m <= last
    BY <2>2, <2>4
  <2> HIDE DEF last
  <2>6. last = u1
    BY <2>2, <2>5
  <2> QED  BY <2>2, <2>3, <2>6 DEF sets
<1>2. ASSUME ~(IsSet(sent[u1]) /\ Key(sent[u1][2]) = key)
      PROVE  SetsBefore(u2, key) = SetsBefore(u1, key) /\ ValueBefore(u2, key) = ValueBefore(u1, key)
  <2>1. SetsBefore(u2, key) = SetsBefore(u1, key)
    BY <1>2, SetsGrow
  <2> DEFINE V(S) == IF S = {} THEN NoBytes ELSE sent[CHOOSE j \in S : \A m \in S : m <= j][3]
  <2>2. ValueBefore(u2, key) = V(SetsBefore(u2, key)) /\ ValueBefore(u1, key) = V(SetsBefore(u1, key))
    BY DEF ValueBefore
  <2> HIDE DEF V
  <2> QED  BY <2>1, <2>2
<1> QED  BY <1>1, <1>2

\* The store after the next request.
LEMMA StoredNext ==
  ASSUME NEW u \in Nat, Stored(u), NEW u1, u1 = u + 1, sent' = sent, NEW r, r = sent[u1],
         store' = StoreAfter(r), IsSet(r) => IsValue(r[3])
  PROVE  Stored(u1)'
<1> DEFINE u2 == u1 + 1
<1>0. u2 = u1 + 1
  OBVIOUS
<1> HIDE DEF u2
<1>1. ASSUME NEW key
      PROVE  /\ SetsBefore(u2, key)' = SetsBefore(u2, key) /\ ValueBefore(u2, key)' = ValueBefore(u2, key)
  BY DEF SetsBefore, ValueBefore
<1>2. ASSUME NEW key
      PROVE  /\ key \in DOMAIN store <=> SetsBefore(u1, key) # {}
             /\ key \in DOMAIN store => store[key] = ValueBefore(u1, key) /\ IsValue(store[key])
  BY DEF Stored
<1>3. ASSUME NEW key
      PROVE  /\ key \in DOMAIN store' <=> SetsBefore(u2, key) # {}
             /\ key \in DOMAIN store' => store'[key] = ValueBefore(u2, key) /\ IsValue(store'[key])
  <2>1. CASE IsSet(r) /\ Key(r[2]) = key
    <3>1. key \in DOMAIN store' /\ store'[key] = r[3]
      BY <2>1 DEF StoreAfter
    <3>2. SetsBefore(u2, key) # {} /\ ValueBefore(u2, key) = r[3]
      BY <1>0, <2>1, ValueGrows
    <3> QED  BY <2>1, <3>1, <3>2
  <2>2. CASE ~(IsSet(r) /\ Key(r[2]) = key)
    <3>1. (key \in DOMAIN store' <=> key \in DOMAIN store) /\ (key \in DOMAIN store => store'[key] = store[key])
      BY <2>2 DEF StoreAfter
    <3>2. SetsBefore(u2, key) = SetsBefore(u1, key) /\ ValueBefore(u2, key) = ValueBefore(u1, key)
      BY <1>0, <2>2, ValueGrows
    <3> QED  BY <1>2, <3>1, <3>2
  <2> QED  BY <2>1, <2>2
<1>4. ASSUME NEW key
      PROVE  (/\ key \in DOMAIN store <=> SetsBefore(u1 + 1, key) # {}
              /\ key \in DOMAIN store => store[key] = ValueBefore(u1 + 1, key) /\ IsValue(store[key]))'
  BY <1>0, <1>1, <1>3
<1> QED  BY <1>4 DEF Stored

\* A set of numbers up to n has a greatest one.
LEMMA GreatestExists ==
  ASSUME NEW n \in Nat, NEW S, S \subseteq 1 .. n, S # {}
  PROVE  \E x \in S : \A y \in S : y <= x
<1> DEFINE M == {b \in Nat : \A x \in S : x <= b}
<1>1. M \in SUBSET Nat /\ n \in M
  OBVIOUS
<1>2. PICK b \in M : \A y \in M : b <= y
  <2> HIDE DEF M
  <2> QED  BY <1>1, LeastExists
<1>3. b \in Nat /\ \A x \in S : x <= b
  OBVIOUS
<1>4. CASE b \in S
  BY <1>3, <1>4
<1>5. CASE b \notin S
  <2>1. \A x \in S : x \in Nat /\ x >= 1 /\ x # b
    BY <1>5
  <2>2. b >= 1
    <3>1. PICK x \in S : TRUE
      OBVIOUS
    <3>2. x <= b /\ x \in Nat /\ x >= 1
      BY <1>3, <2>1
    <3> QED  BY <1>3, <3>2
  <2>3. b - 1 \in M
    BY <1>3, <2>1, <2>2
  <2> QED  BY <1>2, <1>3, <2>3
<1> QED  BY <1>4, <1>5

\* The value under a key does not change with the requests after it.
LEMMA ValueStays ==
  ASSUME NEW i \in Nat, \A j \in 1 .. i - 1 : sent'[j] = sent[j], NEW key
  PROVE  SetsBefore(i, key)' = SetsBefore(i, key) /\ ValueBefore(i, key)' = ValueBefore(i, key)
<1>1. SetsBefore(i, key)' = SetsBefore(i, key)
  BY DEF SetsBefore
<1> DEFINE sets == SetsBefore(i, key)
           Greatest(S) == CHOOSE j \in S : \A m \in S : m <= j
           last == Greatest(sets)
           Vp(S) == IF S = {} THEN NoBytes ELSE sent'[Greatest(S)][3]
<1>2. ValueBefore(i, key) = IF sets = {} THEN NoBytes ELSE sent[last][3]
  BY DEF ValueBefore
<1>3. ValueBefore(i, key)' = IF sets = {} THEN NoBytes ELSE sent'[last][3]
  <2>1. ValueBefore(i, key)' = Vp(SetsBefore(i, key)')
    BY DEF ValueBefore
  <2>2. Vp(sets) = IF sets = {} THEN NoBytes ELSE sent'[last][3]
    OBVIOUS
  <2> HIDE DEF Vp
  <2>3. SetsBefore(i, key)' = sets
    BY <1>1
  <2> QED  BY <2>1, <2>2, <2>3
<1>4. sets \subseteq 1 .. i - 1
  BY DEF SetsBefore
<1> HIDE DEF sets
<1>5. ASSUME sets # {} PROVE sent'[last] = sent[last]
  <2>1. sets \subseteq 1 .. i
    BY <1>4
  <2>2. last \in sets
    BY <1>5, <2>1, GreatestExists
  <2> QED  BY <1>4, <2>2
<1> QED  BY <1>1, <1>2, <1>3, <1>5

\* What was expected of a query does not change with the requests after it.
LEMMA ExpectedStays ==
  ASSUME NEW i \in Nat, i > 0, \A j \in 1 .. i : sent'[j] = sent[j]
  PROVE  Expected(i)' = Expected(i)
<1>1. sent'[i] = sent[i] /\ \A j \in 1 .. i - 1 : sent'[j] = sent[j]
  OBVIOUS
<1>2. \A key : ValueBefore(i, key)' = ValueBefore(i, key)
  BY <1>1, ValueStays
<1> QED  BY <1>1, <1>2 DEF Expected

Answers == [type : {"bulk", "status"}, bytes : Bytes \cup {NoBytes}]

\* the bytes bs make the answer c for a Query whose parser is ps
Due(c, ps, bs) ==
  c \in Answers /\ \E y : Reads(ps, bs, y) /\ y.stack = <<>> /\ ~y.panic /\ Command(y) = c

\* The answer to a bulk and the answer to a status.
LEMMA BulkDue ==
  ASSUME NEW v, IsValue(v), NEW c, c = [type |-> "bulk", bytes |-> v]
  PROVE  WrapBulk(v) \in Bytes /\ Due(c, NewParser, WrapBulk(v))
<1>1. WrapBulk(v) \in Bytes
  BY ElementBytes DEF Bytes
<1>2. \E y : /\ Reads(NewParser, WrapBulk(v), y) /\ y.stack = <<>> /\ ~y.panic
             /\ Command(y) = [type |-> "bulk", bytes |-> v]
  BY ReadsOneBulk DEF IsValue
<1>3. c \in Answers
  BY DEF Answers, IsValue, Bytes
<1> QED  BY <1>1, <1>2, <1>3 DEF Due

\* The bytes of +OK make the status OK.
LEMMA StatusDue ==
  ASSUME NEW c, c = [type |-> "status", bytes |-> <<"O", "K">>]
  PROVE  StatusOK \in Bytes /\ Due(c, NewParser, StatusOK)
<1> DEFINE ok == <<"O", "K">>
<1>1. "O" \in AnyByte /\ "K" \in AnyByte /\ "+" \in AnyByte
  BY DEF AnyByte
<1>2. ok \in Seq(AnyByte) /\ (\A i \in 1 .. Len(ok) : ok[i] # CR)
  BY <1>1 DEF CR
<1>3. TypeOf("+") = "status"
  BY Types
<1>4. StatusOK = Line("+", ok) /\ c = [type |-> "status", bytes |-> ok]
  BY DEF StatusOK
<1> HIDE DEF ok
<1>5. StatusOK \in Bytes
  BY <1>1, <1>2, <1>4, LineBytes DEF Bytes
<1>6. PICK y : /\ Reads(NewParser, Line("+", ok), y) /\ y.stack = <<>> /\ ~y.panic
               /\ y.cmds[1].type = "status" /\ y.cmds[1].bytes = ok
  BY <1>1, <1>2, <1>3, ReadsOneLine
<1>7. Command(y) = c
  BY <1>4, <1>6 DEF Command
<1>8. c \in Answers
  BY <1>2, <1>4 DEF Answers, Bytes
<1> QED  BY <1>4, <1>5, <1>6, <1>7, <1>8 DEF Due

\* The answer to the next query is the one that is expected.
LEMMA AnswerDue ==
  ASSUME RedisServerAssumption, NEW u \in Nat, Stored(u), NEW u1, u1 = u + 1, NEW r, r = sent[u1], r \in Queries
  PROVE  Answer(r) \in Bytes /\ Due(Expected(u1), NewParser, Answer(r))
<1>1. Len(r) \in Nat /\ \A i \in 1 .. Len(r) : IsValue(r[i])
  BY QueryValues
<1>2. CASE IsGet(r)
  <2> DEFINE key == Key(r[2])
             v == ValueBefore(u1, key)
  <2>1. Expected(u1) = [type |-> "bulk", bytes |-> v]
    BY <1>2 DEF Expected
  <2>2. Answer(r) = IF key \in DOMAIN store THEN WrapBulk(store[key]) ELSE WrapBulk(NoBytes)
    BY <1>2 DEF Answer, Null
  <2> HIDE DEF key
  <2>3. /\ key \in DOMAIN store <=> SetsBefore(u1, key) # {}
        /\ key \in DOMAIN store => store[key] = v /\ IsValue(store[key])
    BY DEF Stored
  <2>4. key \notin DOMAIN store => v = NoBytes
    BY <2>3 DEF ValueBefore
  <2> HIDE DEF v
  <2>5. IsValue(v) /\ Answer(r) = WrapBulk(v)
    BY <2>2, <2>3, <2>4 DEF IsValue
  <2> QED  BY <2>1, <2>5, BulkDue
<1>3. CASE ~IsGet(r) /\ IsPing(r)
  <2> DEFINE v == IF Len(r) = 1 THEN Pong ELSE r[2]
  <2>1. Expected(u1) = [type |-> "bulk", bytes |-> v] /\ Answer(r) = WrapBulk(v)
    BY <1>3 DEF Expected, Answer
  <2>2. IsValue(Pong)
    <3>1. "P" \in AnyByte /\ "O" \in AnyByte /\ "N" \in AnyByte /\ "G" \in AnyByte
      BY DEF AnyByte
    <3>2. Pong \in Seq(AnyByte) /\ Len(Pong) = 4
      BY <3>1 DEF Pong
    <3> QED  BY <3>2 DEF IsValue
  <2>3. Len(r) = 1 \/ Len(r) = 2
    BY <1>3 DEF IsPing
  <2>4. IsValue(v)
    <3>1. Len(r) # 1 => IsValue(r[2])
      BY <1>1, <2>3
    <3> QED  BY <2>2, <3>1
  <2> HIDE DEF v
  <2> QED  BY <2>1, <2>4, BulkDue
<1>4. CASE ~IsGet(r) /\ ~IsPing(r)
  <2>1. Expected(u1) = [type |-> "status", bytes |-> <<"O", "K">>] /\ Answer(r) = StatusOK
    BY <1>4 DEF Expected, Answer
  <2> QED  BY <2>1, StatusDue
<1> QED  BY <1>2, <1>3, <1>4

\* An answer has bytes, and is no NoCommand.
LEMMA DueBytes ==
  /\ \A c, bs : Due(c, NewParser, bs) => bs # <<>>
  /\ NoCommand \notin Answers
<1>1. ASSUME NEW c, Due(c, NewParser, <<>>) PROVE FALSE
  <2>1. PICK y : Reads(NewParser, <<>>, y) /\ y.stack = <<>>
    BY <1>1 DEF Due
  <2>2. Len(<<>>) = 0
    OBVIOUS
  <2>3. y = NewParser
    BY <2>1, <2>2 DEF Reads
  <2>4. NewParser.stack = <<1>> /\ <<1>> # <<>>
    BY DEF NewParser
  <2> QED  BY <2>1, <2>3, <2>4
<1>2. NoCommand \notin Answers
  BY DEF NoCommand, Answers
<1> QED  BY <1>1, <1>2

\* What a Read does: it has a part of the answer and keeps the rest due, or all.
LEMMA ReadsAnswer ==
  ASSUME NEW c, NEW ps, NEW a \in Bytes, NEW b \in Bytes, Due(c, ps, Cat(a, b)), NEW o, o = Write(ps, a)
  PROVE  \/ b # <<>> /\ ~HasCommand(o.ps) /\ Due(c, o.ps, b)
         \/ b = <<>> /\ HasCommand(o.ps) /\ Command(o.ps) = c
<1>1. PICK y : Reads(ps, Cat(a, b), y) /\ y.stack = <<>> /\ ~y.panic /\ Command(y) = c
  BY DEF Due
<1>2. CASE b = <<>>
  <2>1. Reads(ps, a, y)
    BY <1>1, <1>2, CatNone
  <2>2. o.ps = y
    BY <2>1, WritesAll
  <2> QED  BY <1>1, <1>2, <2>2 DEF HasCommand
<1>3. CASE b # <<>>
  <2>1. PICK z : Reads(ps, a, z) /\ Reads(z, b, y) /\ ~Stopped(z)
    BY <1>1, <1>3, CatCut
  <2>2. o.ps = z
    BY <2>1, WritesAll
  <2>3. ~HasCommand(z)
    BY <2>1 DEF Stopped, HasCommand
  <2>4. Due(c, z, b)
    BY <1>1, <2>1 DEF Due
  <2> QED  BY <1>3, <2>2, <2>3, <2>4
<1> QED  BY <1>2, <1>3

\* The three states of the connection between two Querys: no Query is under way; its
\* request is on its way; its answer is, or what has not been read of it.
Idle == Len(sent) = Len(got) /\ Len(understood) = Len(got) /\ back = <<>>
Asked == Len(sent) = Len(got) + 1 /\ Len(understood) = Len(got) /\ back = <<>> /\ p = NewParser
Answered ==
  /\ Len(sent) = Len(got) + 1 /\ Len(understood) = Len(sent)
  /\ back # <<>> /\ Due(Expected(Len(sent)), p, back)

\* What each Query that returned has got.
GotRight ==
  \A i \in 1 .. Len(got) : got[i] \in {Expected(i), NoCommand} /\ (got[i] = NoCommand => lost)

QueryInv ==
  /\ back \in Bytes /\ (lost => back = <<>>)
  /\ got \in Seq(Answers \cup {NoCommand}) /\ Len(got) <= Len(sent) /\ GotRight
  /\ Stored(Len(understood))
  /\ ~lost => buf = <<>> /\ (Idle \/ Asked \/ Answered)

RedisInv == StreamInv /\ (mode = "query" => QueryInv)

\* A step that leaves the requests and the store alone.
LEMMA StoredSame ==
  ASSUME NEW u, Stored(u), sent' = sent, store' = store
  PROVE  Stored(u)'
<1>1. ASSUME NEW key
      PROVE  /\ SetsBefore(u + 1, key)' = SetsBefore(u + 1, key)
             /\ ValueBefore(u + 1, key)' = ValueBefore(u + 1, key)
  BY DEF SetsBefore, ValueBefore
<1>2. ASSUME NEW key
      PROVE  (/\ key \in DOMAIN store <=> SetsBefore(u + 1, key) # {}
              /\ key \in DOMAIN store => store[key] = ValueBefore(u + 1, key) /\ IsValue(store[key]))'
  BY <1>1 DEF Stored
<1> QED  BY <1>2 DEF Stored

\* what was expected when the requests are the same
LEMMA ExpectedSame ==
  ASSUME sent' = sent
  PROVE  \A i : Expected(i)' = Expected(i)
  BY DEF Expected, ValueBefore, SetsBefore

\* No Query is under way when the connection starts.
LEMMA QueryInit == RedisInit => QueryInv
<1> SUFFICES ASSUME RedisInit PROVE QueryInv
  OBVIOUS
<1> DEFINE e == <<>>
<1>1. e \in Seq(Answers \cup {NoCommand}) /\ Len(e) = 0 /\ e \in Bytes /\ DOMAIN e = {}
  BY CatNone
<1>2. sent = e /\ buf = e /\ understood = e /\ back = e /\ got = e /\ store = e /\ ~lost
  BY DEF RedisInit
<1>a. e = <<>>
  OBVIOUS
<1> HIDE DEF e
<1>3. Idle
  BY <1>1, <1>2, <1>a DEF Idle
<1>4. GotRight
  BY <1>1, <1>2 DEF GotRight
<1>5. Stored(0)
  <2>1. \A key : SetsBefore(0 + 1, key) = {}
    BY DEF SetsBefore
  <2> QED  BY <1>1, <1>2, <2>1 DEF Stored
<1>6. Len(understood) = 0 /\ Len(got) = 0 /\ Len(sent) = 0
  BY <1>1, <1>2
<1> QED  BY <1>1, <1>2, <1>3, <1>4, <1>5, <1>6, <1>a DEF QueryInv

\* A Query is sent when none is under way.
LEMMA QueryAsks ==
  ASSUME RedisServerAssumption, StreamInv, QueryInv, NEW argv \in Queries, Query(argv)
  PROVE  QueryInv'
<1>a. PICK u : u = Len(understood)
  OBVIOUS
<1>b. PICK n : n = Len(sent)
  OBVIOUS
<1>1. /\ mode = "query" /\ ~lost /\ n = Len(got) /\ sent' = Append(sent, argv) /\ p' = NewParser
      /\ buf' = buf /\ store' = store /\ understood' = understood /\ back' = back /\ got' = got /\ lost' = lost
  BY <1>b DEF Query, serverVars
<1>2. sent \in Seq(Queries) /\ n \in Nat
  BY <1>1, <1>b DEF StreamInv
<1>3. /\ back \in Bytes /\ got \in Seq(Answers \cup {NoCommand}) /\ GotRight /\ Stored(u) /\ buf = <<>>
      /\ Idle \/ Asked \/ Answered
  BY <1>1, <1>a DEF QueryInv
<1>4. Idle
  BY <1>1, <1>2, <1>3, <1>b DEF Asked, Answered
<1>5. u = n /\ back = <<>>
  BY <1>1, <1>4, <1>a DEF Idle
<1>6. Len(sent') = n + 1 /\ \A j \in 1 .. n : sent'[j] = sent[j]
  BY <1>1, <1>2, <1>b, AppendElements
<1>7. GotRight'
  <2>1. ASSUME NEW i \in 1 .. n PROVE Expected(i)' = Expected(i)
    <3>1. i \in Nat /\ i > 0 /\ \A j \in 1 .. i : sent'[j] = sent[j]
      BY <1>2, <1>6
    <3> QED  BY <3>1, ExpectedStays
  <2>2. \A i \in 1 .. n : got[i] \in {Expected(i), NoCommand} /\ (got[i] = NoCommand => lost)
    BY <1>1, <1>3 DEF GotRight
  <2>3. Len(got') = n /\ got' = got /\ lost' = lost
    BY <1>1
  <2> QED  BY <2>1, <2>2, <2>3 DEF GotRight
<1>8. Stored(u)'
  <2>0. PICK u1 : u1 = u + 1
    OBVIOUS
  <2>1. u1 \in Nat /\ \A j \in 1 .. u1 - 1 : sent'[j] = sent[j]
    BY <1>2, <1>5, <1>6, <2>0
  <2>2. \A key : SetsBefore(u1, key)' = SetsBefore(u1, key) /\ ValueBefore(u1, key)' = ValueBefore(u1, key)
    BY <2>1, ValueStays
  <2>3. ASSUME NEW key
        PROVE  /\ key \in DOMAIN store <=> SetsBefore(u1, key) # {}
               /\ key \in DOMAIN store => store[key] = ValueBefore(u1, key) /\ IsValue(store[key])
    BY <1>3, <2>0 DEF Stored
  <2>4. ASSUME NEW key
        PROVE  (/\ key \in DOMAIN store <=> SetsBefore(u + 1, key) # {}
                /\ key \in DOMAIN store => store[key] = ValueBefore(u + 1, key) /\ IsValue(store[key]))'
    BY <1>1, <2>0, <2>2, <2>3
  <2> QED  BY <2>4 DEF Stored
<1>9. Asked'
  BY <1>1, <1>5, <1>6, <1>a DEF Asked
<1>10. Len(understood)' = u /\ buf' = <<>> /\ Len(got') <= Len(sent')
  BY <1>1, <1>2, <1>3, <1>6, <1>a
<1>11. Stored(Len(understood))'
  BY <1>8, <1>10
<1> QED  BY <1>1, <1>3, <1>5, <1>7, <1>9, <1>10, <1>11 DEF QueryInv

\* The server has a part of the request and waits, or answers it.
LEMMA QueryHandles ==
  ASSUME RedisServerAssumption, StreamInv, QueryInv, mode = "query", NEW k \in 1 .. Len(wire), HandleBytes(k)
  PROVE  QueryInv'
<1>a. PICK u : u = Len(understood)
  OBVIOUS
<1>b. PICK n : n = Len(sent)
  OBVIOUS
<1>c. PICK u1 : u1 = u + 1
  OBVIOUS
<1>d. PICK r : r = sent[u1]
  OBVIOUS
<1>0. u = Len(understood) /\ n = Len(sent) /\ u1 = u + 1 /\ r = sent[u1]
  BY <1>a, <1>b, <1>c, <1>d
<1>1. /\ mode' = mode /\ sent' = sent /\ p' = p /\ got' = got /\ ~lost /\ u < n
      /\ \/ lost' /\ r = NegMulti
         \/ ~lost' /\ r = <<>>
         \/ ~lost' /\ buf' = <<>> /\ understood' = understood /\ store' = store /\ back' = back
         \/ /\ ~lost' /\ u1 = n => buf' = <<>>
            /\ ~lost' /\ understood' = Append(understood, r) /\ store' = StoreAfter(r)
            /\ r # BadLine => back' = Cat(back, Answer(r))
  BY <1>0, HandleCases
<1>2. sent \in Seq(Queries) /\ n \in Nat /\ understood \in Seq(Requests) /\ u \in Nat /\ u1 \in Nat
  BY <1>0 DEF StreamInv
<1>3. r \in Queries /\ r # <<>> /\ r \notin {BadLine, NegMulti} /\ \A i \in 1 .. Len(r) : IsValue(r[i])
  <2>1. r \in Queries
    BY <1>0, <1>1, <1>2
  <2> QED  BY <2>1, QueryValues
<1>4. /\ back \in Bytes /\ got \in Seq(Answers \cup {NoCommand}) /\ GotRight /\ Stored(u) /\ buf = <<>>
      /\ Idle \/ Asked \/ Answered
      /\ Len(got) <= Len(sent)
  BY <1>0, <1>1 DEF QueryInv
<1>5. Asked
  <2>1. ~Idle /\ ~Answered
    BY <1>0, <1>1, <1>2 DEF Idle, Answered
  <2> QED  BY <1>4, <2>1
<1>6. n = Len(got) + 1 /\ u = Len(got) /\ back = <<>> /\ p = NewParser /\ n = u1
  BY <1>0, <1>5 DEF Asked
<1>7. ~lost' /\ GotRight'
  <2>1. ~lost'
    BY <1>1, <1>3
  <2>2. \A i : Expected(i)' = Expected(i)
    BY <1>1 DEF Expected, ValueBefore, SetsBefore
  <2> QED  BY <1>1, <1>4, <2>1, <2>2 DEF GotRight
<1>8. CASE buf' = <<>> /\ understood' = understood /\ store' = store /\ back' = back
  <2>1. Asked'
    BY <1>1, <1>5, <1>8 DEF Asked
  <2>2. Stored(u)'
    BY <1>1, <1>4, <1>8, StoredSame
  <2>3. Len(understood)' = u /\ Len(got') <= Len(sent')
    <3>1. Len(understood)' = Len(understood) /\ Len(got') = Len(got) /\ Len(sent') = Len(sent)
      BY <1>1, <1>8
    <3> QED  BY <1>0, <1>4, <3>1
  <2>4. Stored(Len(understood))'
    BY <2>2, <2>3
  <2> QED  BY <1>1, <1>4, <1>7, <1>8, <2>1, <2>3, <2>4 DEF QueryInv
<1>9. CASE /\ understood' = Append(understood, r) /\ store' = StoreAfter(r) /\ back' = Cat(back, Answer(r))
           /\ buf' = <<>>
  <2>1. Len(understood') = u1
    BY <1>0, <1>2, <1>3, <1>9, AppendElements, Subsets
  <2>2. Stored(u1)'
    <3>1. IsSet(r) => IsValue(r[3])
      BY <1>3 DEF IsSet
    <3> QED  BY <1>0, <1>1, <1>2, <1>4, <1>9, <3>1, StoredNext
  <2>3. Answer(r) \in Bytes /\ Due(Expected(u1), NewParser, Answer(r))
    BY <1>0, <1>2, <1>3, <1>4, AnswerDue
  <2>4. back' = Answer(r)
    BY <1>6, <1>9, <2>3, CatNone
  <2>5. Expected(u1)' = Expected(u1)
    BY <1>1 DEF Expected, ValueBefore, SetsBefore
  <2>6. Due(Expected(u1)', p', back') /\ back' # <<>>
    BY <1>1, <1>6, <2>3, <2>4, <2>5, DueBytes
  <2>7. Len(sent') = u1 /\ Len(sent') = Len(got') + 1
    BY <1>0, <1>1, <1>6
  <2>8. Expected(Len(sent))' = Expected(u1)'
    BY <2>7
  <2>9. Answered'
    BY <2>1, <2>6, <2>7, <2>8 DEF Answered, Due
  <2>10. Stored(Len(understood))'
    BY <2>1, <2>2
  <2>11. back' \in Bytes /\ got' \in Seq(Answers \cup {NoCommand}) /\ Len(got') <= Len(sent')
    BY <1>1, <1>4, <2>3, <2>4
  <2> QED  BY <1>7, <1>9, <2>9, <2>10, <2>11 DEF QueryInv
<1> QED  BY <1>1, <1>3, <1>6, <1>8, <1>9

\* A Read takes a part of the answer, or the whole of it and no more.
LEMMA QueryReads ==
  ASSUME RedisServerAssumption, StreamInv, QueryInv, NEW k \in 1 .. Len(back), QueryRead(k)
  PROVE  QueryInv'
<1>a. PICK n : n = Len(sent)
  OBVIOUS
<1>b. PICK u : u = Len(understood)
  OBVIOUS
<1>c. PICK a : a = SubSeq(back, 1, k)
  OBVIOUS
<1>d. PICK b : b = SubSeq(back, k + 1, Len(back))
  OBVIOUS
<1>e. PICK o : o = Write(p, a)
  OBVIOUS
<1>1. /\ mode = "query" /\ back' = b /\ p' = o.ps
      /\ got' = IF HasCommand(o.ps) THEN Append(got, Command(o.ps)) ELSE got
      /\ sent' = sent /\ lost' = lost /\ buf' = buf /\ understood' = understood /\ store' = store
  BY <1>c, <1>d, <1>e DEF QueryRead, serverVars
<1>2. /\ back \in Bytes /\ (lost => back = <<>>) /\ got \in Seq(Answers \cup {NoCommand})
      /\ Len(got) <= n /\ GotRight /\ Stored(u)
      /\ ~lost => buf = <<>> /\ (Idle \/ Asked \/ Answered)
  BY <1>a, <1>b DEF QueryInv
<1>3. a \in Bytes /\ b \in Bytes /\ back = Cat(a, b)
  <2>1. k \in 0 .. Len(back)
    BY <1>2 DEF Bytes
  <2> QED  BY <1>2, <1>c, <1>d, <2>1, Divided DEF Bytes, Cat
<1>4. back # <<>>
  <2>1. Len(<<>>) = 0
    OBVIOUS
  <2> QED  BY <2>1
<1>5. ~lost /\ Answered
  BY <1>2, <1>4 DEF Idle, Asked
<1>6. n = Len(got) + 1 /\ u = n /\ Due(Expected(n), p, back) /\ buf = <<>> /\ n \in Nat /\ Len(got) \in Nat
  BY <1>2, <1>5, <1>a, <1>b DEF Answered
<1>7. PICK c : c = Expected(n)
  OBVIOUS
<1>8. c \in Answers /\ \A i : Expected(i)' = Expected(i)
  BY <1>1, <1>6, <1>7, ExpectedSame DEF Due
<1>9. \/ b # <<>> /\ ~HasCommand(o.ps) /\ Due(c, o.ps, b)
      \/ b = <<>> /\ HasCommand(o.ps) /\ Command(o.ps) = c
  <2>1. Due(c, p, Cat(a, b))
    BY <1>3, <1>6, <1>7
  <2> QED  BY <1>3, <1>e, <2>1, ReadsAnswer
<1>10. Stored(u)' /\ Len(understood') = u /\ Len(sent') = n
  BY <1>1, <1>2, <1>a, <1>b, StoredSame
<1>11. Stored(Len(understood))'
  BY <1>10
<1>12. CASE b # <<>> /\ ~HasCommand(o.ps) /\ Due(c, o.ps, b)
  <2>1. got' = got
    BY <1>1, <1>12
  <2>2. GotRight'
    BY <1>1, <1>2, <1>8, <2>1 DEF GotRight
  <2>3. Expected(Len(sent))' = c
    BY <1>7, <1>8, <1>10
  <2>4. Answered'
    BY <1>1, <1>6, <1>10, <1>12, <2>1, <2>3 DEF Answered, Due
  <2>5. Len(got') <= Len(sent')
    BY <1>2, <1>10, <2>1
  <2> QED  BY <1>1, <1>2, <1>3, <1>5, <1>6, <1>11, <2>1, <2>2, <2>4, <2>5 DEF QueryInv
<1>13. CASE b = <<>> /\ HasCommand(o.ps) /\ Command(o.ps) = c
  <2>1. got' = Append(got, c)
    BY <1>1, <1>13
  <2>2. /\ got' \in Seq(Answers \cup {NoCommand}) /\ Len(got') = n /\ got'[n] = c
        /\ \A i \in 1 .. n - 1 : got'[i] = got[i]
    BY <1>2, <1>6, <1>8, <2>1, AppendElements
  <2>3. GotRight'
    <3>1. \A i \in 1 .. n - 1 : got[i] \in {Expected(i), NoCommand} /\ (got[i] = NoCommand => lost)
      BY <1>2, <1>6 DEF GotRight
    <3>2. c # NoCommand
      BY <1>8, DueBytes
    <3>3. ASSUME NEW i \in 1 .. n
          PROVE  got'[i] \in {Expected(i), NoCommand} /\ (got'[i] = NoCommand => lost)
      <4>1. i = n \/ i \in 1 .. n - 1
        BY <1>6
      <4> QED  BY <1>7, <2>2, <3>1, <3>2, <4>1
    <3> QED  BY <1>1, <1>8, <2>2, <3>3 DEF GotRight
  <2>4. Idle'
    BY <1>1, <1>6, <1>10, <1>13, <2>2 DEF Idle
  <2>5. Len(got') <= Len(sent')
    BY <1>6, <1>10, <2>2
  <2> QED  BY <1>1, <1>3, <1>5, <1>6, <1>11, <2>2, <2>3, <2>4, <2>5 DEF QueryInv
<1> QED  BY <1>9, <1>12, <1>13

\* A Query that the connection is lost under returns without a command.
LEMMA QueryEnds ==
  ASSUME RedisServerAssumption, StreamInv, QueryInv, QueryFails
  PROVE  QueryInv'
<1>1. /\ lost /\ Len(got) < Len(sent) /\ back = <<>> /\ got' = Append(got, NoCommand)
      /\ sent' = sent /\ lost' = lost /\ understood' = understood /\ store' = store /\ back' = back
  BY DEF QueryFails, serverVars
<1>2. /\ back \in Bytes /\ got \in Seq(Answers \cup {NoCommand}) /\ GotRight /\ Stored(Len(understood))
      /\ Len(got) \in Nat /\ sent \in Seq(Requests) /\ Len(sent) \in Nat
  BY DEF QueryInv, StreamInv
<1>3. /\ got' \in Seq(Answers \cup {NoCommand}) /\ Len(got') = Len(got) + 1 /\ got'[Len(got) + 1] = NoCommand
      /\ \A i \in 1 .. Len(got) : got'[i] = got[i]
  BY <1>1, <1>2, AppendElements
<1>4. GotRight'
  <2>1. \A i : Expected(i)' = Expected(i)
    BY <1>1, ExpectedSame
  <2>2. ASSUME NEW i \in 1 .. Len(got') PROVE got'[i] \in {Expected(i), NoCommand}
    <3>1. i = Len(got) + 1 \/ i \in 1 .. Len(got)
      BY <1>2, <1>3
    <3> QED  BY <1>2, <1>3, <3>1 DEF GotRight
  <2> QED  BY <1>1, <2>1, <2>2 DEF GotRight
<1>5. Stored(Len(understood))'
  <2>1. PICK u : u = Len(understood)
    OBVIOUS
  <2>2. Stored(u)' /\ Len(understood)' = u
    BY <1>1, <1>2, <2>1, StoredSame
  <2> QED  BY <2>2
<1>6. Len(got') <= Len(sent')
  BY <1>1, <1>2, <1>3
<1> QED  BY <1>1, <1>2, <1>3, <1>4, <1>5, <1>6 DEF QueryInv

\* The connection breaks.
LEMMA QueryBreaks ==
  ASSUME QueryInv, Break
  PROVE  QueryInv'
<1>1. /\ ~lost /\ lost' /\ back' = <<>> /\ got' = got /\ sent' = sent /\ understood' = understood /\ store' = store
  BY DEF Break, serverVars, queryVars
<1>2. /\ got \in Seq(Answers \cup {NoCommand}) /\ GotRight /\ Stored(Len(understood)) /\ Len(got) <= Len(sent)
  BY DEF QueryInv
<1>3. GotRight'
  <2>1. \A i : Expected(i)' = Expected(i)
    BY <1>1, ExpectedSame
  <2> QED  BY <1>1, <1>2, <2>1 DEF GotRight
<1>4. Stored(Len(understood))'
  <2>1. PICK u : u = Len(understood)
    OBVIOUS
  <2>2. Stored(u)' /\ Len(understood)' = u
    BY <1>1, <1>2, <2>1, StoredSame
  <2> QED  BY <2>2
<1>5. Len(got') <= Len(sent')
  BY <1>1, <1>2
<1> QED  BY <1>1, <1>2, <1>3, <1>4, <1>5, CatNone DEF QueryInv

\* Every step of the connection keeps both parts of the invariant.
LEMMA RedisKeeps ==
  ASSUME RedisServerAssumption, RedisInv, [RedisNext]_redisVars
  PROVE RedisInv'
<1>1. StreamInv /\ (mode = "query" => QueryInv)
  BY DEF RedisInv
<1>2. StreamInv'
  BY <1>1, StreamNext
<1>3. mode' = mode
  BY DEF RedisNext, Query, SendPiped, HandleBytes, QueryRead, QueryFails, Break, redisVars
<1>4. CASE mode # "query"
  BY <1>2, <1>3, <1>4 DEF RedisInv
<1>5. CASE mode = "query"
  <2>0. QueryInv
    BY <1>1, <1>5
  <2>1. ASSUME NEW argv \in Queries, Query(argv) PROVE QueryInv'
    BY <1>1, <2>0, <2>1, QueryAsks
  <2>2. ASSUME NEW r \in Piped, SendPiped(r) PROVE QueryInv'
    BY <1>5, <2>2 DEF SendPiped
  <2>3. ASSUME NEW k \in 1 .. Len(wire), HandleBytes(k) PROVE QueryInv'
    BY <1>1, <1>5, <2>0, <2>3, QueryHandles
  <2>4. ASSUME NEW k \in 1 .. Len(back), QueryRead(k) PROVE QueryInv'
    BY <1>1, <2>0, <2>4, QueryReads
  <2>5. ASSUME QueryFails PROVE QueryInv'
    BY <1>1, <2>0, <2>5, QueryEnds
  <2>6. ASSUME Break PROVE QueryInv'
    BY <2>0, <2>6, QueryBreaks
  <2>7. ASSUME UNCHANGED redisVars PROVE QueryInv'
    <3>1. /\ lost' = lost /\ back' = back /\ got' = got /\ sent' = sent /\ understood' = understood
          /\ store' = store /\ buf' = buf /\ p' = p
      BY <2>7 DEF redisVars, serverVars, queryVars
    <3>2. \A i : Expected(i)' = Expected(i)
      BY <3>1, ExpectedSame
    <3>3. GotRight'
      BY <2>0, <3>1, <3>2 DEF GotRight, QueryInv
    <3>4. Stored(Len(understood))'
      <4>1. PICK u : u = Len(understood)
        OBVIOUS
      <4>2. Stored(u)' /\ Len(understood)' = u
        BY <2>0, <3>1, <4>1, StoredSame DEF QueryInv
      <4> QED  BY <4>2
    <3>5. (Idle \/ Asked) => (Idle \/ Asked)'
      BY <3>1 DEF Idle, Asked
    <3>6. Answered => Answered'
      <4>1. PICK n : n = Len(sent)
        OBVIOUS
      <4>2. Expected(n)' = Expected(n) /\ Len(sent)' = n
        BY <3>1, <3>2, <4>1
      <4>3. Expected(Len(sent))' = Expected(Len(sent))
        BY <4>1, <4>2
      <4> QED  BY <3>1, <4>3 DEF Answered, Due
    <3> QED  BY <2>0, <3>1, <3>3, <3>4, <3>5, <3>6 DEF QueryInv
  <2>8. QueryInv'
    BY <2>1, <2>2, <2>3, <2>4, <2>5, <2>6, <2>7 DEF RedisNext
  <2> QED  BY <1>2, <2>8 DEF RedisInv
<1> QED  BY <1>4, <1>5

\* When nothing is on its way, no Query is waiting.
LEMMA NothingPending ==
  ASSUME RedisInv, mode = "query", ~lost, wire = <<>>, back = <<>>
  PROVE  Len(got) = Len(sent)
<1>1. StreamInv /\ QueryInv
  BY DEF RedisInv
<1>2. buf = <<>> /\ (Idle \/ Asked) /\ sent \in Seq(Requests) /\ Flow(sent, Len(understood), buf, wire, parser)
  BY <1>1 DEF QueryInv, StreamInv, Answered
<1>3. Idle => Len(got) = Len(sent)
  BY DEF Idle
<1>4. ASSUME Asked PROVE FALSE
  <2> DEFINE u == Len(understood)
  <2>0. u = Len(got) /\ Len(sent) = Len(got) + 1 /\ got \in Seq(Answers \cup {NoCommand})
    BY <1>1, <1>4 DEF Asked, QueryInv
  <2>1. u < Len(sent) /\ u \in Nat
    BY <2>0
  <2>2. PICK F : /\ Chain(F, sent)
                 /\ \/ u = Len(sent) /\ buf = <<>> /\ wire = <<>> /\ parser = NewParser
                    \/ u < Len(sent) /\ \E rest, y : Under(F, sent, u, buf, wire, parser, rest, y)
    BY <1>2 DEF Flow
  <2>3. PICK rest, y : Under(F, sent, u, buf, wire, parser, rest, y)
    BY <2>1, <2>2
  <2>4. F[u + 2] \in Bytes
    BY <2>1, <2>2 DEF Chain
  <2>5. rest \in Bytes /\ rest # <<>> /\ Cat(buf, wire) = Cat(rest, F[u + 2])
    BY <2>3 DEF Under
  <2>6. Cat(buf, wire) = <<>>
    BY <1>2, CatNone
  <2> QED  BY <2>4, <2>5, <2>6, CatBytes
<1> QED  BY <1>2, <1>3, <1>4

\* Query returns the answer to its own request, of the last SET of its key for a GET,
\* or fails because the connection is lost; and none is left waiting.
THEOREM QueriesGetAnswers == RedisSpec => []QueriesAnswered
<1>1. RedisInit => RedisInv
  BY StreamInit, QueryInit DEF RedisInv
<1>2. RedisInv /\ [RedisNext]_redisVars => RedisInv'
  BY RedisKeeps, RedisServerAssumption
<1>3. RedisInv => QueriesAnswered
  <2> SUFFICES ASSUME RedisInv, mode = "query" PROVE
                 /\ \A i \in DOMAIN got : got[i] \in {Expected(i), NoCommand}
                 /\ \A i \in DOMAIN got : got[i] = NoCommand => lost
                 /\ ~lost /\ wire = <<>> /\ back = <<>> => Len(got) = Len(sent)
    BY DEF QueriesAnswered
  <2>1. GotRight /\ got \in Seq(Answers \cup {NoCommand})
    BY DEF RedisInv, QueryInv
  <2>2. DOMAIN got = 1 .. Len(got)
    BY <2>1
  <2>3. ~lost /\ wire = <<>> /\ back = <<>> => Len(got) = Len(sent)
    BY NothingPending
  <2> QED  BY <2>1, <2>2, <2>3 DEF GotRight
<1> QED  BY <1>1, <1>2, <1>3, PTL DEF RedisSpec
=============================================================================
