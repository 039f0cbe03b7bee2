------------------------------- MODULE Logger -------------------------------
(***************************************************************************)
(* logger.go and ctrl.go: Log puts its record into the channel of every    *)
(* registered logger, one after the other and without the lock; AddLogger  *)
(* and DelLogger look at the map before they take it.  The Go runtime ends *)
(* the process when it notices a map that is read while it is written, and *)
(* on a send to, or a close of, a closed channel.                          *)
(***************************************************************************)
EXTENDS Null, Naturals, Sequences, SequencesExt, FiniteSets, Functions

CONSTANTS
  Id,        \* names of loggers
  Record,    \* records, each logged by a goroutine of its own
  Keeper,    \* goroutines that add and delete loggers
  LogCap,    \* capacity of a channel, 16 in AddLogger
  MaxLogger  \* bound: channels that are ever made

ASSUME LoggerAssumption ==
  /\ LogCap \in Nat \ {0} /\ MaxLogger \in Nat
  /\ IsFiniteSet(Keeper) /\ NULL \notin Keeper

Chan == 1 .. MaxLogger

VARIABLES
  logChannels, \* cm.logChannels
  mux,         \* the keeper that holds cm.mux, or NULL
  made,        \* channels made so far
  buf,         \* what is in each channel
  shut,        \* channels that are closed
  output,      \* what each logger's f was called with
  keeper,      \* where each keeper is, with the id and the channel it read
  logging,     \* where each Log is: the channels there were when it started,
               \* those its range loop has had, and the one it sends to
  crashed      \* the runtime has ended the process

logVars == <<logChannels, mux, made, buf, shut, output, keeper, logging, crashed>>
chanVars == <<made, buf, shut, output>>

Idle == [at |-> "idle", id |-> NULL, ch |-> 0]

NotCalled == [at |-> "idle", found |-> {}, had |-> {}, ch |-> 0]

LogInit ==
  /\ logChannels = << >> /\ mux = NULL /\ made = 0 /\ shut = {} /\ crashed = FALSE
  /\ buf = [ch \in Chan |-> << >>] /\ output = [ch \in Chan |-> << >>]
  /\ keeper = [k \in Keeper |-> Idle] /\ logging = [r \in Record |-> NotCalled]

\* the runtime's mark on a map that is being written
Writing == \E k \in Keeper : keeper[k].at \in {"adding", "deleting"}

\* the keepers that will make a channel when they have the lock
Adding == {k \in Keeper : keeper[k].at = "add"}

\* the process and all its memory are gone
Crash ==
  /\ crashed' = TRUE
  /\ logChannels' = << >> /\ mux' = NULL /\ made' = 0 /\ shut' = {}
  /\ buf' = [ch \in Chan |-> << >>] /\ output' = [ch \in Chan |-> << >>]
  /\ keeper' = [k \in Keeper |-> Idle] /\ logging' = [r \in Record |-> NotCalled]

-----------------------------------------------------------------------------
(* AddLogger and DelLogger.                                                 *)

\* the lookup before the lock
KeeperLooks(k, id, op) ==
  /\ ~crashed /\ keeper[k].at = "idle"
  /\ op = "add" => made + Cardinality(Adding) < MaxLogger
  /\ IF Writing THEN Crash
     ELSE /\ (op = "del") = (id \in DOMAIN logChannels)   \* it returns otherwise
          /\ keeper' = [keeper EXCEPT ![k] =
               [at |-> op, id |-> id, ch |-> IF op = "del" THEN logChannels[id] ELSE 0]]
          /\ UNCHANGED <<logChannels, mux, chanVars, logging, crashed>>

\* mux.Lock, and the write to the map begins
KeeperLocks(k) ==
  /\ ~crashed /\ keeper[k].at \in {"add", "del"} /\ mux = NULL /\ mux' = k
  /\ IF keeper[k].at = "add"
     THEN /\ made' = made + 1
          /\ keeper' = [keeper EXCEPT ![k].at = "adding", ![k].ch = made']
     ELSE keeper' = [keeper EXCEPT ![k].at = "deleting"] /\ UNCHANGED made
  /\ UNCHANGED <<logChannels, buf, shut, output, logging, crashed>>

\* the entry is written, the logger's goroutine started, the lock released
AddLogger(k) ==
  /\ ~crashed /\ keeper[k].at = "adding"
  /\ logChannels' = [id \in DOMAIN logChannels \cup {keeper[k].id} |->
                       IF id = keeper[k].id THEN keeper[k].ch ELSE logChannels[id]]
  /\ keeper' = [keeper EXCEPT ![k] = Idle] /\ mux' = NULL
  /\ UNCHANGED <<chanVars, logging, crashed>>

\* the entry of the id is gone, whatever channel is in it by now
DelLogger(k) ==
  /\ ~crashed /\ keeper[k].at = "deleting"
  /\ logChannels' = Restrict(logChannels, DOMAIN logChannels \ {keeper[k].id})
  /\ keeper' = [keeper EXCEPT ![k].at = "closing"]
  /\ UNCHANGED <<mux, chanVars, logging, crashed>>

\* close(ch), which a second DelLogger of the same logger may have done
CloseChan(k) ==
  /\ ~crashed /\ keeper[k].at = "closing"
  /\ IF keeper[k].ch \in shut THEN Crash
     ELSE /\ shut' = shut \cup {keeper[k].ch} /\ mux' = NULL
          /\ keeper' = [keeper EXCEPT ![k] = Idle]
          /\ UNCHANGED <<logChannels, made, buf, output, logging, crashed>>

-----------------------------------------------------------------------------
(* Log and broadcast.                                                       *)

\* len(cm.logChannels) != 0, and the range loop begins
Log(r) ==
  /\ ~crashed /\ logging[r].at = "idle" /\ logChannels # << >>
  /\ logging' = [logging EXCEPT ![r].at = "range", ![r].found = Range(logChannels)]
  /\ UNCHANGED <<logChannels, mux, chanVars, keeper, crashed>>

\* The loop's next entry, or its end: an entry that was there from the start is
\* not passed over, one that was added since may be.
RangeNext(r) ==
  /\ ~crashed /\ logging[r].at = "range"
  /\ IF Writing THEN Crash
     ELSE /\ \/ \E ch \in Range(logChannels) \ logging[r].had :
                  logging' = [logging EXCEPT ![r].at = "send", ![r].ch = ch,
                                             ![r].had = @ \cup {ch}]
             \/ /\ Range(logChannels) \cap logging[r].found \subseteq logging[r].had
                /\ logging' = [logging EXCEPT ![r].at = "returned", ![r].had = {}]
          /\ UNCHANGED <<logChannels, mux, chanVars, keeper, crashed>>

\* faulty variant: a channel that is full is passed over
SendOrDrop(r) ==
  /\ ~crashed /\ logging[r].at = "send"
  /\ IF logging[r].ch \in shut THEN Crash
     ELSE /\ buf' = [buf EXCEPT ![logging[r].ch] =
                       IF Len(@) < LogCap THEN Append(@, r) ELSE @]
          /\ logging' = [logging EXCEPT ![r].at = "range", ![r].ch = 0]
          /\ UNCHANGED <<logChannels, mux, made, shut, output, keeper, crashed>>

\* ch <- l: it waits for room; a closed channel is a panic, for who waits too
SendRecord(r) ==
  /\ ~crashed /\ logging[r].at = "send"
  /\ IF logging[r].ch \in shut THEN Crash
     ELSE /\ Len(buf[logging[r].ch]) < LogCap
          /\ buf' = [buf EXCEPT ![logging[r].ch] = Append(@, r)]
          /\ logging' = [logging EXCEPT ![r].at = "range", ![r].ch = 0]
          /\ UNCHANGED <<logChannels, mux, made, shut, output, keeper, crashed>>

\* the goroutine of a logger: for l := range ch, which a close ends when the
\* channel is empty
LogOutput(ch) ==
  /\ ~crashed /\ buf[ch] # << >>
  /\ output' = [output EXCEPT ![ch] = Append(@, Head(buf[ch]))]
  /\ buf' = [buf EXCEPT ![ch] = Tail(@)]
  /\ UNCHANGED <<logChannels, mux, made, shut, keeper, logging, crashed>>

LogNext ==
  \/ \E k \in Keeper : \/ \E id \in Id, op \in {"add", "del"} : KeeperLooks(k, id, op)
                       \/ KeeperLocks(k) \/ AddLogger(k) \/ DelLogger(k) \/ CloseChan(k)
  \/ \E r \in Record : Log(r) \/ RangeNext(r) \/ SendRecord(r)
  \/ \E ch \in Chan : LogOutput(ch)

LogSpec == LogInit /\ [][LogNext]_logVars

-----------------------------------------------------------------------------
\* A Log that has returned has put its record, once, into the channel of every
\* logger that was registered when it was called and still is, whatever loggers
\* came and went meanwhile and however full the channels were; and no logger gets
\* a record twice.
LoggedEverywhere ==
  /\ \A r \in Record : logging[r].at = "returned" =>
       \A ch \in logging[r].found \cap Range(logChannels) : r \in ToSet(output[ch] \o buf[ch])
  /\ \A ch \in Chan : IsInjective(output[ch] \o buf[ch])
=============================================================================
