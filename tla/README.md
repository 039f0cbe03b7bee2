# A verification project for artorias

artorias is two programs. The C program (`src/c`) is a TCP server that runs a
Lua script as a coroutine for every connection: a master accepts connections
and passes the descriptors to worker processes, and each worker is one event
loop over epoll. The Go program (`src/go`) is a socket server framework with a
redis protocol on top of it, and a client side with a pool of connections.

The modules here are TLA+ models of both, checked with TLC on small instances;
the safety invariants of every module but `TimerTree` are proved with TLAPS for
every size. `Worker` stops following the code at four steps that section 2 names.

## 1. Inventory

### The C program

| component | state | operations | what makes it correct |
|---|---|---|---|
| worker loop, `mw_worker.c` | the epoll set, two timer trees, the array of stopped threads, `keep_running` | wait, accept, handle an event, time out, wake, free, shut down | no pointer to a recycled thread is followed; no thread is lost; everything is freed once |
| threads, `thread.c` | `status`, `mode`, `pool`, `mfd_res`, the list `resl`; of a resource `th`, `status`, `freef` | into and out of a tree, into the stop array, free | links between threads, resources and trees agree |
| socket library, `lm_socket.c`, `socket.lua` | a userdata per socket that points to a resource; the context of a send | new, read, send, sread, ssend, close, `__gc`, `ev_begin`, `ev_wait`, `ev_end`, `read_all` | a script is woken by what it waits for; an fd is closed once; no byte is lost or sent twice |
| lists, `dlist.c` | head, tail, links | add, delete, travel | the list is the sequence of what was put in |
| Lua binding, `lua_bind.c` | registry tables: tid to coroutine, coroutine to local variables, file to chunk | ref, unref, set, get; `lalloc` | a coroutine lives as long as its thread, and finds it |
| timer trees, `rb_tree.c` | a red-black tree on `et` | insert, delete, cut off what is due, walk | it stays a search tree; only what is due is taken |
| memory pool, `mem_pool.c` | a free list per size class, two counters | alloc, realloc, recycle, destroy, and `lalloc` for Lua | a block is handed out once and is large enough |
| buddy and slot allocators | a tree of sizes; a bitmap | alloc, free | blocks handed out are disjoint |
| master, `mw_server.c`, `server.c` | whose turn it is, the socket pairs | start the workers, accept, send a descriptor, receive it | every connection reaches one worker |
| configuration, Lua constants, demo servers | | | not modelled, section 7 |

The loop calls the scripts, the scripts call the library, and the library
changes the loop's data, all in one thread: what is hard is not parallelism but
that pointers taken before a coroutine runs (a batch of events, a subtree of
expired threads) are used after it. Blocks come from the memory pool, so a
stale pointer reads a valid object that belongs to somebody else. Between
master and workers, and between a script and its socket, the hard part is
edge-triggered epoll: an event is told once.

### The Go program

| component | state | operations | what makes it correct |
|---|---|---|---|
| socket server, `socketframe/server` | the accept loop's delay; of a connection a bounded channel, `alive` | Accept, handle, readBytes, SendInfoTo | bytes in order, the end last, no goroutine stuck while there is a reader |
| redis parser, `redisparser/parser.go` | a stack of open commands, a buffer | Write, GetCommand | independent of how the stream is cut |
| redis protocol, `protocol/redis` | the unread bytes, the parser, a store | HandleBytes, processCommand | requests are understood and answered in order |
| redis client, `dial/redis/conn.go` | the parser of a query | Query | a query gets the answer to its own request |
| client pool, `socketframe/client/pool.go`, `dial/redis/pool.go` | the idle connections | GetConn, RecoverConn | one client per connection, none leaked, nobody waits for ever |
| logger, `logger` | a map of channels, a lock that only some paths take | AddLogger, DelLogger, Log | a record reaches every logger there is |
| gotp, main | | | not modelled, section 7 |

Goroutines really run concurrently here; what is hard is a flag that is read
before a channel operation and acted on after it, full channels, and dials that
fail half way.

`PROJECT.json` lists the hazards line by line, with the properties aimed at
each.

## 2. Modules

| module | models | notes |
|---|---|---|
| `Worker` | `mw_worker.c`, `thread.c`, `lm_socket.c` | the core |
| `WorkerProofs` | | theorems about `Worker` |
| `TimerPool` | what the loop expects of a timer tree | abstract |
| `TimerTree` | `rb_tree.c` and the timer part of `thread.c` | refines `TimerPool` |
| `MemPool`, `MemBuddy`, `MemSlot` | the three allocators | |
| `DList` | `dlist.c`, the destruction of a `bytes.c` buffer | |
| `LuaRegistry` | `lua_bind.c`, the coroutine's part of `thread.c` | |
| `StructureProofs` | | theorems about `LuaRegistry`, `DList` and `Logger` |
| `MasterWorkers` | `mw_server.c`, descriptor passing in `server.c` | processes that fail to start or die |
| `ScriptSocket` | the bytes of `lm_socket.c` and `socket.lua` | one coroutine, one socket |
| `RedisParser`, `RedisServer` | parser and writer; one connection with `Query` at its other end | `RedisServer` extends `RedisParser` |
| `SocketServer` | the accept loop and the goroutines of one connection | |
| `ClientPool` | the pool, its dialer and its clients | |
| `Logger` | the logger's map, channels and goroutines | |
| `AllocatorProofs` | | theorems about `MemPool` |
| `OffsetProofs` | | theorems about `MemSlot` and `MemBuddy` |
| `SocketProofs` | | theorems about `SocketServer`, `ClientPool` and `ScriptSocket` |
| `MasterWorkersProofs` | | theorems about `MasterWorkers` |
| `RedisProofs` | | theorems about `RedisParser` and `RedisServer` |
| `SequenceFacts` | | lemmas about sequences, about induction and about functions defined by recursion, which the proofs share |
| `Null` | the constant `NULL` the others share | |
| `MCStructures` | `MemPool`, `MemBuddy`, `MemSlot`, `DList`, `LuaRegistry`, `Logger` in one run, one at a time | |
| `MCConnections` | `MasterWorkers`, `ScriptSocket`, `SocketServer`, `ClientPool` in one run, one at a time | |
| other `MC*` | constants of the runs | |

A definition marked "faulty variant" is no part of the model. It is how the
definition after it could be wrong, and shows that a property notices.

### Worker

The variables are the fields of the C structures, indexed by block. `phase`
says where `process()` is: `start` and `poll` (the loop condition, before and after
the first iteration), `io` (a batch is being handled), `accept` (inside
`handle_accept`), `io_timeout`, `sleep`, `stop` (`process_stop_threads`), and after
the loop `final`, `drain`, `close`, `done`; `untracked` is explained below.
While a coroutine runs, `cur` is its thread and the loop waits; the actions of
the script (`SocketNew`, `SocketClose`, `EvBegin`, `EvEnd`, the yields, the end)
come in any order and number, as scripts are arbitrary. The collector may run
`__gc` of any socket no stack holds, whenever Lua runs: in a coroutine, when
`handle_accept` makes one, and in `lua_close`.

* `EpollWait` takes any set of at most `MaxEvents` events the registrations
  allow, one per fd; `HandleFd`, `CloseCfd`, `HandleAccept` consume them in any
  order.
* `handle_accept` makes a coroutine for a connection (`Accept`) or cannot
  (`AcceptRefused`): then it recycles the thread's block, leaves the fd open and
  goes on. `lost` counts those fds, which nothing will ever close.
* A recycled resource block keeps its `th`, as in the code, and a userdata or an
  event may still point at it. Lua takes its memory from the same pool, so
  `LuaReuses` may overwrite the block (`rth = JUNK`) whenever Lua runs; only blocks
  that an event of the batch still points to are of interest. A recycled thread
  block is reset: nothing reads it before it is allocated again, except the pass
  of `FreeTwice`.
* `ProcessIoTimeout` and `ProcessSleep` take out any subset of the tree, which
  stands for whatever times the threads have, and hand out exactly what they took
  out (`TakeExpired`). That is what the code does when the root is due or nothing
  is. It is not what the branch for a root that is not due does.
* Registration may fail (`AddOutcome`), SIGINT may come at any step
  (`SingleMode`), a connect may fail and leave a dangling userdata
  (`MaxDangling`). Its later collection is an action of `SpecGc` only, since
  it breaks the invariants (run `worker_gc`).

`Worker` sees a tree as the set of its members and a block as in use or not. Four
steps of the code lead where this view cannot say what comes next. Each is an
action that ends the behaviour in phase `untracked`:

| action | code | what happens there |
|---|---|---|
| `LeftBranch` | `thread.c:124-132` | a root that is not due has a due node on its left: the walk climbs out of the subtree it was given, hands out threads that stay linked from `pool->root`, and clears links of the live tree; a thread can then be in both trees, or sleep and get `IO_TIMEOUT` |
| `StaleEvent` | `mw_worker.c:162, 176, 195` | an event of the batch leads to a block that Lua has overwritten: `res->th` is garbage |
| `FreeTwice` | `mw_worker.c:337, 209-216` | the last iteration stopped a thread, which is freed and recycled again: the free lists are ruined |
| `SkipLoop` | `mw_worker.c:326-337` | SIGINT before the first iteration: `stop_threads->n` was never set |

So every property and theorem about `Worker` is about the behaviours before such a
step. `ThreadReachableOnce`, `PoolPointerValid` and `ResumeCodeFits` do rest on no
tree having been cut below its root, and are false in the code afterwards. What the
left branch does to the pointers is in `TimerTree` and in the run `timer_tree_left`;
the second free is the run `worker_final_pass`.

### TimerTree

A heap record of the pointers; each operator is one C function from heap to
heap. `RemoveFromRoot`, `RemoveFromLeft` and `RemoveNothing` are the three ways
through `asthread_remove_timeout_threads`, the first two with the walk that
follows. The walk is one step: a callback puts at most the node it was called
with back into the tree, whose parent the walk has read before, so the nodes
still to be visited are not touched. `Members` of the tree is the refinement
mapping to `TimerPool`. After the left branch the model stops (`cut`), because
the tree is no longer one.

### ScriptSocket

`Worker` says which threads and blocks exist; `ScriptSocket` says what one
script sees of one socket. Bytes are numbered as they are written, so order and
loss show. The kernel is `Ready` (what poll would say) and `rdy`, epoll's ready
list: every arrival puts the socket on it, as does the `EPOLL_CTL_MOD` of
`asthread_res_ev_add`, and `Deliver` takes it off. `co` says where the
coroutine is. `Frame` and `TypeIndex` keep what a continuation finds on its
stack and where it looks for the code of the resume, which is all the run
`send_resume` needs. There are two scripts: `"calls"` makes any calls in any
order, `"loop"` is the loop of `t_simple_proxy.lua` with `read_all`.

### LuaRegistry, DList

Every function of `lua_bind.c` runs under `lua_pcall` and may fail half way:
`asthread_th_init` takes the point at which it does. Addresses of threads and
of coroutines are used again; `Collect` is Lua's collector. `DList` keeps the
links of nodes that are outside every list, and `order`, the sequence the list
should be.

### MasterWorkers

`child_sockets[i]` is the pair whose far end the entry is, or `NULL` for what
malloc left there. A `socketpair` that fails leaves the pair of the turn before
in `sockets`, whose worker end the master has closed unless `fork` failed then.
`Hangup` says who else must be dead before a worker notices that the master is:
the workers forked later have inherited its ends. `edge` and `ready` are events
raised and not yet reported.

### The others

`MemPool` keeps the union `p` of the code as one variable: a class of a block in
use, a link of a free one. The sorted sizes are chosen among the permutations of those
given. A loop of the code is a function of the number of its turns, where a turn after
the end of the loop changes nothing: `Bisect` and `Walk` in `MemPool`, `Scan` in
`MemSlot`, `Descend`, `Upwards` and `Climb` in `MemBuddy`, `Write` in `RedisParser`.
`popStacks` is written in closed form: what the loop takes off the stack is what is
above the last command that is not finished. `MemBuddy` and `MemSlot` add the ghosts `lent` and
`granted`, what callers hold. `RedisServer` feeds every prefix of the unread
bytes to `HandleBytes`, and of the answers to `Query`; commands are PING, GET and
SET with names of one byte, and payloads are sequences over `Byte` of less than a
hundred bytes, so that `Decimal` writes at most two digits. A key that is nil is the
empty key, as `string(nil)` is. In `SocketServer` the test of `alive` and the send
that follows are two steps, as are setting `alive` and closing the connection; the
`conn.Write` of a reply is a step of its own, as it may block. In
`ClientPool` a rendezvous on an unbuffered channel is one step of loop and client
together. In `Logger` the lookup, the lock, the write to the map, and the close of
the channel are steps of their own, the iteration of `broadcast` is one per entry,
and the two ways in which the Go runtime ends the process are `Crash`.

## 3. Runs

| run | instance | distinct states | shows |
|---|---|---|---|
| `worker_loop` | 2 threads, 2 resources, 3 events a batch, SIGINT, failing ADD, connect and coroutine | 1 493 243 | the eleven invariants of the loop, shutdown included |
| `worker_live` | 2 threads, 2 resources | 162 933 | stopped threads are freed, expired ones resumed |
| `worker_wake` | 3 resources, 2 events a batch | violation | a wait on one socket is ended by an event of another |
| `worker_final_pass` | with SIGINT | violation | the pass after the loop frees twice |
| `worker_gc` | with `SpecGc` | violation | a failed connect's `__gc` closes a stranger's connection |
| `timer_tree` | 6 nodes, times 1..4 | 7 842 | red-black, safe walk, implements `TimerPool` |
| `timer_tree_left` | 5 nodes, times 1..3 | violation | threads that are not due are handed out |
| `structures` | pool: 3 blocks, classes 4, 2, 6, sizes 1..8; 8 units; 2 bytes, 3 blocks held; 4 nodes, 2 lists; 2 threads, 3 coroutines, 3 tids; 2 ids, 2 channels of 1, 2 records, 2 keepers | 758 036 | lists, fit and copies of the pool; disjoint blocks and the root's promise; exact bitmap and what it may refuse; the list is its sequence; coroutines held and found; records logged everywhere |
| `redis_server` | 3 queries of 6 kinds; 3 requests of 5 kinds with two outstanding | 29 035 | understood in order; a query gets its answer |
| `connections` | 3 connections, 2 workers, pairs of 1, 2 faults; 3 bytes in, 4 out, a buffer of 2; channel of 2, 3 chunks, 2 senders; 3 clients, 3 connections, pool of 2 | 91 892 | round robin, no lost edge, all served; streams in and out, input served; order, end of stream, goroutines end; exclusive, no leak, calls return |
| `send_resume` | 3 bytes out, a buffer of 2 | violation | a send that waited raises an error |
| `read_all_close` | 1 byte in | violation | the peer's close is missed |

Why these bounds suffice: two resources and three events a batch let one handler
stop, close or recycle what a later event of the batch refers to, and an accept in
between give the block to another thread; one lost fd (`MaxLost`) and one dangling
userdata (`MaxDangling`) change nothing for a second one. The proofs cover every other
size. Six nodes reach every case of insertion and deletion and
both placements of the successor; a second turn of the deletion loop that ends in
case 3 or 4 needs eight nodes and is not reached. Three classes are the smallest
number for which `binary_search` takes every branch; of three blocks two can be on
a list while the third is moved, and with no symmetry every address is tried. Four
nodes give a list two inner nodes and leave some for the other list. With three
coroutines and two threads one coroutine is always garbage that may be collected or
reused. Two keepers and two channels suffice for two AddLoggers of one name, for a
second DelLogger, and for a record on its way to a channel that is being closed; a
channel of 1 is full after one record. A channel of two can be full with an event
of each kind. Three connections give a worker a second turn, and two faults let a
pair be shared and its worker die. Reads of two bytes of a stream of three leave
a remainder, and a buffer of two makes a send of three take a part and then wait.

Composing in `MCStructures` and `MCConnections` is only a matter of running: one
component moves, the others keep their initial state, and the fairness of each is
conjoined with the guard that it is the one that moves.

Deadlock is checked for `Worker`, whose last phase stutters, and switched off
where bounded inputs run out or a process has ended.

The six violations are findings about the code:

1. `asthread_res_ev_del` (`thread.c:178`) returns when the resource is
   registered and goes on when it is not, the reverse of what its name says.
2. After SIGINT `process_stop_threads` runs on an array it has already worked
   off (`mw_worker.c:337`).
3. `lcf_socket_new` leaves `sock->res` pointing to a recycled block when the
   connect fails (`lm_socket.c:79`).
4. `asthread_remove_timeout_threads` does not detach the subtree it cuts off
   on the left (`thread.c:130`); `rb_tree_remove_subtree` also assumes a
   sibling, and the model ends in `cut = "segv"` where there is none.
5. After a yield `k_socket_send` looks for the code of the resume at index 1, where
   the socket is (`lm_socket.c:271`): the call raises an error.
6. `read_all` drops the end of a stream that arrives with bytes
   (`socket.lua:45`), and the edge that told it is not repeated.

## 4. Fairness

* `Worker`: weak fairness of the loop's steps (a single thread that the kernel
  schedules; `epoll_wait` has a timeout of 500 ms) and of each script's giving
  control back. The second is an assumption on the scripts: the loop has no
  preemption. No fairness of clients, of sockets or of the collector, and none of
  the steps to `untracked`: `StopsAreFreed` excepts the behaviours that take one.
* `SocketServer`: weak fairness of every goroutine, of callbacks that return. A
  blocked read is not enabled. A `conn.Write` (`WriteReturns`, `worker.go:87`) has no
  deadline, and while a peer does not read it may never return, so it has no
  fairness: a peer that ends its stream and does not read keeps `handle`, and the
  connection, for ever. `EofCloses` is therefore stated under the condition that
  `handle` is not in one write for ever.
* `ClientPool`: weak fairness of the steps loop takes by itself (`net.Dial` gives up in
  the end); strong fairness of the rendezvous of each waiting client, as the runtime
  queues the senders of a channel in order. The answer to SELECT is read without a
  deadline (`dial/redis/pool.go:41`), so `Select` has no fairness: a server that is
  silent there holds up every `GetConn` and `RecoverConn`. `CallsReturn` is stated
  under the condition that loop does not wait in `select` for ever. A client may keep
  a connection for ever.
* `MasterWorkers`: weak fairness of each process; none of clients.
* `ScriptSocket`: weak fairness of `Go`, the steps of the event loop and of a call
  under way; `co` says which of them can be taken. None of the peer, of the
  timeouts or of a script's calls.
* `RedisServer`, `DList`, `LuaRegistry`, `Logger`, the allocators: none.
  `QueriesAnswered` states as an invariant that no query is left when all bytes
  have been read.

## 5. Proofs

`WorkerProofs` proves `Spec => []IInv` (theorem `WorkerInvariant`) and, from it,
one theorem for each of the eleven invariants of `worker_loop`. The assumptions are those of `WorkerAssumption`: threads,
resources, `cfd`, `NULL` and `JUNK` are told apart, and the other constants have their
types. The sets need not be finite, and AddOutcome, MaxDangling, MaxLost and SingleMode
are arbitrary. The theorems are about the behaviours before `LeftBranch`, `StaleEvent`,
`FreeTwice` and `SkipLoop` (section 2): what they say of trees does not hold in the
code once a tree was cut below its root, `NoFdLeak` does not speak of the fds counted
by `lost`, and `ExitLeavesNothing` is about an exit that gets past
`mw_worker.c:337`; `process()` closes neither `cfd` nor `epfd` in any case.

None of the invariants is inductive alone. That an event leads to an allocated
thread (`EventsOwned`) is kept when a thread is freed only because freeing happens
in phases without a batch (`PhaseSound`), and when a socket is closed because its
block keeps `th`, or is overwritten, which happens to closed resources only. That freeing a thread closes no other thread's fd needs the
lists to be disjoint, which follows from `ResListSound` (each listed block points
back) with `BlocksSound` (a live block has one owner). That `process_stop_threads`
meets each thread once needs the part of the array before its index to be done
(`StopsDone`) and a thread that stops to be the running one, which is in no tree
(`ThreadReachableOnce`). That `th->pool` may be trusted when an event comes
(`PoolPointerValid`) needs an extracted thread to be resumed before any event is
handled, again a matter of phases. `ExitSound` carries over what is left to
recycle after the loop. So `IInv` conjoins all of them, and the module has one
lemma per part, each split over the actions.

The other proof modules follow the same pattern: the name of the inductive
invariant ends in `Inv`, its parts are named, there is one lemma per action or
group of actions, one theorem `...Invariant`, and one theorem per property.

`StructureProofs`, registry: `Anchored` for any sets of threads and coroutines and any
bound on tids (`AlwaysAnchored`), from the assumption that `NULL` is no thread, no
coroutine and no record of a thread. Its invariant adds what `Anchored` does not
say: a thread has a tid of 1 to `cur_tid`, so a new tid is above every other's
even when a failed init has left an entry behind; no two threads share a tid or a
coroutine, so a free takes out no other thread's entry; and before
`SetLocalVars` the second table says nothing about the coroutine.

`StructureProofs`, lists: `ListIsSequence` for any nodes and lists
(`ListsAreSequences`), assuming only that `NULL` is no node. `Linked` says for each
position what the two links of the node there must be; `HeadLinked`, `TailLinked` and
`DelLinked` are the three functions of `dlist.c` on one list, with its ends as
special cases. The links that they change belong to the list itself or to the new
node (`Near`), so with lists that share no node the others are untouched. Nodes
outside every list keep stale links, and no part of the invariant speaks of those.

`SocketProofs`, client: `ConnExclusive` and `NoConnLeak`. Which place a connection is in
is told by three variables that different goroutines change; the invariant adds when
`loop` has a connection (`LoopSound`), when a client has (`HoldersKnown`), and that
the open connections are those of the places (`PlacesOpen`). The assumption keeps the
names of the places `"pool"` and `"loop"` apart from the clients.

`SocketProofs`, server: `BytesInOrder` and `HeardToTheEnd`. The events handled, then
those in the channel, then what `readBytes` holds, then the unread chunks are one
stream; `QueueSound` says of the first two, `ReaderSound` and `InboxIsRest` of the
others, how far it goes. It holds only while `handle` listens: afterwards chunks are
dropped, which is why `HeardToTheEnd` must be kept separately (`EndSound`).

`StructureProofs`, logger: `LoggedEverywhere`. A channel that `AddLogger` has made and not yet
entered is the newest, and no Log in progress has it (`NewIsUnknown`); this rests on
the lock (`LockHeld`). `Handed` says which channels have a record while its loop runs,
hence that it is sent once. When the runtime ends the process everything is blank
again. The assumption that `Keeper` is finite is for the bound on channels (`Adding`
counts the keepers that have looked but hold no lock yet).

`AllocatorProofs`: `FreeListsSound` and `BestFit`, for any finite set of blocks and any
sizes of classes in any order. Three facts are needed about data, not about steps, and
each takes an induction: the sizes can be sorted (`SortExists`), `binary_search` ends at
a class that fits (`TurnNarrows`, `BisectEnds`, `ClassFits`), and a sum over a finite
set does not depend on the order of its elements (`SumsSplit`, `BytesAdd`). The
library's induction theorems take a predicate, which the provers do not instantiate;
`SetInduction` says the same of a set that has 0 and with each number the next, and is
proved from the well-foundedness of `<`. `IterateExists`, that a function can be applied
any number of times, then gives every recursive function on numbers its equations.
Of the pool itself the invariant `Sound` says of each free block of which class it is
and how many blocks are below it on its list (`Stacked`, with the two as witnesses):
this changes in one place when a block is pushed or popped, and says that the lists end,
share nothing and have no block twice, which `WalkLists` derives. `Fits` is `BestFit`
with what `memp_realloc` needs, and `Counted` the two sums.

`OffsetProofs`, slots: `FlagsExact` and `OnlyHolesRefused`, for every size of the map.
The bits of a byte are told by the position of a unit: `Mask` is the units of the
interval (by cases on the bytes it starts and ends in), and the counts of leading and
trailing zeros are worked out half a byte at a time, as the code halves it. The scan
keeps that its run is free, ends at the boundary it has reached and cannot be extended
to the left, and that every run of the size asked for that it has passed lies inside
one byte; an induction over the turns gives this for the whole map, and with it what a
refusal means. The invariant `SlotInv` adds to the two properties only types and that
blocks lie inside the map.

`OffsetProofs`, buddies: `BlocksDisjoint` and `PromiseKept`, for `logn` from 0 to 7:
the provers know powers of two only as numerals, so that `shl` is given its values and
everything else follows from doubling and halving. `buddy_free` merges nothing and does not know the size of what it
frees, so that `longest` is no function of what is lent. The invariant speaks of the set
of nodes that are taken: no taken node is below another, the entry of a taken node is 0
and everything below it is whole (this is why climbing from the leaf to the first 0
finds the node that was lent), and the entry of any other node is that of its larger son
or its full size; an entry that is not 0 promises a node that is whole, an entry that
is 0 that everything below is taken. A walk up the tree changes the entries of the
ancestors of one node and repairs each from its sons; the invariant of the walk is that
only the entry of the node it stands at may still be wrong.

`SocketProofs`, scripts: `InStream` and `OutStream`. `SendSound` says where the script
stands in its stream in each state of the coroutine; while a send is under way this is
`pos + ctx.idx`, and after a raised error nothing is known.

`MasterWorkersProofs`: `RoundRobin` and `NoLostEdge`. That a worker's share is exactly
what its entries got needs a pair to have one reader although entries may share a
pair (`OneReader`), an index that is the number of connections passed, modulo `n`
(`InTurn`), and workers that are started in order (`Started`). `IsShare` states the
share by numbering it with the turns of the pair, in increasing order, so that no
recursive filter is needed; `NextTurn` is the arithmetic of `j = (j + 1) % n`.

`RedisProofs`: `UnderstoodInOrder` and `QueriesAnswered`, for any set of payload bytes,
any queries and piped requests that `RedisServerAssumption` allows (an argv of less than
a hundred elements of less than a hundred bytes, which is what `Decimal` writes), any
window and any way the network cuts the two streams. The first half is about the parser
alone. `Reads(x, bs, y)` says that a parser `x` takes all of `bs`, does not stop before
their end, and becomes `y`. It is stated with the parsers before each byte as a witness,
so that streams can be put together (`ReadsBoth`) and cut (`ReadsCut`) without
induction; `WriteReads` is the one induction that ties it to the loop of `Write`. Then
`Reads` is worked out for a line, for a bulk, whose payload is not looked into, and, by
`SetInduction` over the elements, for a multi bulk. The result is `ReadsRequest`, of
which theorem `RoundTrip` is the part about queries: what `WrapMulitBulk` writes is
what the parser has afterwards, with no byte left over or missing.

The second half is about the connection. `StreamInv` says of the bytes in `buf` and on
the wire that they are the rest of the first request not understood, which the parser
will complete to that request, followed by the encodings of the others (`Flow`; `Chain`
gives the encodings from each request on). This holds until an empty multi bulk, after
which the parser ignores every byte (`Stuck`), or a negative length, which panics. From
it follows `RequestsUnderstood`. `QueryInv` adds that at most one Query is under way and
in which of three states it is (`Idle`, `Asked`, `Answered`), that the bytes under way
to the client are what its parser needs to have the answer (`Due`), and that the store
holds under each key the value of the last SET among the requests understood (`Stored`).

Some definitions are written for the prover as well as for TLC: `IsShare` and `Turns`
in `MasterWorkers`, `ChunksBefore` in `SocketServer`, `Travels` in `DList`, which
says of each position of a walk what a recursive function that walks would compute,
`Size` in `MemPool`, and the loops that are functions of the number of turns.

TLC checks the named invariants of `IInv` of `WorkerProofs` on every run of
`Worker`, and the properties of the other modules in `structures`, `connections` and `redis_server`;
the auxiliary parts were found by looking at what the proof of each action missed.

Only model-checked:

* all liveness (`AllServed`, `InputServed`, `EofCloses`, `GoroutinesEnd`, `CallsReturn`,
  `StopsAreFreed`, `ExpiredAreResumed`), which needs fairness and `ENABLED`;
* `RedBlack`, `RecycleVisitsOnce` and the refinement `ImplementsPool` of `TimerTree`,
  whose rebalancing and walks are `RECURSIVE` operators that the provers do not reach.

## 6. Plan

Done: all modules of section 2; proofs of every safety invariant of `Worker`,
`LuaRegistry`, `DList`, `MemPool`, `MemSlot`, `MemBuddy`, `Logger`, `ClientPool`,
`SocketServer`, `ScriptSocket`, `MasterWorkers` and `RedisServer`.

1. Prove the walks of `TimerTree`, written as functions of the number of turns, and
   then that insertion and deletion keep the tree red-black.
2. Extend: a bound on `stop_threads` in `Worker` (`mw_worker.c:326`); sets of
   events per fd (`mw_worker.c:251`).
3. Compose: `Worker` with two instances of `TimerPool` in place of its
   over-approximation, which takes `Worker` through `LeftBranch`; `RedisServer` behind
   `SocketServer`.

## 7. What is not modelled

* Memory exhaustion: `memp_alloc` succeeds in `Worker` (`MemPool` itself handles a
  failing malloc, `LuaRegistry` failing calls of Lua).
* A socket used by another coroutine than the one that made it; two sockets of one
  script at the level of bytes; `sread_all`, whose calls in the scripts are commented
  out, and with it `lm_bytes.c` and the reading part of `bytes.c`, which is
  unfinished: `nbyte` is unsigned, so `bytes_read_from_fd` takes an error for
  data, and `bytes_copy_to` does not return for an offset other than 0.
* `master_workers_server` up to its loop (configuration, listen) with
  `n_workers` = 0, and an error event on the listening socket.
* The wrap of `cur_tid` after 2^32 connections.
* In `lua_bind.c` the package path, the removal of a chunk, which nothing calls, and
  the dump of a stack; `lm_counter.c`, which needs a registry entry no worker sets;
  `channel.c`, which nothing calls; the Lua adapters, `lua_utils.c`, `lua_pconf.c`,
  `lua_output.c`; `epoll_server.c` and `select_server.c`, whose calls are
  commented out; `main.c` and the tests.
* In Go `gotp` (types only), `main.go`, the format of log records, and the contents
  of protocol callbacks other than redis. Whether a pooled connection is still
  usable: `RecoverConn` takes any.
* What a worker does after it has cut a tree below its root, followed a pointer Lua
  has overwritten, freed the last stopped threads again, or used a
  `stop_threads->n` that was never set (the four steps of section 2).
* The overflow of `stop_threads` (`mw_worker.c:326`) and an fd that is readable and
  writable at once (`mw_worker.c:251`): hazards without a property.
* What nothing in the code promises, and no property claims: that the fd of a
  connection without a coroutine is closed, that workers are independent of each other
  (`mw_server.c:42`), that a master outlives its workers (`server.c:168`) or a worker
  notices its master's death (`mw_server.c:112`), that a logger's process survives the
  unlocked accesses to its map.
* Undefined behaviour of the allocators outside their contracts: a block recycled
  twice, `buddy_alloc` of 0, and the byte after the bitmap that `mark_used_flag`
  touches without changing it.
* Buddies are never merged by `buddy_free` (`mem_buddy.c:104`): the model does
  what the code does, and the properties state what holds nevertheless.
