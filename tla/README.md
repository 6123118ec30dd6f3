# A TLA+ verification of gnet

gnet is an event-loop network library: an engine runs a number of loops, each a
goroutine around a poller (epoll or kqueue, a channel on Windows), and calls the
application's handlers. This directory models it in TLA+, checks the models with TLC on
small instances, and proves their main invariants with TLAPS for instances of any size.
`PROJECT.json` lists the runs, the theorems, the hazards, and the source lines each
definition models.

## The system

| part | state | operations | modelled by |
|---|---|---|---|
| poller (`pkg/netpoll`) | two task queues, `wakeupCall`, eventfd, `lifecycle` lock, event array | `Trigger`, `Polling`, `Close`, `discardPendingTasks`, `adapt` | `Poller`, `EventList` |
| task queue (`pkg/queue`) | Michael–Scott list, length | `Enqueue`, `Dequeue`, `Length` | `LockFreeQueue`, `CountedQueue` |
| connection table (`conn_matrix.go`, `conn_map.go`, `internal/gfd`) | matrix of connections, counters, index of descriptors, packed identities | `addConn`, `delConn`, `getConn`, `iterate`, `compact` | `ConnMatrix`, `ConnMap`, `Gfd` |
| stream connection (`connection_unix.go`, `eventloop_unix.go`, `connection_linux.go`) | outbound buffer, coalescing window, flags, epoll registration | open, read, write, writev, flush, wake, asynchronous writes, half-close, close | `Connection` |
| read side of a connection | last arrival, inbound ring, slices lent to the handler | `Read`, `Next`, `Peek`, `Discard`, `WriteTo` | `Inbound` |
| buffers (`pkg/buffer`) | ring, linked list, their combinations | read, write, peek, discard, grow, `ReadFrom`, `WriteTo` | `RingBuffer`, `LinkedList`, `ElasticBuffer`, `ByteQueue` |
| pools, `pkg/math` | size classes, calibration | index, get, put, roundings | `Pools` |
| engine, acceptor, client, load balancers (`engine_unix.go`, `acceptor_unix.go`, `reactor_*.go`, `gnet.go`, `client_unix.go`, `load_balancer.go`) | loops, pollers, listeners, shutdown context | start, accept, register, enroll, `next`, tick, stop | `Engine` |
| Windows loop (`*_windows.go`) | bounded channel, `submitMu`, readers, teardown | enqueue, submit, accept, read, enroll, run, stop | `WindowsLoop` |

The parts meet as follows. Any goroutine hands work to a loop by `Trigger`: it links a
task into a queue and, if it wins the compare-and-swap on `wakeupCall`, writes the
eventfd. The loop runs callbacks for ready descriptors and then the tasks. Everything a
connection does happens on its loop, so a connection is sequential code that is
interrupted only between system calls, by the peer and the kernel; what other goroutines
want from it arrives as tasks. The table tells the loop which descriptors are its own.
The engine starts the loops, gives each new connection to one of them as a `register`
task, and ends them with `shutdown` tasks.

What makes the code hard: the re-arming of the wakeup with a length counter that is not
linearizable; `Close` racing `Trigger`; deletion from the table during an iteration;
write paths that reach the kernel in five different ways and must keep one order;
edge-triggered mode, where forgetting to come back is forever; handlers that close the
connection the library is still working on; starts that fail half-way; registrations
that meet a shutdown; bytes that lie partly in a ring, partly in a list and partly in
memory the handler still looks at.

## Modules

**`Poller`.** Producers and the loop itself call `Trigger`, one step per atomic action
(closed check under the read lock, choice of the queue, link, count, compare-and-swap,
eventfd write, drain on EAGAIN). `Polling` is the loop's program counter `loop`. A queue
is a sequence with a separate counter `length`, as `CountedQueue` justifies. `Close`
takes the write lock. `executed`, `dropped`, `refused` record the fate of every task.
**`EventList`** is the resizing of the event array between two waits, with its theorems.

**`CountedQueue`, `LockFreeQueue`.** The first is what the poller relies on: atomic
insertion and removal, and a counter that follows later. The second has one step per
load and compare-and-swap of `lock_free_queue.go`; `ImplementsCountedQueue` is the
refinement.

**`ConnMap`, `ConnMatrix`, `Gfd`.** The table promised by both builds, and the matrix of
the `gc_opt` build with its rows, its next free slot, moving of the last connection into
a hole, deletion while iterating, and compaction. `ImplementsConnMap` is the refinement.
The matrix uses a pair (row, column) for a connection's place; `Gfd` is the packed
identity of the code, whose fields are truncated to one or two bytes, and its theorems
say that nothing is lost in it.

**`Connection`.** `stack` is the loop's call stack for this connection, innermost call
first, so that nesting (a failing `Write` inside `OnTraffic` closes the connection,
`OnClose` writes again) is the nesting of the code. `c` is the `conn` object, `sk` the
socket with its epoll registration; `sk.et` is `Options.EdgeTriggeredIO`. The n-th byte
written is the number n; received bytes are counted. Handlers, in `OnOpen` as in the other
callbacks, may write, write vectors, flush, use `ReadFrom`, close, and return any action;
the peer reads, sends, closes and resets. System calls may answer anything the kernel can: partial counts, EAGAIN, an
error, EBADF on a closed descriptor. Failures of `epoll_ctl` are left out. The outbound
buffer is one sequence of bytes here, which `ElasticBuffer` shows to be right.

**`RingBuffer`, `LinkedList`, `ElasticBuffer`, `ByteQueue`.** The first two are the
operations of the two basic buffers as operators on their fields: a ring with `r`, `w`,
`isEmpty` and a slice that holds `Junk` where nothing was written, growing by the rules
of `grow`; a chain of slices with the counters the code keeps beside it.
`ElasticBuffer` is the state machine: `elastic.Buffer` (a ring of at most
`maxStaticBytes`, then a list) and `elastic.RingBuffer` (a ring borrowed from a pool and
given back when empty). A call is one action, except `ReadFrom`, where each call of the
reader is a step. Bytes are numbered in the order they are written, modulo `Alphabet`;
every call's answer is compared with that of `ByteQueue`, a plain queue, and
`ImplementsByteQueue` is the refinement.

**`Inbound`** extends `ElasticBuffer` by a connection that receives: the bytes of the
last arrival (`conn.buffer`), what earlier callbacks left in the inbound ring, and the
pooled slices that `Next` and `Peek` lend. On Windows the arrival is a block of `bbPool`
packed by a reader goroutine; the model follows each block until it is given back.

**`Pools`.** Size classes of the slice pool, calibration of the ring-buffer pool, and
the roundings of `pkg/math`, as functions. Its claims (`RoundingsAgree`,
`SlicesHoldTheirClass`, `CalibrationKeepsMost`, `ClassesFit`) are assumptions that TLC
evaluates over all inputs up to a bound when it checks the run `buffers`.

**`Engine`.** The life of an engine with `N` loops: listeners, pollers and loops are
opened one by one and each step may fail; the acceptor or the loops accept; `Enroll`
brings foreign connections; the load balancer chooses; handlers and tasks ask for
shutdown; `Stop` ends everything in the code's order. `mode` is one of `reactors` (main
and sub-reactors), `reuseport` (every loop listens) and `client`. A poller is what
`Poller` establishes: it accepts tasks until `Close`, a task that returns Shutdown
discards those behind it, an I/O callback that does leaves them. A connection is
reduced to its descriptor, `OnOpen` and `OnClose`.

**`WindowsLoop`.** A loop is a goroutine that takes items from a bounded channel. The
acceptor, the UDP listener, one reader per connection and the enrolling goroutines send
with `enqueue`, which waits for room while it holds the read lock of `submitMu`
(`at[p] = "send"`); `AsyncWrite`, `Wake`, `Close` and `Execute` use `submit`, which does
not wait. The deferred steps of `eventloop.run` (stop admission, finish what is pending,
close the connections) are steps of `pc`, and each pooled block is followed until it is
given back. `conn.Write` blocks the loop: while `writing` holds an item, for the bytes
`OnOpen` returned or for an `AsyncWrite`, the loop takes no other item and does not see the
cancelled context. Enrolments end in every way `enroll` and `EnrollContext` do (`GivesUp`).

`MCPoller`, `MCLockFreeQueue`, `MCConnMatrix`, `MCConnection`, `MCInbound`,
`MCWindowsLoop` and `MCEngine` hold the instances; `PollerProofs`, `ConnMatrixProofs`,
`GfdProofs` and `EngineProofs` the proofs. Operators introduced by "Mutant" are faulty
variants of the definition that follows. They are used in no specification; they show
that each property can fail.

## Runs

| run | instance | what it shows |
|---|---|---|
| `poller_safety` | 2 producers and the loop, one `Trigger` each | wakeup token exclusive, no lost wakeup, exact counters, every task in exactly one place, no use after `Close` |
| `poller_live` | 2 + 1 `Trigger` calls | tasks settle, `Close` completes, high-priority order |
| `queue` | 2 enqueuers of two values, 2 dequeuers of one | the list implements the counted queue, its shape, calls return |
| `conn_matrix` | 2 × 2 matrix, 6 connections, 5 descriptors | refinement, no overwriting, dense prefix, counters, iteration visits all |
| `conn_safety` | both modes, and vectored writes in edge-triggered mode; 4 bytes out, up to 3 in | byte stream, nothing stranded in either direction, closed once, no system call after close (but for the two described below) |
| `conn_live` | both modes, 3 bytes | bytes delivered, peer's close noticed |
| `buffers` | the two elastic buffers, and the read side on both platforms | every answer is a byte queue's (but for the two described below), pooled memory is accounted for, refinement of `ByteQueue`; `Pools` |
| `windows` | 1 loop, a channel of one place, three combinations of an accepted or enrolled connection, a datagram and a closure | what a loop was handed is opened and closed once, nothing left behind, shutdown completes if peers read, started enrolments answered |
| `engine` | 2 loops, 2 addresses, 2 connections, all three modes | pollers closed in time, opened and closed once, no connection forgotten, shutdown completes |
| `conn_flush` | level-triggered, `ReadFrom` and `Flush` | **violated**: bytes left with nobody to send them |
| `buffers_readfrom` | as `buffers`, readers that return early | **violated**: later bytes stored before earlier ones |
| `engine_enroll` | main and sub-reactors | **violated**: an enrolment that meets the end of its loop is never answered |

The three violations are disagreements between the code and its own comments; the
findings in `PROJECT.json` quote them. On Windows the promise that `engine_enroll` breaks
is kept for enrolments whose goroutine has started (`EnrolmentAnswered` of `windows`). It is
not kept when the worker pool is full: `enroll` then returns an error together with a channel
that stays open and empty (`eventloop_windows.go:97`), which a comment of the unix build
calls a deadlock for "any caller doing <-resCh" (`eventloop_unix.go:245`).

What limits the claims of the passing runs:

- `NoSyscallAfterClose` leaves out two calls that the code does make. `read` looks at
  `opened` only on entry and after a flush, so when `OnTraffic` closes the connection and
  returns `None`, the loop of edge-triggered mode reads the closed descriptor once more.
  And `open` does not look at it at all: when `OnOpen` closes the connection and returns
  bytes, `conn.open` writes them to the closed descriptor (`eventloop_unix.go:296`). The
  model contains both steps (they answer EBADF; a reused number is not modelled).
- `OnOpen` does not return bytes while bytes it wrote itself are in the outbound buffer:
  `conn.open` does not look there, and the ones returned would overtake them
  (`OnOpenReturns`). Handlers use `ReadFrom` in level-triggered mode only in `conn_flush`.
- `Delivered` is checked without handler calls of `Flush`, `Close` and without resets.
- `buffers` has readers that fill what they are offered until their end
  (`ShortReads = FALSE`), and writers that take at least one byte (`Refusing = FALSE`): a
  writer that takes nothing of a full ring makes `ring.Buffer.WriteTo` leave it looking
  empty, since it compares the two positions only.
- `buffers` has readers whose last call brings no bytes to the list
  (`EndsWithBytes = FALSE`). io.Reader allows others, and for them `linkedlist.ReadFrom`
  counts the last bytes and drops them (`linked_list_buffer.go:209`), although it "implements
  io.ReaderFrom"; with `EndsWithBytes = TRUE`, `AnswersLikeAQueue` fails.
- `AnswersLikeAQueue` accepts two answers of `elastic.Buffer` that a queue would not give.
  `Peek(n)` with a positive n refuses bytes that are held, but not all by the list and not
  exactly by the ring, because `PeekWithBytes` compares n with the list alone
  (`linked_list_buffer.go:145`); the event loop only asks for everything. And a writer that
  fails inside a slice of the list costs the rest of that slice, which `WriteTo` does not
  put back (`linked_list_buffer.go:232`).
- `PollersClosedInTime` excepts a start that fails behind running sub-reactors: there the
  code closes the pollers under the loops. `PooledMemoryOwned` excepts results of `Peek`
  used after the handler called `Discard`, as their documentation does.
- `windows` speaks of connections that a loop was handed. `EnrollContext` also returns
  errors before that (`client_windows.go:152`, `175`, `190`, `211`) and leaves the socket
  open; if `DialContext` made it, nobody has it any more. When `SetKeepAlive` fails, the
  block taken by `newStreamConn` is not returned either (`Leaked`).
- `ShutdownCompletes` and `EnrolmentAnswered` of `windows` assume `PeersRead`, see Fairness.
- `NotForgotten` speaks of loops that go on. A socket in a task queued to a loop that has
  ended stays open, and so does the duplicate that a failed `Enroll` made.

Met while modelling, and claimed by no property: tasks stay in a poller whose `Polling`
was ended by a callback, or that accepts a task after the discard; a handler's `Shutdown`
is dropped when `open` fails to send; on Windows, `eventloop.read` dereferences a nil
`conn.buffer` when a handler closes the connection in `OnTraffic` and returns `None`
(`eventloop_windows.go:303`; the model records it as `crashed` and stops there); the
least-connections choice may be off by a whole burst of accepts, where
`load_balancer.go:134` says "within one connection of the true minimum"; a deferred delete
in `gnet.Stop` may remove a newer engine from `allEngines`; `FloorToPowerOfTwo` handles 32
bits only and its comment describes the other rounding.

## Bounds

All limits are set to the value at which the limit is reached at once.

- *Poller*: a queue threshold, a batch, and an event array of one make low-priority tasks
  spill and wait for another round; an eventfd that holds one makes EAGAIN happen.
- *Matrix*: four slots fill up, and the fifth connection is refused.
- *Connection*: a socket of two bytes is full after one write, so partial writes, EAGAIN
  and held-back writes all occur with four bytes; chunks of one or two bytes end every loop
  of edge-triggered mode early, with a third incoming byte left for a task; a read buffer of
  two bytes is filled by some reads and not by others; with `iov` 1 a gathered write stops
  although the socket has room, with 2 the kernel may take one of the two buffers it gets.
- *Buffers*: at most 5 bytes held, written by at most 3 at a time; a static part of 3, a
  default size of 2 and a threshold of 4 make the ring wrap, double, and grow by a
  quarter, and the elastic buffer spill into its list. `Alphabet` is one more than
  `MaxHeld`, so bytes held together differ. One arrival in flight, two `Peek` copies.
- *Windows*: with one place in the channel a second item waits or is refused; one arrival
  per connection.
- *Engine*: two loops make the load balancers choose and let a start fail with one loop
  opened; two addresses let it fail with one listener. One task that asks for a shutdown
  at a time, none once it has begun (`AskShutdown`).

Two callers suffice for every pairwise race; the proofs remove the bound for the poller,
the matrix and the engine's safety.

## Fairness

- *Poller, queue*: goroutines that can take a step take it (weak fairness of the steps of
  `Trigger`, `Polling`, `Close`, and of the queue's calls): the Go scheduler is preemptive.
- *Connection*: the loop's own steps are weakly fair. Returning from a handler, serving
  events, and running the loop's own `read0` and `write0` tasks are strongly fair, since
  the poller alternates between events and tasks, and `TasksSettle` shows that every task
  is reached; tasks of other goroutines need not run. The peer is assumed to keep reading;
  it is not assumed to send or close. Handlers make finitely many calls.
- *Engine*: weak fairness of each loop's tasks and exit, of the steps of the start, and of
  `stop`. Accepting, connection events, `Execute`, and requests to stop need not happen.
- *Windows*: weak fairness of a send that has room, of each loop, and of the steps of the
  shutdown; a reader or listener whose socket is closed returns. Arrivals need not happen.
  `PeersRead` is an assumption about the outside: a write that blocks ends, since the peer
  reads or the connection breaks. Nothing in the code ensures it, as writes have no deadline
  (the limitation is documented in `connection_windows.go:350`): a peer that stops reading
  keeps its loop, and with it `stop`, waiting. Handlers are assumed to return, writes of
  their own included.

Deadlock checking is on for `conn_matrix` and for the two engine runs, where a behaviour
may stop only when `Run` or `Stop` has returned and no loop runs (`Ended`). It is off
elsewhere, because calls, bytes and tasks are bounded and a run may stop when they are
used up; there the liveness properties say what must not get stuck.

## Proofs

The assumptions of all proofs are the named `ASSUME`s of the modules on their constants;
TLC evaluates them on the instances.

**`PollerProofs`** (any number of producers, tasks, any thresholds): `TypeCorrect`,
`CloseIsSafe`, `TokenIsExclusive`, `LengthIsExact`, `NoWakeupIsLost`. None of the
invariants but the type is inductive. `NoLostWakeup` speaks only of the waiting loop; to
carry it, one must know who will wake the loop at every other moment. The inductive
invariant `PollerInv` adds: the read lock is held by exactly the callers inside
`Trigger` and excludes `closed` (`Lifecycle`); the wakeup flag is a token with one
holder (`WakeToken`); the counters differ from the queues by the calls in flight; and a
queued task has been announced, by a flag that is set, by a caller that will still try to
set it, or by a check the loop has not made yet (`Announced`). The proof has one step
per action.

**`ConnMatrixProofs`** (any size, any connections and descriptors):
`MatrixKeepsConnections`, `MatrixIsDense`, `MatrixCounts`, and `MatrixImplementsMap`, the
refinement. The inductive invariant `MatrixInv` states that index, slots and gfds point
at each other (`Sound`), what holds in each phase of an iteration (`Phase`), and which
part of the matrix the compaction has already swept (`Swept`).

**`GfdProofs`** (at the code's own sizes): `IndexesRoundTrip` and `MoveKeepsIdentity`, why
`ConnMatrix` may use a pair for the packed identity; `LoopIndexFits`, that the number of
loops `determineEventLoops` allows fits the one byte there is for them (a comment in
`gfd.go` says that up to 10,000 loops may be asked for, which would alias); `SequencesDiffer`, across the wrap of the counter.

**`EventList`** (at the code's own sizes): `SizeWithinCaps`, `NoFlapping`.

**`EngineProofs`** (any number of loops, addresses and connections, any mix of modes and
load balancers, every failure of the start): `TypeCorrect`, `PollersAreClosedInTime`,
`OpensAndClosesOnce`, `NeverForgotten`. The inductive invariant is `Inv`:

- `Life`: what has been opened and started in each phase. `PollersClosedInTime` speaks of
  the end only; to know that nothing is still open when `Run` returns one must know, at
  every step of the start, which pollers and listeners there are to be closed.
- `Queues`: the tasks in a loop's two queues are about different connections, and a
  queued registration is the first thing that happens to its connection: the connection
  belongs to that loop, its socket is open and `OnOpen` has not been called. Without it a
  second registration could open a connection twice.
- `Tables`: a connection is in the table of its own loop exactly between `OnOpen` and
  `OnClose`, and the loop has not ended.
- `Reached`: an open connection of a loop that goes on is in its table or in one of its
  queues.

`TypeCorrect` contains that the load balancers choose an existing loop, never the main
reactor; for the least-connections scan this rests on a minimum of the counts existing
(`SmallestExists`). The steps fall into a few kinds (nothing happens to connections, a
task is appended, one is taken, a loop's queues are discarded, connections are closed, one
is opened), each with a lemma; `DataStep` and `LifeStep` assign each action to its kind.

Only model-checked: all liveness (outside the prover's reach), `ExactlyOnce` and
`HighPriorityFifo` of the poller, the queue, `IterateVisitsAll`, everything about
`Connection`, the buffers and `Inbound` (they rest on what recursive functions over
sequences compute, which needs induction over data), `WindowsLoop`, and the functions of
`Pools`.

## Not modelled

- **kqueue**: the same task protocol over another kernel interface. **The ultimate
  builds** of poller and reactor keep a pointer to an attachment in the event instead of
  looking the descriptor up, and follow the protocol of the default build.
- **The poller's yielding** (`runtime.Gosched` between two waits): a matter of speed; the
  models assume nothing about it.
- **Windows**: the bytes written, which go straight to `net.Conn`, and the start of the
  engine. **UDP on unix**: only `readUDP`'s effect on its loop is in `Engine`.
- **`allEngines`**, `DupListener`, `CountConnections`: the registry of running engines and
  two read-only queries.
- **Sockets, listeners' options, I/O wrappers**: one-time set-up and single system calls;
  `Connection` models what read(2) and write(2) may answer.
- **Options, logging, error texts, benchmarks**: configuration, texts, and programs that
  use the library.
- Within the modelled parts: failures of `epoll_ctl` on a connection, reuse of descriptor
  numbers while a stale event is pending, and the memory a result of `Peek` shares with
  the connection's buffers beyond what `PooledMemoryOwned` follows.
