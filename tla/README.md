# A TLA+ model of xfnet

xfnet is a small reactor network library in C++11 for Linux: event loops over
epoll, a TCP server and client that spread connections over a group of loops,
non-blocking streams, and a timer manager whose callbacks run on worker
threads. This directory holds TLA+ modules that model it, the TLC
configurations that check them, and proofs checked by TLAPS.

Paths below are relative to the root of the repository. Where a module keeps a
name of the source it means the same thing.

## 1. The system

| Component | Source | State it keeps | Operations |
|---|---|---|---|
| `EventLoop`, `EventLoopGroup` | `src/net/event_loop.cpp` | `m_state`, `m_handlers` (map of raw pointer to `shared_ptr`) under `m_mutex`, the loop thread | `Start`, `Stop` (= `Stopping` + `Join`), `Register`, `Unregister`, `Modify`, `LoopThread` |
| `Selector` | `src/net/selector.cpp` | `m_epoll_fd`, and in the kernel the interest list of raw pointers | `Open`, `Close`, `Register`, `Unregister`, `Modify`, `Select` |
| `EventHandler`, `StreamHandler` | `src/net/event_handler.cpp`, `stream_handler.h` | the loop it belongs to, its descriptor | `HandleRead`, `HandleWrite`, `HandleError` |
| `BlockingQueue<T>` | `include/xfnet/queue.h` | deque, capacity, mutex, two condition variables | `Push`, `Push(timeout)`, `TryPush`, `Pop`, `Pop(timeout)`, `TryPop`, `SetCapacity`, `Size` |
| `TimerManager`, `TimerHandler`, `Timer` | `src/net/timer_manager.cpp`, `timer_handler.*`, `timer.h` | an event loop, a queue of `shared_ptr<TimerHandler>`, worker threads, one timerfd per timer | `Start`, `Stop`, `AddTimer`, `SetTimer`, `RemoveTimer`, `WorkThread`, `HandleRead` |
| `Stream` | `src/net/stream.cpp` | a non-blocking socket | `Send`, `Recv`, each in three forms: pointer and size, iovec, with a timeout |
| `SocketUtil`, `Acceptor` | `src/net/socket_util.cpp`, `acceptor.cpp` | a socket | `Select` (poll), `Open`, `Accept`, socket options |
| `Connector` | `src/net/connector.cpp` | during a call, a socket in one of several states of the kernel | `Connect`: open, `connect` again after `EINTR` and after `poll`, close or hand over |
| `TcpServer` | `src/net/tcp_server.cpp` | `m_state`, acceptor, accept thread, loop group, `m_next_loop_index` | `Start`, `Stop`, `Accept` |
| `TcpClient` | `src/net/tcp_client.cpp` | `m_state`, connect thread, connect and failed queues, loop group, `m_next_loop_index` | `Start`, `Stop`, `Add(Address)`, `Add(Stream)`, `Connect` |
| `Address` | `src/net/address.cpp` | a `sockaddr_in6` union | constructors, `ToString`, `GetIP` |
| `Thread`, `ThreadGroup` | `include/xfnet/thread.h`, `src/net/thread.cpp` | `std::thread`s | `Start`, `Join`, `Detach` |
| echo server example | `tools/server_example.cpp` | per connection: read cursor, `m_send_datas` under a mutex, send cursor | `HandleRead`, `HandleWrite`, `Send` |
| client example | `tools/client_example.cpp` | a `Stream` | sends a packet, receives it back, until a timeout or a failure |
| library | `src/net/xfnet.cpp` | the disposition of SIGPIPE | its initialisation, version functions |

How they interact:

```
 TcpServer thread calls          TcpClient thread calls, users' Add
   | accept thread                 | connect thread, two BlockingQueues
   |   Acceptor -> Stream          |   Connector -> Stream
   v   m_next_loop_index           v   m_next_loop_index
 +---------------- EventLoopGroup: n x EventLoop -----------------+
 |  EventLoop thread: Selector::Select -> raw EventHandler*       |
 |  m_handlers: raw pointer -> shared_ptr, under m_mutex          |
 +----------------------------------------------------------------+
   ^ callbacks unregister their handler, which closes its Stream
 TimerManager: one EventLoop; TimerHandler::HandleRead pushes a shared_ptr
   of itself into a BlockingQueue, from which worker threads run callbacks,
   which may call AddTimer, SetTimer and RemoveTimer again
 User handlers (TestEventHandler): HandleRead, HandleWrite and Send, over a
   Stream and a queue of their own, switch the events that epoll watches
```

What is hard in it, and what therefore has to be true:

* **Raw pointers in the kernel.** epoll and the array that `epoll_wait` fills
  hold raw pointers; only `m_handlers`, local variables, the timer queue and
  the workers hold `shared_ptr`s. A handler must exist whenever `Select` calls
  it, no registration may outlive its owner, and an unregistered handler must
  in the end be destroyed.
* **Stopping.** Every component stops by setting `m_state` and joining threads
  that look at it between two waits. A `Stop` that has begun must return, and
  afterwards nothing may be left running or half done; the order of the joins
  must keep threads from using loops, sockets or descriptors that are gone.
* **Handing over.** A connection, a timer handler or an address passes through
  queues, local variables and maps of several threads. It must have one owner
  all along, also when a step fails.
* **Wakeups.** The queue wakes one waiter for each value, and timeouts and
  spurious wakeups must not lose one.
* **Resuming.** A non-blocking `Send` or `Recv` that stops in the middle leaves
  its state in the caller's arguments; the next call must go on exactly there.
  A handler that reads and writes packets this way keeps such state over many
  events, together with the set of events it waits for.
* **Answers that come late.** The peer may accept, refuse or reset between the
  timeout of `poll` and the close of the socket, and a signal may end `connect`
  while the connection is made.

## 2. Modules

| Module | Models | Lines |
|---|---|---|
| `EventLoop` | the loop, its selector, the life of handlers | one action per critical section of `m_mutex`, per epoll call, per step of `LoopThread` and `Select` |
| `HandlerLifetime` | abstract: constructed once, called by the loop's thread only while it exists, one call at a time, destroyed at most once, and in the middle of a call only if this call has unregistered it | |
| `EventLoop_proofs` | theorems about `EventLoop` | |
| `BlockingQueue` | the queue with its mutex and condition variables | one action per critical section or wakeup |
| `FifoQueue` | abstract: a bounded FIFO queue whose calls take effect at one moment, and its fairness | |
| `BlockingQueue_proofs` | theorems about `BlockingQueue` | |
| `TimerManager`, `TimerManager_proofs` | the manager over `EventLoop` (by `INSTANCE`, all its variables) and a FIFO queue; theorems | |
| `TimerInterval` | the arithmetic of `InitTime`, with the width of `int` | operators |
| `Stream`, `Stream_proofs` | the overloads of `Send` and `Recv` with a pointer, untimed and timed; theorems about them and about everything in `StreamUses` | one action per system call and its outcome |
| `Iovec` | the iovec overloads with `UpdateIov` | |
| `StreamUses` | the three uses of a `Stream` side by side, one at a time: a buffer (`Stream`), an array (`Iovec`), a connection (`Echo`) | |
| `Echo` | the handler of the server example and the program of the client example, at the ends of one connection | one action per system call or critical section of `m_mutex` |
| `Echo_proofs` | the invariant of `Echo` and its proof | |
| `SequenceLemmas` | lemmas: `FlattenSeq`, sequences cut in two, induction up to a number | |
| `EventLoopGroup` | the group's `Start` and `Stop`, loop by loop; shared by the next modules | |
| `ConnectionLife` | abstract: connections are accepted in the order they were made, each is served by one loop until it ends, or refused, and the port is shut only when none is on the way to a loop | |
| `TcpServer`, `TcpServer_proofs` | the server, its accept thread, the backlog and the group; theorems | |
| `Connector` | a call of `Connector::Connect` with what the kernel does to its socket | one action per system call |
| `TcpClient`, `TcpClient_proofs` | the client, its connect thread over `Connector`, the queues, users that call `Add`, and the group; lemmas about the group, theorems | |
| `MC_*` | what TLC needs for an instance: symmetry, the sets of calls, arrays and packets | |

Operators written above a definition and called "Mutant of ..." are plausible
mistakes in that piece of code. Replacing the definition by its mutant makes
the property that `PROJECT.json` names fail; they are used nowhere else.

### EventLoop

`m_state`, `m_handlers` and `epoll_open` are the members of the class and of
its `Selector`; `interest` is the kernel's interest list, `batch` the array of
`Select`, `cur` the pointer it calls through. `owner` is the program counter
of the thread that calls `Start` and `Stop`, `loop` that of the loop thread,
`stage` and `arg` that of each thread's `Register` or `Unregister`. There are
no reference counts: an object exists (`Alive`) while one of the places that
keep a `shared_ptr` holds one, and the end of the last one (`DropReference`,
`ReleaseReference`, `Destroy`) closes the descriptor, upon which the kernel
takes it out of the interest list. `RegisterInsert` and `RegisterAdd` are the
two halves of `Register`, `UnregisterErase` and `UnregisterDel` those of
`Unregister`. `Dispatch`, `HandlerReturns`, `HandlerModifies` and
`HandlerUnregisters` are `Select` and what a callback may do with its own handler;
it may also register new ones (`RegisterInsert` by `LoopThread`) and, when
`Removers` has the loop's thread, unregister others of the same array
(`RemoveHandler`). `CallFor` is the order in which `Select` looks at the bits.
A callback that unregisters its own handler (`closing`, then `closed`) may have
destroyed it when `Unregister` returns to it, and then only returns itself
(`CallbackEnds`). A call through the pointer of a destroyed object (`CallOn`), and a
callback whose object somebody else has destroyed (`CallbackOnFreed`), are undefined
behaviour: the loop thread stays in `undefined`, of which nothing is claimed but
that `DispatchAlive` has been violated. The mapping to `HandlerLifetime` counts the
callback as running (`calling`) until it has returned, in `closing` and `closed`
too, where `leaving` says that it has given its object up. `epoll_ctl(ADD)` may fail, and
`epoll_create1` if `OpenMayFail`. `Stopping` requires that the threads that
register are out of their calls: this is what `AcceptThreadSafe` of
`TcpServer`, `AddSafe` of `TcpClient` and `ImplementsEventLoop` of
`TimerManager` show their owners do.

### BlockingQueue

`at` says where a thread is in its call: waiting for the mutex (`enter`), in a
condition variable (`asleep`), or notified and on its way back to the mutex
(`woken`). `PushStep` and `PopStep` are the successful critical sections of
the three forms each, `ReturnAndNotify` the `notify_one` at their end, whose
choice among the sleepers is free. `WaitOrFail` is the failing test, `TimeOut`
is `wait_for` reporting a timeout, also to a thread that was notified.

### TimerManager

`TimerManager` runs the actions of `EventLoop` on its own variables, with
`held` defined as the handlers the queue or a worker holds, and adds to each
what the manager does with it: `AddTimer` is `RegisterInsert` of an armed or
unarmed timerfd, `ReadTimer` is `HandleRead` with its `shared_from_this()`
(`KeepReference`) and the `Push`, `CallbackReturns` the end of the worker's
pointer. `StopBegins`, `PushNull`, `JoinWorkers`, `StopLoop` and `JoinLoop`
are `Stop`. `early` counts the entries that were queued when `Stop` was called
and `read_done` separates the two halves of `HandleRead`, between which
`RemoveTimer` may destroy the handler (`ReadFreed`). What becomes of the program then
is undefined, and the liveness properties say nothing of it (`Undefined`). The queue is a
sequence and `Pop` is atomic, which is what `ImplementsFifo` of
`BlockingQueue` justifies. A manager has one life (`Start` of a stopped one is
refused by an assertion), so that its runs end and deadlock is not checked
there.

`clock` is the interval a timerfd has got, 0 while it is disarmed. `AddTimer` and
`SetTimer` take it from `InitTime` of `TimerInterval`, which converts to `int`
before it divides, as `(int) interval_ms/1000` does, takes the rest from the
unconverted number, and leaves it to `timerfd_settime` (`Accepted`) to refuse
negative seconds: `AddTimer` then has destroyed its `Timer` and registers
nothing, `SetTimer` leaves the clock alone.

### Stream and Iovec

A byte is its offset in the caller's buffer, or element and offset; `moved` is
what has gone through the socket, in order. The socket takes any number of
bytes, blocks, fails or reports a closed peer at every call. `CallAgain` is a
caller that, after a 0, passes what the last call left, as the echo example
does. When all of an array has been moved `UpdateIov` looks at the memory behind it:
a length of 0 is passed over (`MaxBeyond` times at most), a positive one ends the
walk and is written back as it was, and one that is negative as an `ssize_t`, or
memory that is not mapped, is undefined behaviour, after which nothing is claimed
(`at = "undefined"`).

### Echo

The variables named `m_...` are the members of `TestEventHandler`; `interest` is
what epoll watches for it, `reported` what `epoll_wait` has just said, `thread`
the place of the loop's thread, `inbound` and `outbound` how many bytes the sockets
hold. `HandleRead` is `ReadHead`, `ReadBody`, `PacketRead`, `ReadBlocks`, `ReadFails`
(with `HeadRead`, the end of a header); `HandleWrite` is `WriteTakes`, `WriteBytes`,
`PopSent`, `WriteIdle`, `WriteBlocks`, `WriteFails`. `Send`, which queues a packet and
asks for `EVENT_READWRITE`, is called by `PacketRead` in the loop's thread and by
`Push` in any other that has a `shared_ptr` of the handler: the `Modify` from other
threads that `EventLoop` does not have. `put`, `got`, `taken` and `passed` are not in
the code; they count the bytes at the four ends.

A system call moves any number of bytes from 1 on. Bytes are counted, not followed:
by finding 3 a short move may leave the pointer in the wrong place, and from there
on the server reads and sends other bytes than it should. Which they are is not
modelled; what they do to the handler's control is. `misplaced` says that the
pointer of the packet being read is wrong, `framed` that all headers so far were
read where they began. A header that was not tells any length of `Garbled`,
negative ones included, for which `HandleRead` asks for no body and queues what
there is. A wrong pointer may also end the server (`ServerEnds`): `resize` throws,
an assertion fails, the heap behind `m_pkt_data` is overwritten, or the system call
fails with `EFAULT`. The client may send ahead of the answers and may give up at any
moment, as the program does after an answer that is not what it sent. In
`Unregister` the handler leaves the loop and is destroyed; a write to a closed peer
does only that, since the library ignores SIGPIPE.

### EventLoopGroup, TcpServer, TcpClient

Of a loop the group keeps its state, its thread and the connections in its
map; the rest of a loop is `EventLoop`. `group` is the program counter of
`Start` or `Stop`, `main` that of the server's or client's own. `accept` and
`connect` are those of the two threads, `stream` the local variable between
`accept4` or `connect` and the handler. `GroupSwap` destroys the loops of an
earlier start, as the exchange in `Start` does. In `TcpClient` reading and
writing `m_next_loop_index` are two steps (`ReadIndex`, `WriteIndex`), since
several threads count it and it is neither atomic nor locked. The accept
thread is the only one to count its own, where the increment is one step.

`Connector` has its program counter in `connector` and, in `socket`, the state in
which the kernel has the descriptor: new, connecting, connected, refused, or no
descriptor. `OpenSocket`, `ConnectFirst`, `ConnectAgain`, `Select` and
`CloseSocket` are the thread's steps, `PeerAnswers` is the kernel's, at any time.
`TcpClient` begins a call in `PopAddress`, lets it go on in `Connecting` and
`SocketAnswered`, and takes the stream in `Connected` or none in `NotConnected`.
`Added` is the end of `TcpClient::Connect`, which puts a refused address into the
failed queue; `Requeue` brings it back.

## 3. What is abstracted

* Time: a timeout may be over at any moment of a wait. Nothing is said of how
  long anything takes; the timeouts' lengths are not modelled. Of a timer's
  interval the conversion is modelled, not the waiting.
* Data: addresses, streams, connections, timers and values are names. Handlers
  do what any handler may do (return either result, modify themselves,
  unregister, close); what one handler does with its data is `Echo`.
* Bytes: `Stream` and `Iovec` follow every byte, `Echo` counts them, since with
  finding 3 their contents are wrong after most short moves. What `HandleRead`
  writes behind `m_pkt_data` is not followed either, beyond that it may end the
  server; behind `m_head` there is room for what a wrong pointer writes there.
* After undefined behaviour nothing is claimed: a callback of a destroyed object,
  or an element behind an array that `UpdateIov` cannot take for one.
* Memory order: `m_state` is a `volatile int` written by one thread and read by
  others, and a step reads or writes it atomically. That is what the supported
  platform does with an aligned int, not what C++ promises.
* Copies of the same pointer inside one thread count once.
* `EventLoopGroup` takes it that its loops start; a loop whose selector does not
  open is the finding of `event_loop_open_fails`.
* Connections, requests and streams are used once each, so that a finite number
  of them keeps the runs finite; starts and stops are not bounded.

## 4. Runs

Every constant that bounds a run is in its .cfg; `MaxQueued`, `MaxSize`,
`MaxBeyond`, `MaxLoops`, `Arrays` and `Garbled` bound what the code leaves unbounded.

| Run | Instance | What it shows |
|---|---|---|
| `event_loop_safety` | two handlers, one registering thread, an array of two events, handlers registered again, restarts | callbacks unregister their own handler and nobody else does: no call of a destroyed handler, no use of a closed selector, no thread or half-done call after `Stop`; the loop implements `HandlerLifetime` |
| `event_loop_remove` | two handlers, two threads; one of them, and callbacks, unregister any handler; one event at a time. Deadlock is not checked: after undefined behaviour the loop, and who joins it, may stop for good | registrations keep an owner through the gap of `Unregister`; `Stop` returns; unregistered handlers are destroyed; the last two unless the loop has called a destroyed object |
| `event_loop_open_fails` | one handler, `OpenMayFail` | finding 1 |
| `queue_untimed` | two producers, two consumers, capacities 1 and 2, four values | no wakeup is lost, and the fairness of `FifoQueue` follows |
| `queue_all` | three threads that make every call, `SetCapacity` included | every call takes effect at most once, in FIFO order, and none pushes into a full queue (`ImplementsFifo`) |
| `timer_safety` | two timers, two workers, a user and a worker that add timers; intervals 0, 5 and 12 where a second has 2 milliseconds and `int` 4 bits | each worker gets one null handler, what was queued is run, an armed timer has an interval that was asked for, and the loop is used as `EventLoop` requires |
| `timer_live` | two timers, one worker, a user and a callback that remove; one event at a time | `Stop` returns, armed timers fire, removed ones fall quiet and are destroyed |
| `timer_remove_race` | one timer, a user that removes it | finding 2 |
| `stream_all` | buffers of up to six bytes; arrays of up to three elements of up to two bytes; a connection with headers of three bytes, bodies of 3, 0 and 1, the last packet from another thread of the server, sockets that hold four bytes, garbled lengths -3, -1 and 2 | timed forms and arrays move every byte once, in order, and return what they should; over the connection, in whatever pieces the sockets move, no byte is sent twice or left out, no packet is left in the queue, the handler stops asking for `EVENT_WRITE` and leaves its loop when the client has gone. That the bytes are the right ones is not claimed: they are not |
| `stream_pointer` | buffers of up to four bytes, pointer forms | finding 3 |
| `tcp_server` | four connections, up to three loops, a backlog of two, an index that wraps at two | stop order, ownership, balance, `Stop` returns, the backlog is served; the server implements `ConnectionLife` |
| `tcp_client` | two addresses, a user with one stream, up to two loops, an index that wraps at two | running loops only, nothing lost or doubled, no socket left open by `Connect`, `Stop` returns, addresses are served and tried again |

Why these bounds are enough for the interesting cases: the races of the event
loop are between one handler in the array, another call for it, and one more
handler that shares the array; two handlers and two threads have all of them. A
lost wakeup needs two sleepers and two values. The null handlers of `Stop` go
wrong with two workers. A byte is left out or repeated in a buffer that is moved
in two pieces, with one byte before or behind them, and `UpdateIov` goes wrong
with an empty element between two others or at the end. The echo handler meets
with headers of three bytes, which every first piece shorter than the whole
misplaces, a packet that does not fit the sockets, one without a body, two
packets queued while one is sent, and after a garbled header with a packet of no
bytes, one shorter than a header, and one of another size than was sent. Of the
intervals one disarms, one has whole seconds and a rest, and one becomes
negative. One call of `Connect` has all the races of its socket. The order of
`Stop` needs one loop; ownership and balance need two and more connections than
loops. The type invariants that are proved (section 6) are not checked again.
Symmetry is used only in runs without liveness properties.

## 5. Fairness

* `EventLoop!Spec`: the loop thread is scheduled and `epoll_wait` returns, by its
  timeout at the latest; callbacks return; a call of `Register` or `Unregister`
  goes on; `Start` and `Stop`, once begun, go on. No fairness for anybody who
  begins something.
* `BlockingQueue!Spec`: a thread that keeps asking for the mutex gets it.
* `TimerManager!Spec`: the same, and an armed timerfd expires; some worker pops
  when there is something to pop (this is `FifoQueue!FifoFairness`, which
  `queue_untimed` shows the queue has); and, strongly, a timerfd that is ready
  again and again is reported (the kernel rotates its list of ready
  descriptors when there are more than fit the array).
* `TcpServer!Spec`: threads are scheduled, and `accept4` does not fail for ever
  while connections wait (strong fairness of `AcceptTakes`): with descriptors
  exhausted for ever nothing can be served.
* `TcpClient!Spec`: threads are scheduled; `poll` returns, by its timeout at the
  latest, and so does `connect`. What the peer answers, and whether, is open: there
  is no fairness for `SocketAnswered`.
* `Echo!Fairness`: the loop's thread is scheduled, and a client that is open reads
  what has arrived. That it sends, or stays open, is not assumed.

## 6. Proofs

All theorems hold for every value of the constants that the named `ASSUME`s
allow. The type invariants are proved (`TypeCorrect`) for `EventLoop`,
`BlockingQueue`, `TimerManager`, `Stream` and `TcpServer`.

**EventLoop.** `Inv` strengthens `WatchedOwned` by: what the owner, the thread
and `m_state` can be together (`LifecycleInv`); that the array is empty outside
of `Select` and a callback is one its events call for (`BatchInv`); that the
loop thread's own `Unregister` runs inside a callback (`ClosingInv`); that
nothing refers to a handler before its construction (`FreshInv`); and that a
handler between the two halves of `Register` is in the map and unknown to
everybody who could take it out (`AddingInv`). `BackedInv`, every event about to
be dispatched is for a handler of the map, holds when only callbacks unregister,
and gives `DispatchIsSafe` and, with the step simulation `LifetimeStep`,
`LoopImplementsLifetime`: until its callback gives it up an object outlives the
callback, and it may be destroyed while the callback that has unregistered it is
still on the stack, which `HandlerLifetime` allows and which really happens
(`event_handler.cpp:40-43`). `NoOrphanedRegistration` assumes that no thread but
the loop's unregisters or that no handler is registered twice: with both, an
`Unregister` between its halves can take out of epoll what another thread has
just put in; `StopIsFinal` and `SelectorIsOpen` rest on the same. `SelectorIsOpen`
also assumes that opening the selector succeeds.

**BlockingQueue.** `NoLostPop` and `NoLostPush` are inductive with the type
invariant. The argument counts: a push adds a value and wakes a sleeper if there
is one, and a woken thread that takes a value takes one away from both sides
(`NotifiedOne`, `LeftOne` are the facts about cardinalities). It needs that
waits have no timeout or that there is one consumer (producer), since a
timed-out thread may take a notification with it. For pushes it needs besides
that nobody calls `SetCapacity`, which makes room and notifies nobody.
`QueueImplementsFifo` is a step simulation in which waiting, waking and spurious
wakeups stutter.

**Stream and Iovec.** `Inv` says that in the timed forms `data` is the number of
bytes moved, and in all forms that `size` is what is missing;
`TimedFormsKeepOrder` and `ReturnsAreTrue` follow for buffers of any size.

`NoByteSkipped` and `ReturnValuesTrue` are about the calls with an array, for any
number of elements of any sizes. `ArrayInv` says that what has been moved,
followed by the bytes that `iov` and `iovcnt` describe (`Vec!Left`), is the array:
`TransferKeeps` shows that `UpdateIov` takes from the front exactly what went
through the socket, wherever that ends: in the middle of an element, at its end, or
in front of empty ones. What is described is a `FlattenSeq`, which recurs over
the array. The library's induction theorems, which take an operator, cannot be
used; `SequenceLemmas` has induction over sets of numbers instead (`LeastNumber`,
from the well-foundedness of `<`, gives `UpTo`), shows with it that the function
in the definition of `FlattenSeq` exists and is unique (`FlattenExists`,
`FlattenUnique`), and from that the three rules the proofs use: a buffer more at the
end (`FlattenAppend`), one more in front (`FlattenHead`), and the type.

**Echo.** `EchoInv` holds for any number of packets with bodies of any sizes,
any room in the sockets, any pieces in which they move bytes, and any garbled
lengths from `-HeadSize` on (with a lower one `resize` throws: `ServerEnds`). It has the types, the two statements `BytesAccounted` and
`UnsentWatched`, and `Shape`, where the handler stands: callbacks run only while
it is registered, a packet is in the queue until all of it is sent and no more
of it is to be sent than it has, and a length read in place is not negative.
`UnsentWatched`, that a queued packet has the loop watching for room whichever
thread called `Send` last, is the safety under `NothingLeftBehind`; no run
checks it, since there `NothingLeftBehind` says more. There is one lemma for
each action; `EchoStep` puts them together. `Stream_proofs` takes the results
for arrays and for the connection to `StreamUses`, whose steps are steps of
`Iovec` and of `Echo`, or leave them alone (`ArraySteps`, `ConnectionAlways`):
`BytesCounted` and `SendNeverUnwatched`.

**TimerManager.** `IntervalExact`, `LongIntervalRefused` and
`LongestIntervalWraps` say what `InitTime` makes of every `uint32_t`, whatever the
width and the number of milliseconds in a second: up to 2^31 it is exact, from
there to 2^32 - 1000 it is refused, and in the last second it is accepted and
becomes less than a second. `IntervalsAreKept` follows from an invariant of the
clocks when no caller asks for one of the last (`NoneWraps`).
`OneNullForEachWorker` and `StopDrainsTheQueue` follow from `PoolInv`, for any number
of workers and timers. `OneNullEach`, a sum of three cardinalities, needs to know
that the queue holds no null handler before `Stop` (`PhaseInv`); and that what was
queued before is run needs that it stands in front of all null handlers and that
nobody exits while it is there (`EarlyInv`). `JoinedEmpty` is the step where the
two meet: when every worker has exited the sum leaves no null handler, and
nothing early.

`ManagerKeepsTheRules` is the step simulation of `EventLoop` (`LoopSimulation`).
Most actions of the manager contain one of the loop's or leave its variables
alone (`LoopStutters`); what has to be proved is where the manager adds something.
A worker that pops or returns changes `held`, the handlers that are kept alive
from outside of the loop, which `EventLoop` allows only as a step that drops a
reference (`Forgets`, `CallbackForgets`, `DestroyQueueForgets`). `Stop` tells the
loop to stop only when nobody is registering (`StopLoopAllowed`): by `PoolInv` the
workers have exited by then, by `CallInv` a worker is in a call only while it runs
a callback, and that users are out of theirs is what `StopLoop` demands of them.
`UseInv` is these two with the type invariant of the loop, and is inductive.

`RemovedTimersStayQuiet` rests on this: since the manager's steps are steps of
`EventLoop` or leave it alone, the invariant that `EventLoop_proofs` proves of a
loop holds of the manager's own (`LoopInvAlways`, with `EventLoop_proofs`
instantiated on the manager's variables as `Proved`). It says that epoll watches
only what is in the map or on its way there, so that a timer that is through
`RemoveTimer` and not in the array is not watched (`RemovedUnwatched`), never gets
into the map or the array again (`RemovedForever`), and is not the one whose
timerfd the loop thread has read, the only one that may be queued
(`OnlyReadQueues`).

**TcpServer.** `Inv` gives, for every point of `Start` and `Stop`, the state of
every loop: all run while there is an accept thread (`Serving`), the first
`group.i` loops are told to stop, or joined, while `Stop` goes through them, all
rest when it is through (`LoopsInv`), and says at which points there is an
accept thread, a socket and a connection in its hands (`AcceptInv`, `MainInv`).
`AcceptThreadSafe` cannot be inductive alone, since that the loops run follows
from where `Stop` is. From it follow `AcceptThreadIsSafe`, which is what
`EventLoop` asks of those who register, and `StopLeavesQuiet`.
`OwnInv` spells `OneOwner` out for single positions of the backlog and single loops
and says besides that a connection nobody has made yet is nowhere and that loops
being started are empty; it is inductive together with `Inv`, and gives
`OwnersAreUnique`. With both,
`LifeSimulation` maps every step of the server to one of `ConnectionLife`
(`ServerKeepsConnectionLife`), where `serving` is the relation between loops and
the handlers in their maps: `CreateHandler` is a `Serve` or a `Refuse`, since by
`OwnInv` no loop has the connection yet; `GroupSwap` is an `End` of all, since the
new loops are empty; and `CloseAcceptor` is a `Shut`, since by `AcceptInv` there is
nothing in the accept thread's hands when there is no accept thread.

`LoopsAreBalanced` needs more than that the numbers differ by one: *which* loops
are ahead. By `TurnInv` they are those from the loop at which this run of the
server began up to the one that is next, round the end (`Ahead`), wherever the
index stood at the start. One more choice keeps this (`ChooseTurn`), also when the
index wraps, if its range is a multiple of the number of loops (`IndexGoesRound`).

**EventLoopGroup and TcpClient.** `TcpClient_proofs` begins with the group under
any owner: `InPhase` relates the group's program counter and the state of every
loop to the phase its owner is in (starting, serving, ending, resting), with one
lemma for each step of the group and of a loop's thread. `Inv` of the client
maps where `TcpClient::Start` and `Stop` are to these phases (`GroupInv`,
`OwnerInv`) and says when there are threads in `Add` (`AddInv`): users only
while the client is started, the connect thread only between its start and its
join. It gives `AddersAreSafe`, for any index that unprotected counting may
produce, and `StopLeavesQuiet`. `SocketInv` adds that `Connect` runs for the
connect thread only and holds a descriptor at every point between opening and
returning; `NoSocketLeft` follows. `NothingIsLost` comes from `PlaceInv`: the
places where something may wait exclude each other, and no queue has it twice
(`OnePlace`, with the queues seen through `Occurs` and `Once`, so that appending
and taking the head are two lemmas); all that exists is in one of them, in a
loop's map or over (`SomePlace`); and the address of a connection that was added
is in a map already (`AddedInv`), which is why dropping it loses nothing.

Every safety invariant, action property and refinement that a passing run checks
is stated by a theorem, some with a hypothesis that the text above names.
`Conn!ConstantsFit` and `Vec!ConstantsFit` are the assumptions of `Echo` and `Iovec`
on their constants, as the constants of `StreamUses`; `MC_Stream` assumes them of
its instance. Model-checked only is liveness, for which the proof system has no
rule here: `StopCompletes` (of the loop, the manager, the server and the client),
`UnregisteredFreed`, `ImplementsFifoFairness`, `TimerFires`, `RemovedFreed`,
`BacklogServed`, `FailedRetried`, `AddressesServed`, `NothingLeftBehind`,
`ClosedFreed` and `GoesQuiet`.

## 7. Findings

1. `EventLoop::Start` ignores the result of `Selector::Open` (`src/net/event_loop.cpp:38`).
   The assertion of `selector.cpp:82` fails when `epoll_create1` does
   (`event_loop_open_fails`).
2. `EventLoop::Unregister` from another thread may destroy a handler whose raw
   pointer `Selector::Select` has just got from `epoll_wait`
   (`timer_remove_race`). `TimerManager::RemoveTimer` is such a call, and
   `tools/server_example.cpp:178` makes it from the main thread.
3. The pointer forms of `Send` and `Recv` advance the pointer by what is left
   instead of by what was moved (`src/net/stream.cpp:73`, 180), so that a buffer
   moved in more than one piece is not moved as a whole (`stream_pointer`). Both
   examples call these forms: unless a short move takes exactly half of what is left,
   the packets of the echo example are spoiled.

Smaller disagreements seen while modelling, without a run of their own:
`UpdateIov` reads the length of an element behind the array when all of it has been
moved (`src/net/stream.cpp:99`); the timed `Send` may return -2, which
`include/xfnet/stream.h:94` does not list;
`Recv` of an array without room returns -2, a closed peer by
`include/xfnet/stream.h:97`; `Address` gives IPv6 addresses the family
`AF_INET` (`src/net/address.cpp:47`) and passes `sizeof` of a pointer to
`inet_ntop` (98, 105); `SocketUtil::SetNoDelay` returns success inverted
(`include/xfnet/socket_util.h:41`); an interval in the last second below 2^32 ms,
`AddTimer(0xFFFFFFFF, ...)` for one, expires after less than a second (every
295 ms), and any other of 2^31 ms and more is refused, although the parameter is
an `uint32_t` (`src/net/timer_manager.cpp:56`).

## 8. Not modelled

`Address`: its conversions are calls of `inet_pton`, `inet_ntop` and `snprintf`,
whose results it does not look at; it has no state of its own, and nothing the
other components do depends on what an address says. Of the library's
initialisation only the effect of ignoring SIGPIPE is modelled; the version
functions return constants. Of `Thread` and `ThreadGroup` starting and joining are
parts of their callers' actions; `Detach`, `Sleep` and `Yield` have no caller among
them. Of `SocketUtil` what `Stream`, `Connector` and `Acceptor` call is there by its
results; the rest sets options of a socket and returns. The `main` of the server
example starts and stops the components that have modules. Of modelled classes:
the untimed `Acceptor::Accept`, a failing `bind` (`Start` returns false and has
changed nothing), a failing `listen`, whose result `src/net/acceptor.cpp:38` ignores
(the server then runs and no connection arrives, which `TcpServer` has as a server
whose clients never connect), `Stream`'s `Shutdown`, buffer sizes and addresses, calls that
no document allows (`Stop` from a callback, `SetTimer` of a removed timer,
`Add(Stream&)` after `Stop`). The build files have no behaviour.

`PROJECT.json` lists the hazards; those without a property, or with one that
covers them in part, have their reason there. Some that no model here can show
wrong, since no document says what would be right:

* `m_handlers` survives `EventLoop::Stop`, so that a handler left in it cannot be
  registered again after a restart (`src/net/event_loop.cpp:57`);
* a callback that destroys another handler of the same event array
  (`src/net/event_loop.cpp:85`): `EventLoop` has it, and it ends in `undefined` like
  finding 2, but nothing in the repository does it or says that one may;
* a connection whose `epoll_ctl` has failed stays in the loop's map while the client
  connects to its address a second time (`src/net/tcp_client.cpp:99`);
* a failed `epoll_ctl` leaves the handler in the map, with `AddTimer` returning
  `nullptr` for a timer that then nobody can remove (`src/net/timer_manager.cpp:77`);
* a timed wait starts again in full after every wakeup or short write
  (`include/xfnet/queue.h:66`, `src/net/stream.cpp:156`);
* a timer's callback gets the address of the `Timer`, while `SetTimer` and
  `RemoveTimer` expect that of the `TimerHandler` (`src/net/timer.h:64`);
* an address that cannot be connected to is dropped (`src/net/tcp_client.cpp:90`);
* `work_thread_num` 0 divides by zero in a Release build (`src/net/tcp_server.cpp:87`).

## 9. Order of work

Done, in this order: `EventLoop` with `HandlerLifetime` and its proofs;
`BlockingQueue` with `FifoQueue` and its proofs; `TimerManager` over both;
`Stream` and `Iovec`, the proofs for the former; `EventLoopGroup`, `TcpServer`
with its proofs, `TcpClient`; `Echo`; `Connector` inside `TcpClient`;
`TimerInterval` inside `TimerManager`; the proofs for `TimerManager`, for the group
and for `TcpClient`, and `LoopsAreBalanced`; `ConnectionLife` and the proof that the
server implements it; the proof that the manager keeps the rules of `EventLoop`;
the proofs about removed timers, arrays of buffers, and the bytes of `Echo`.

Next:

1. An abstract specification of what `TcpClient` promises about addresses and
   streams, as `ConnectionLife` is for `TcpServer`, and the proof that the client
   implements it; most of what it needs is in `PlaceInv`.
2. One set of lemmas about the group for `TcpServer_proofs` and `TcpClient_proofs`.
3. Safety lemmas under the liveness properties: at every step something that is
   awaited comes nearer, or has happened (for `Stop`, the joins in their order).
