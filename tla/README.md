# whisperlib2 in TLA+

TLA+ modules for the concurrent and event-driven parts of whisperlib2
(`src/whisperlib`), TLC configurations that check them on small instances, and
TLAPS proofs of their safety for instances of any size.

## The system

whisperlib2 is a C++ library: queues between threads, a selector that runs an
event loop in a thread, and network connections on top of the selector.

| Part | State | Operations | What is hard |
|---|---|---|---|
| Lock-free queue `sync/producer_consumer_queue_lockfree.h` | tickets `head_`, `tail_`; bounds `last_head_`, `last_tail_`; a reservation per client; the ring `data_`; two semaphores | `Put`, `Get` | no lock: every load and store interleaves; the scan of the reservations is not atomic; bounds are stale; the ring wraps |
| Mutex queue `sync/producer_consumer_queue.h` | `data_` | `Put`, `PutAt`, `Get`, `TryGet`, `GetAll`, `Clear` | waits with timeouts, several waiters for one place |
| Queued functions `net/selector.cc` | `to_run_`, `have_to_run_`, wake-up descriptor, `should_end_`, `tid_` | `RunInSelectLoop`, `MakeLoopExit`, `Loop`, `SelectorThread::Start`, `Stop` | lost wake-ups, functions that queue themselves, overlapping starts and stops, failure of `poll()` |
| Descriptors `net/selector.cc`, `net/selector_loop.cc` | `registered_`, `desire_`, the table of `PollSelectorLoop` or the kernel's of `EpollSelectorLoop` | `Register`, `Unregister`, `UpdateDesire`, `LoopStep` | handlers close, open and delete while events are handed out; descriptor numbers are reused; holes and compaction; a limit on the events of a step |
| Alarms `net/selector.cc` | `alarms_`, the heap `alarm_timeouts_`, `next_alarm_time_` | `RegisterAlarm`, `UnregisterAlarm`, `LoopAlarms` | alarms run after the lock was released; unregistered alarms stay in the heap |
| `net/timeouter.cc` | `timeouts_` | `SetTimeout`, `ClearTimeout`, `ClearAllTimeouts`, destructor | races with an alarm that is about to run |
| `net/dns_resolve.cc` | queues and threads | `ResolveAsync`, constructor, destructor | full queues, shutdown |
| TCP connection `net/connection.cc`, `net/selectable.cc` | `state_`, `fd_`, half closes, `outbuf_`, `close_on_resolve_`, linger timeout | connect, wrap, read, write, error, `FlushAndClose`, `ForceClose` | several events at once, handlers that close, a peer that closes half, a close during a resolve |
| TCP acceptor `net/connection.cc` | listening socket, client threads, statistics | `Listen`, accept, `InitializeAcceptedConnection`, `Close` | clients on their way to other threads |
| SSL `net/ssl_connection.cc` | `p_ssl_` and its BIOs, handshake, `read_blocked_`, buffers | handshake, read, write, shutdown, close, the acceptor's hand-over | two layers with states of their own; records that arrive in halves |
| moodycamel queue `sync/moody/concurrentqueue.h` | per producer: head, tail, optimistic count and overcommit, blocks and block index; the free list; the list and the hash table of producers; tokens | all enqueue and dequeue forms | no lock anywhere; blocks are reused; indices are replaced under their readers; allocations fail half way |
| moodycamel blocking queue `sync/moody/blockingconcurrentqueue.h`, `lightweightsemaphore.h` | `m_count`, the kernel semaphore | `wait_dequeue...` | a timeout that races a signal |

How they interact: connections register themselves with a selector and get its
events; other threads reach them only through `RunInSelectLoop`; a Timeouter
turns alarms of the selector into timeouts of a connection; an acceptor hands
the descriptors it accepts to the selectors of other threads; an SSL connection
is the handlers of a TCP connection; the resolver hands requests to its threads
through mutex queues and calls back in those threads. The lock-free queue waits
on the semaphore of the moodycamel headers.

## Modules

| Module | Models |
|---|---|
| `LockFreeQueue` | the lock-free queue, one action per atomic access |
| `QueueData` | what the mutex queue does with `data_` |
| `ProducerConsumerQueue` | the mutex queue, with waits and timeouts (extends `QueueData`) |
| `SelectorCallbacks` | queued functions, the loop and `SelectorThread` |
| `SelectorPoll` | descriptors, the table of the poll loop, dispatch of events |
| `EpollLoop` | the same Selector over epoll, and deletion of Selectables (extends `SelectorPoll`) |
| `AlarmService` | abstract: what users of alarms may rely on |
| `SelectorAlarms` | the alarms of the selector; implements `AlarmService` |
| `Timeouter` | the Timeouter, on top of `AlarmService` (extends it) |
| `DnsResolver` | the asynchronous resolver, its queues from `QueueData` |
| `TcpConnection` | a connection, its socket, its peer, the resolver and other threads |
| `TcpAcceptor` | an acceptor with client threads (extends `TcpConnection` for `Wrap` and `ForceClose`) |
| `SslConnection` | an SSL connection of a client or of an `SslAcceptor`, OpenSSL, the TCP layer and the peer |
| `ConcurrentQueue` | a producer with a token (`ExplicitProducer`) and its consumers, one action per access that others can see |
| `ImplicitProducer` | a producer without a token and its consumers (extends `ConcurrentQueue` for the way a consumer claims an index) |
| `RefFreeList` | the lock-free free list of blocks |
| `TokenRotation` | the `try_dequeue` forms over the list of producers, consumer tokens |
| `ProducerTable` | the hash table of implicit producers and their recycling |
| `BlockingQueue` | `BlockingConcurrentQueue` on `LightweightSemaphore` |
| `MC...` | instances for TLC |
| `LockFreeQueueProofs`, `SelectorCallbacksProofs` | proofs about the module of that name |
| `NetProofs` | proofs about `TcpConnection`, `TcpAcceptor`, `SslConnection` and `Timeouter` |
| `ConcurrentQueueProofs` | proofs about `RefFreeList`, the counters of `ConcurrentQueue` and `ImplicitProducer`, and `TokenRotation` |
| `ExplicitProducerProofs` | proofs about where the items of `ConcurrentQueue` are (extends `ConcurrentQueueProofs`) |
| `SelectorLoopProofs` | proofs about `EpollLoop`, the dispatch of `SelectorPoll`, and `SelectorAlarms` |
| `MutexQueueProofs` | proofs about `ProducerConsumerQueue` and `DnsResolver` |
| `WaitingProofs` | proofs about `BlockingQueue` and `ProducerTable` |

Variables carry the names of the fields without the trailing underscore, actions
the names of the functions they model or of the step within them; objects with
many members are one record. `PROJECT.json` maps every definition to its lines.
Variables marked *history* exist only for the properties. Operators marked
*faulty* are not part of any specification: each is what the definition after it
would be with a plausible mistake, and serves to see that a property notices the
mistake.

The `MC` modules of runs with several components have a variable `part`: it is
chosen in the initial state and says which component a behaviour is about; the
others stay in an initial state in which no action that fairness speaks of is
enabled. One run so holds one state graph per component.

`LockFreeQueue`: `PutEnter` ... `PutSignal` are the accesses of `Put` in order,
`GetEnter` ... `GetSignal` those of `Get`. The header builds only on x86, where
`fetch_add` is a full barrier and stores become visible in program order. A
reservation whose store is seen late shows its older value, which is what the
interleaving with `PutReserve` and `PutPublish` as separate steps produces.

`SelectorCallbacks`: `to_run_mutex_` is held from `Push` to `SetFlag`; the flag
and the wake-up descriptor are read and written outside of it as in the code.
Functions are plain, queue themselves again, or end the loop.

`SelectorPoll` runs in one thread. User code, in handlers and queued functions,
registers, closes and changes desires when `UserCodeRuns`. The Selectables are
objects of classes of a user of the library that close in the order of
`TcpConnection::InternalClose`. The kernel gives out any number that is not open.
`loop_type` is `params_.loop_type`.

`EpollLoop`: the kernel's ready list is external. It reports the first
`max_events_per_step` of those that are ready and puts them behind the others,
which is what Linux does for level-triggered descriptors; `NobodyStarves` rests
on it. Selectables are deleted only by functions queued with
`DeleteInSelectLoop` or `RunInSelectLoop`, as `SslAcceptor` and
`Acceptor::CallAcceptHandler` do.

`SelectorAlarms`: a thread computes its deadline in `AskAlarm` and enters the
heap in `RegisterAlarm`. The heap functions of the standard library leave some
heap order; the model allows every one (`Heaps`). With two entries there is only
one unless they are equal, so `alarms_two` uses two.

`Timeouter`: with `AnyThread = FALSE`, timeouts are set and cleared only by
handlers of events in the thread of the loop, as `TcpConnection` does; with
`TRUE`, from any thread or from the callback of another alarm.

`DnsResolver`: the constructor starts each thread before it puts the thread's
queue in place. A thread that is faster reads a queue that is not there, which
is undefined; the model ends there (`crashed`).

`TcpConnection`: every method is an operator from the members to the members, so
that the nested calls of a handler, the application's handlers included, compose
as in the code; an action is one handler, one queued function or one step of the
outside. `ReadEvent` and `WriteEvent` choose what the kernel accepts and what
the application does in its handler (`Reactions`). `conn.abort` is where the
process ends: a `CHECK`, or a null `selector()`. `SocketTestsWork` says whether
three tests of the source do what they were written for: `Listen` and `Connect`
test `fd_`, which is still -1, and not the result of `socket` (connection.cc:376,
671), `InitializeRemoteAddress` takes the success of `getpeername` for an error
(1043), and `HandleDnsResult` an address for none (1125). As written, no
connection gets past them (`FALSE` shows it); the runs use `TRUE`, for the
hundreds of lines behind these tests.

`TcpAcceptor`: `client` says where each accepted descriptor is, `todo` the
functions queued at each client thread, `acc.next` is `next_client_thread_`, and
`given` (history) counts the clients each thread was given.

`SslConnection`: records are `<<kind, number>>`: flights of the handshake, data,
halves of data that TCP split, close_notify. OpenSSL is what this code sees of it:
`SslDoHandshake` answers every flight, `SslReadAll` stops in the middle of a
record. The TCP layer is the part of `TcpConnection` that its handlers see: it
may break in any state.

`ConcurrentQueue` and `ImplicitProducer`: items are their indices, so that a consumer
can tell whether it found the right one. Index, front and entry are read in steps of
their own; the moving of items out of one block is one step, since nobody else has a
claim on them. Indices do not wrap (2^64 items). A value that no constructor
initializes (`BlockIndexEntry::value`) is `Garbage`; the memory of blocks that were
destroyed is given out again. Accesses are sequentially consistent. `RefFreeList`,
`TokenRotation`, `ProducerTable` and `BlockingQueue` are the other parts of the same
queue; each takes of its neighbours what its code relies on: in `TokenRotation` a
producer is its number of items, of which a dequeue may get fewer than there are while
another consumer is in a call (`Visible`: an increment of `dequeueOptimisticCount` in
vain counts until it is in `dequeueOvercommit`), and the list of producers a sequence
with the newest one in front (`Along` follows `next_prod` and starts over at the
tail), in `BlockingQueue` the whole queue is a number.

`ProducerTable`: every thread hashes to the same slot, the hardest case for the
probe loops.

## Runs

Runs that pass:

| Run | Instance | Checks |
|---|---|---|
| `queues` | ring: 2 producers, 1 consumer, 2 slots, 3 tickets, 2 values, fair | `NoOverrun`, `NoSlotRace`, `FifoDelivery`, `TicketsUsedOnce`, the invariant of the proof `IInv`, and `NothingStuck` (`Delivered`, `CallsReturn`) |
| | blocking queue: 2 producers, 2 consumers, bulks of 2, fair | `BqInv` (`TokensHaveItems`, `SleepersAccounted`), `WaitersServed` (`NobodySleepsOnItems`, `LimitedCallReturns`) |
| | producer table: 3 threads, 1 exit, a first table of 2, fair | `PtInv` (`OneThreadPerProducer`, `SlotLeft`), `SameProducerAgain`, `GetReturns` |
| `net` | functions: 2 threads that start and stop the loop and queue 3 functions, `poll()` without timeout that fails once, fair | `NoLostWakeup`, `CallbacksInv` (`NoCallbackLost`, `RunInOrder`), `OneLoopThread`, `CallbackRuns`, `LoopMovesOn` (`LoopReturnsToPoll`, `StopReturns`) |
| | mutex queue: 2 producers, 2 consumers, 4 items, size 2 | `PcqInv` (`Conserved`, `FifoOrder`, `NeverOverfull`) |
| | resolver: 2 callers, 2 threads, 5 requests, queues of 2, fair | `DnsInv` (`ResolvedOnce`, `DestructorDrains`), `ResolverAnswers` (`AcceptedIsResolved`, `DestructorReturns`) |
| | connection: 2 chunks of a byte out, 2 bytes in, 1 call of another thread, a send buffer that fills, fair | `TcpInv` (`TcpChecksHold`, `OpenIsRegistered`, `CloseReportedOnce`), `ReadBeforeCloseRead`, `FlushCloses` |
| | acceptor: 3 clients, 2 client threads | `AccInv` (`AcceptedAccountedFor`, `ErrorsAtMostOne`, `SharedEvenly`) |
| | SSL: 2 flights, 2 chunks of two records out, 2 records in, fair | `SslInv` (`ConnectedAfterHandshake`, `NoWriteWhileReading`, `HandlersRunOnce`, `RecordsInOrder`), `HandedOverOrDeleted`, `HandshakeEnds` |
| | Timeouter: 2 timeouts, 4 alarms, in the thread of the loop | `ClearedStaysQuiet`, `TimeouterInv` (`NotBeforeLastSet`, `NoCallAfterDestroy`, `SetHasAlarm`) |
| `selector_tables` | poll: 4 Selectables, 3 descriptors, a table of 4 | `PollInv` (`TableConsistent`), `StaleEventsHarmless` (`HandlersOnlyForOpen`) |
| | epoll: 3 of the Selectables, 2 descriptors, 2 events in a step | `EpollInv` (`WatchedAreRegistered`), `StaleEventsHarmless` (`HandlersOnlyForOpen`, `DeletedUntouched`), `NobodyStarves` |
| | alarms: 2 threads, 3 alarms, heaps of up to 3 | `AlarmsInv` (`NeverEarly`, `RunsAtMostOnce`), `ImplementsService` |
| `concurrent_queue` | explicit: blocks of 2, index of 2, 7 items, bulks of up to 3, 2 consumers | `CqInv` (`ClaimFindsItem`, `NeverOverwrites`, `DestructorExact`), `CountsAgree` (`HeadWithinTail`, `CountsSettle`) |
| | implicit: the same, a pool of 1 block, allocations that fail | `ImpInv` (`ImpClaimFindsItem`, `ReturnedAreUnused`, `DestructorReturnsBlocks`), `CountsAgree` |
| | free list: 3 threads, 2 nodes, 2 calls each | `FlInv` (`HeldOnce`, `PoppedHasNoBit`, `NodesAccounted`) |
| | tokens: 2 producers, 2 consumers, quota 2, bulks of up to 2 | `EveryProducerTried` |

A property with others in parentheses is their conjunction; the `...Inv`
invariants contain the type invariant of their module (`...TypeOK`), where it has one.

Runs that show that the code does not do what a comment says (quoted in
`PROJECT.json`, findings):

| Run | Shows |
|---|---|
| `poll_compact` | `indices_to_compact_` is never cleared: every later step drops a polled descriptor |
| `alarms_two` | with two alarms one can be lost |
| `timeouter_clear` | an alarm already taken calls a timeout that `ClearTimeout` reported as cleared |
| `dns_twice` | the callback of a request that the queue took is called twice |
| `tcp_stream` | with two chunks to write, the second follows a part of the first: the peer gets a stream with a gap |
| `ssl_partial` | the records of a chunk after the first, which is all that `SSL_write` took, are dropped |
| `tcp_resolving` | a connection closed while it resolves, or whose name is not found, stays RESOLVING for ever |
| `cq_bulk` | after a bulk that failed for want of memory, a claimed position leads to the wrong block |

### What other bounds show

Some properties of passing runs hold only within the instance given, and TLC
finds the reason when one constant is changed:

- `poll` up to the first compaction that has something to do: `poll_compact`
  shows what happens after.
- `ReadBeforeCloseRead` with `ReadLimit = 1`: a read limit leaves bytes unread
  when CLOSE_READ is reported.
- `DeliveredIsRead` of `SslConnection`, which no run checks: data that came with
  the last flight of the handshake stays in the BIO until more arrives
  (ssl_connection.cc:449-456 says it is read "as long as we have any kind of
  data").
- `ClaimFindsItem` with `BulkMayFail = TRUE`: `cq_bulk`.
- that a token rotates whenever its quota is met, which no run checks: a bulk
  that comes short, or that another producer than the token's own serves
  (concurrentqueue.h:1484-1499), sets the counter to the quota or beyond without a
  rotation, and the single call, which tests for equality, then never rotates
  before somebody else does. The comment at 1386 has everybody rotate "Every 256
  items from one producer".

The models contain more that a reader of the code may not expect, without a run
of its own: the condition that `dns_twice` is about also leaves a request that
finds the queue full without any call; `is_started()` stays true and `tid_` set
after the loop has ended; `LoopStep` reports writability from `events`, what was
asked for, instead of `revents`; after a failure of `poll()`, or a signal that
interrupts it (`events.reserve(-1)` throws), what is registered stays registered;
`next_alarm_time_` is the time of the last entry of the heap and not of the
first, and a time in the past, so that the loop does not wait, when the heap has
become empty. `TcpAcceptor::InternalClose` exchanges `fd_` before `Unregister`,
which then deletes the descriptor -1: the entry of the closed acceptor stays in
the table (`acc.polled`). `selector()` is null after `Unregister`, and
`FlushAndClose`, `ForceClose` and `RequestReadEvents` of a closed connection go
through it (`conn.abort` "null selector"). `FlushAndClose` of a connection that is
RESOLVING fails the `CHECK` of connection.cc:966, that a connection without a
descriptor is DISCONNECTED; `TcpChecksHold` names it, and says that nothing else
fails it. A `Wrap` that fails after `Register`
leaves a destroyed connection registered ("dangling"). `SslConnection`: when
`SslInitialize` fails in `Wrap`, the TCP connection is closed and then asked for write
events, through a null `selector()`; a
`ForceClose` of another thread frees the SSL object at once; the connect handler
of an application may run after its close handler; write events after a blocked
read are asked for only while it is still blocked (496).

### Bounds

`Put` and `Get` mirror each other, so two of a kind and one of the other meet in every
race; two slots with three tickets make a lap that starts over while the other slot is
in use. The proofs hold for any numbers. `MaxPos` bounds the calls, never a call
between two of its steps. In `SelectorCallbacks` two functions per event and three
functions make batches with a remainder, and a `poll()` without timeout allows for
nothing but the wake-up. In `SelectorPoll`, `MaxDeletes` bounds the list that the code
never empties. In `EpollLoop`, three descriptors, the wake-up's included, and two
events in a step leave one out, and three Selectables (`MaxUsed`) reuse the number of
a deleted one. In `SelectorAlarms` the clock stays at `MaxTime`, where every alarm is
due, and the wait in `poll()` still runs down. In `TcpConnection` two chunks out and
two bytes in make partial reads and writes that end between chunks (chunks of two
bytes, of which a part is written, are in `tcp_stream`); a write may fill the send
buffer, and the peer may leave it so; `MaxCalls` is one close from another thread on
top of those that handlers and the owner make. In `SslConnection` two flights are the
least in which the last one is the peer's or one's own, and a chunk of two records is
one that `SSL_write` does not take whole. In `DnsResolver` the requests are made in
the order of their numbers (`RequestsNumbered` of `MCNet`): they differ in nothing
else. In `ConcurrentQueue` and `ImplicitProducer` blocks of two and a bulk of three
end within a block and begin in one; the seventh item makes the index grow after it
has wrapped (in `ImplicitProducer` it is allowed in this case only, `LastItemWraps` of
`MCConcurrentQueue`). In `RefFreeList` the third thread is the one that comes between a pop and
a push of the same node; which of them has the nodes at the start is settled up to
renaming. In `TokenRotation` the offset wraps at `Offsets`, a bulk may reach the
quota at once, and producers are numbered in the order of the list
(`ProducersNumbered`). In `ProducerTable` three threads need a second table, and one that
exits leaves a tomb. `CHECK_DEADLOCK FALSE` is given everywhere: all these parts may
stop when nobody calls them.

### Fairness

Liveness properties have the form `[]<>P`, where P says of a state that nobody is
being waited for: a wait that never ends is one in which P is false from some time on.

`LockFreeQueue`: a thread inside `Put` or `Get` is scheduled; nobody has to call.
`timed_wait` returns after `wait_duration_` and `_mm_pause` at once, so waiting
is a step like the others. `SelectorCallbacks`: the thread of the loop, unless it
waits in `poll()`, and threads inside a call are scheduled; `poll()` need not
time out, fail, nor anybody call. `SelectorAlarms`: time passes, and `poll()`
returns at its timeout. `DnsResolver`: the threads, the callers inside
`ResolveAsync` and the owner inside constructor and destructor are scheduled;
`getaddrinfo` returns. `TcpConnection`: the select thread handles events, and
gets to its functions and alarms between steps (strong fairness: they are not
looked at while events are handed out); `::write` takes a byte at least when `poll()`
has reported that there is room. The peer need not do anything: it may leave the send
buffer full for ever. The linger alarm is set only when `outbuf_` is empty
(connection.cc:851-875), so such a peer keeps the connection FLUSHING; this is the
first disjunct of `FlushCloses`. `SslConnection`: the
select thread handles what is ready, and the peer goes on with the handshake
unless it closes. `BlockingQueue` and `ProducerTable`: a thread inside a call is
scheduled, timeouts included; nobody has to call.

## Proofs

All proofs are of the form: an inductive invariant holds at the start, every
action keeps it (a lemma or a step per action, under it one per conjunct that the
action can disturb), and it implies the property. They hold for every value of
the constants that the named assumptions (`ASSUME`) of the modules allow; the
bounds on calls, items and ids are any numbers. The run `queues` checks the
inductive invariant of `LockFreeQueue` with TLC too.

| Module | Theorems | For every |
|---|---|---|
| `LockFreeQueueProofs` | `TypeCorrect`, `Invariance`, `FifoDeliveryHolds`, `NoOverrunHolds`, `NoSlotRaceHolds`, `TicketsUsedOnceHolds` | number of producers and consumers, size of the ring that is a power of two, set of values |
| `SelectorCallbacksProofs` | `CallbacksInvariance`, `CallbacksInvHolds`, `NoLostWakeupHolds`, `OneLoopThreadHolds` | set of threads, number of functions, of functions per event and of failures |
| `MutexQueueProofs` | `PcqInvHolds`, `DnsInvHolds` | set of threads and items, size and order of the queue; number of resolver threads, callers and requests |
| `SelectorLoopProofs` | `EpollInvariance`, `EpollInvHolds`, `StaleEventsHarmlessHolds`, `NobodyStarvesHolds` | set of Selectables, finite set of descriptors, `max_events_per_step` |
| | `AlarmsInvariance`, `AlarmsInvHolds`, `AlarmsRefineService` | set of threads and delays, number of alarms, size of the heap |
| `NetProofs` | `TcpLifeHolds` (`TcpChecksHold`, `OpenIsRegistered`, `CloseReportedOnce`) | bytes either way, calls of other threads, `ReadLimit`, either value of `SocketTestsWork` |
| | `ReadBeforeCloseReadHolds` | the same, with `ReadLimit = 0` |
| | `AccInvHolds` | number of clients and of client threads |
| | `SslHandedOver` (`HandedOverOrDeleted`, `HandlersRunOnce`, `NoWriteWhileReading`) | number of flights and records, either side |
| | `TimeouterInvariance`, `TimeouterInvHolds`, `ClearedStaysQuietHolds` | set of timeouts, number of alarms; with `~AnyThread` |
| `ConcurrentQueueProofs` | `FlInvHolds` | finite set of threads, set of nodes |
| | `CountInvariance`, `CountsAgreeHolds`, `ImpCountsAgreeHolds` | finite set of consumers, size of blocks and of bulks, number of items; allocations that fail included |
| | `EveryProducerTriedHolds` | set of producers, finite set of consumers, quota, sizes of bulks, where the offset wraps |
| `ExplicitProducerProofs` | `FindInvariance`, `CqInvHolds` | finite set of consumers, size of blocks, of the first index and of bulks, number of items and calls; with `~BulkMayFail` and `Unlimited` |
| `WaitingProofs` | `BqInvHolds` | finite sets of producers and consumers, number of spins, size of bulks |
| | `PtInvariance`, `OneThreadPerProducerHolds`, `SameProducerAgainHolds` | finite set of threads, number of exits, first size of the table; all threads hash to the first slot |

`AnyThread` is false where a Timeouter is used as `TcpConnection` uses it, from
the thread of the loop. From other threads the property does not hold, which
`timeouter_clear` shows. `ReadLimit = 0` stands for the default, a `read_limit`
that is not set (connection.h:264); with a limit `ReadBeforeCloseRead` is false
(see "What other bounds show"). An `enqueue_bulk` that fails half way, for want of
memory or at the limit of items, breaks `CqInv` (`cq_bulk`); so its theorem takes the
memory for bulks for granted (`~BulkMayFail`) and no limit that the items reach
(`Unlimited`; `MAX_SUBQUEUE_SIZE` has none by default, concurrentqueue.h:503). The
allocations of a single `enqueue` may fail at any time.

### The inductive invariants

`LockFreeQueue` (`IInv`). That a slot may be written rests on a scan made earlier,
while other clients moved. The invariant adds

- `Reservations`: a published reservation is never above the ticket it stands for;
- `Distinct`, `Accounted`: each ticket drawn is used, or held by exactly one client;
- `Scans`: below the minimum found so far by a scan, only clients that the scan
  has not reached yet hold tickets. A client that enters behind the scan draws a
  ticket at or above the counter that the scan started from, and one that has its
  ticket published a reservation before it drew it;
- `Hints`: hence what a scan stores in `last_tail_` or `last_head_` bounds what is
  settled, for ever, however old it is and in whatever order scans are stored;
- `Permits`, `Contents`: who is about to touch a slot may, and an element stays in
  its slot until it is taken.

`SelectorCallbacks` (`CallbacksIInv`). `FlagFollowsQueue`: a queue without flag
means that a thread is between its push and its store to `have_to_run_`, and that
thread still owes a wake-up. `QueuedInOrder`: what was queued before a function has
run, is in the batch, or is in front of it. `BatchFits` bounds a batch by what is
left of the limit. `OneStop`: one thread at a time is inside `Stop()`, and
`is_started_` outlives the loop. `PlaceKept` is about the bound on ids only: the
exit function of a `Stop()` under way has one left.

`SelectorAlarms` (`AlarmsIInv`). The heap keeps entries of alarms that are gone, so
the heap and the map of alarms agree on one thing only: an entry carries the
deadline of the alarm with its id (`HeapKept`). `TakenDue`: what was taken under
the lock was due then. `OneUse`: an id is new, registered, taken once, or done
with. The refinement maps `alarms_` to `pending` and the alarms taken to `taken`;
a step that drops an entry whose alarm is gone is a stutter.

`Timeouter` (`TimeouterIInv`), on top of the abstract `AlarmService` only:
`AlarmsOwned` (an id is pending or taken once), `EntriesMatch` (the entry of the
timeout that a pending or taken alarm belongs to names this very alarm),
`CalledOnce` (a callback that is about to be called has no entry any more),
`NothingLeft` after the destructor.

`TcpConnection` (`TcpLife`). A handler nests calls that may close the connection, the
application's reactions among them, and goes on with what they left. `ConnOK` is what
every method relies on and leaves behind: a connection with a descriptor is in an open
state and registered with its selector, CLOSE_READ_WRITE was reported at most once and
only to end the connection, and no `CHECK` on the state failed but the one of
`CloseCommunication`, in RESOLVING. There is a lemma per method: it leaves the life of the
connection alone (`SameLife`) or it may close it and keeps `ConnOK` (`Keeps`).
`TcpLife` adds that an event in hand belongs to an open descriptor and that the
resolver was asked by a connection that is resolving. `ReadBeforeCloseRead` is an
action property: CLOSE_READ is reported only by the step that found the end of the
stream, and without a limit this step has read all before it.

`TcpAcceptor` (`AccIInv`). `QueueTells`, `QueuedOnce`, `ScheduledQueued`: a function is
queued once and for the place its client is in, and a client that is scheduled has
one. `AccCounts`: each counter is the number of clients that went a certain way.
`GivenInTurn`: the threads before `acc.next` got one client more than the others.

`SslConnection` (`HandInv`). `Owned`: what may be queued, told and deleted for each owner
(the acceptor, the application, nobody), so that an acceptor lets go of a connection
only by handing it over or by queueing its deletion, once; `ConnectOnce`: there is at
most one connect to run, after the handshake; `BlockedTogether`: a record read in part
and `read_blocked_` come and go together. Without an owner TCP is closed.

`ProducerConsumerQueue` (`PcqIInv`). `Apart` says of what left the queue and of what
is in it separately what `Conserved` says of both; `WaitingItems`: an item whose
producer waits is nowhere else.

`DnsResolver` (`DnsIInv`). `QueuesHold`, `WorkersHold`: a request that was taken is in
one place, with no result yet; the empty request that ends a thread is the last
item of its queue. `NoneLost`: there is such a place for every request without a
result. `OwnerPlace`, `CallersPlace`: how far constructor, destructor and callers
are; so no thread ends with a request behind the empty one.

`EpollLoop` (`EpollIInv`). `Descriptors` and `WatchedAreRegistered` carry each other
through the order of `InternalClose`. `InHand`: events in hand are of Selectables
that were not deleted, and there are none when queued functions, the deletions
among them, run. `Order`: the place of a descriptor in the kernel's order is the
number of those looked at up to it; a step that leaves it out moves it
`max_events_per_step` places forward, so place + steps left out *
`max_events_per_step` never exceeds the number of descriptors. The theorems also
speak of the poll loop's dispatch (`SelectorSpec` has both), not of its table.

`RefFreeList` (`FlIInv`). The linked list is a sequence of different nodes (`ListIs`).
`PlaceOK`: a node is on the list, or with one thread that holds it, popped it or
adds it, or it waits with the bit `SHOULD_BE_ON_FREELIST` set for the last reference
to be dropped; its count is the number of threads that pin it, and one for the
list. `LocalsHold`: the next pointer that a thread read is still there while it
pins the node, which is what excludes ABA.

`ConcurrentQueue` and `ImplicitProducer` (`CountInv`). The optimistic count is what was
granted and what is still to be decided or paid back; `dequeueOvercommit` what was paid
back (`CountsAdd`, over sums of what each consumer is about to do). Claims are decided
in any order, so the head is bounded through the boundary of the latest one compared
with the tail (`Within`): every claim below it fits, and one above it is granted no more
than the tail leaves it. `ClaimsApart`: two undecided claims have different counts.

`ConcurrentQueue` (`FindInv`, on top of `CountInv`). Blocks are numbered in the order in
which the producer takes them into use, again and again, and the item with index i is
for the block with number i / `BLOCK_SIZE`. The invariant says that there are such
numbers (`ring`, from numbers to blocks, and the next number `m`) with which

- `Ring`: the links go through the blocks in the order of their numbers;
- `Contents`: a slot has its item from the time it is constructed until it is moved out,
  and its flag is set when it was moved out and flagged, or when its block has not been
  opened for the call that is under way;
- `Kept`: a block keeps its number as long as one of its items is not flagged. This is
  what makes the reuse of an empty block safe;
- `Indices`: the newest block index has an entry for every block; every index, old ones
  too, has an entry only where its base says it is (`shift` is how far the numbers are
  turned in it), and the entries of claimed items;
- `Lookup`: so the distance from any front that a consumer has read, however old, to the
  base of its item leads it to the right place, and to the next places after it. The
  entry is still there: an entry is written over only when its block was used again,
  thus not while one of its items is claimed;
- `Producer`, `Enqueue`: the position of the producer in the ring and in the index and
  the parts of its call that are done. A call that fails for want of memory has nothing
  to undo when it is for one item.

`TokenRotation` (`TrIInv`). A call that comes short has tried every producer of the
list it began with; what it got from each is any number up to what is there. `Ahead`
and `RoundTo` say which positions a call has still to go through; since a producer is
added in front, all positions move by one, and what a call has been through stays
behind it. A producer added meanwhile is not owed a look.

`BlockingQueue` (`BqIInv`). `ItemsAccounted`: the items in the queue are those not
signalled yet, those owed to consumers that hold a token, `m_count`, and, when it
is negative, what sleepers took from it; `SleepersAccounted`: each sleeper is
counted, or the kernel semaphore or a signaller on its way has a unit for it. Both
count pairs of a thread and a number, with lemmas on what a step adds.

`ProducerTable` (`PtIInv`). `EntriesOK`: an entry of a thread leads to its producer,
and no slot before it is empty, so that a search that starts at the hash comes to
it; slots of exited threads become tombs and never empty. `PlaceOK`: a search has
not passed its id, in this table or in those added after it. `EntryLeft`: a thread
with a producer that does not exit has an entry somewhere. `OwnedOnce`: the
producers of threads, and those taken from the list and not entered yet, are
different and not inactive. What other threads do is one lemma (`ThreadKept`): they
write neither over the ids of a thread nor an empty key, and add tables without it.

### Only model-checked

- Liveness (`NothingStuck`, `CallbackRuns`, `LoopMovesOn`, `ResolverAnswers`,
  `FlushCloses`, `HandshakeEnds`, `WaitersServed`, `GetReturns`): fairness and
  ENABLED are beyond the prover.
- `PollInv`: `Compact` is a fold over a sorted sequence, and what a fold computes
  needs induction over data. It also holds only up to the first compaction
  (`poll_compact`).
- `SlotLeft` of `ProducerTable`, and with it `PtInv` as a whole: it counts slots of
  tables that are no longer the main one while threads with an older count still
  enter them.
- `TcpInv` as a whole: the theorem leaves out its type invariant.
  `ConnectedAfterHandshake` and `RecordsInOrder` of `SslInv`: they speak of the records
  selected from a sequence. `StreamInOrder` and `RecordsComplete` are false
  (`tcp_stream`, `ssl_partial`).
- `ImpInv`: an implicit producer gives its blocks back to the free list and takes them
  from there, so the numbers of `FindInv` would have to follow blocks through other
  producers; no proof. `CqInv` for bulks that fail is false (`cq_bulk`).

What a recursive definition computes cannot be proved by induction here. Where a
proof needs it, it takes the least counterexample instead (lemma `Least`), or the
definition is a closed form (`Along`).

## Not modelled

- Addresses (`net/address.cc`), paths, errno and status texts: functions on text
  and tables without state. Files (`io/file.cc`, `io/filesystem.cc`): calls to
  the operating system by one thread.
- `Thread` wraps pthread and is used by a test; `CallOnReturn` is a scope guard;
  `FreeList` keeps a vector, under a mutex in `ThreadSafeFreeList`.
- Of the connections: statistics beyond the acceptor's counters, socket options,
  addresses, certificates and keys. `HandleDnsResult` passes a reference to its
  parameter to a queued function (connection.cc:1111); the model takes the result as
  it was. A failing `EnableReadCallback` or `EnableWriteCallback`
  (connection.cc:712-713, 811-815, 855-859): `UpdateDesire` fails only in another
  thread than the loop's, for another selector, or when `epoll_ctl` does. An acceptor
  without client threads, which sets up its connections in its own thread.
- Of SSL: `write_blocked_on_read_` and `read_blocked_on_write_`
  (ssl_connection.cc:440-442, 474-479, 533-539), which a renegotiation would set; a
  `Connect` that fails, which leaves nothing behind; a second `FlushAndClose`, which
  changes nothing but the write events.
- Of the moodycamel queues: constructors of elements that throw, a constructor of a
  producer that gets no memory for its first block index, swap and move of queues, the
  debug builds, and memory orders weaker than sequential consistency.
- Sharing a client id between threads and stopping the loop from its own thread
  are outside of the interfaces. A composition of `SelectorCallbacks` with
  `SelectorPoll`, which would cover `tid_` (selector.cc:276), has more states than
  TLC can enumerate.

## Plan

Done, in this order: `LockFreeQueue` and its proofs, `SelectorCallbacks`,
`SelectorPoll`, `AlarmService` and `SelectorAlarms`, `Timeouter`,
`ProducerConsumerQueue`, `DnsResolver`, `TcpConnection`, `TcpAcceptor`,
`SslConnection`, `BlockingQueue`, `ProducerTable`, `ConcurrentQueue`,
`ImplicitProducer`, `RefFreeList`, `TokenRotation`, `EpollLoop`; then the proofs
listed above.

Left, for every value of the constants: `ImpInv`, along the lines of `FindInv`;
`SlotLeft` of `ProducerTable`.
