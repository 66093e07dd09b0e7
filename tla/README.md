# A TLA+ model of the alkaidlab framework

This directory holds a formal model of the C++ web framework in `src/`: TLA+
modules for the parts in which threads, callbacks and failures meet, TLC
configurations that check them on small instances, and proofs, checked by TLAPS,
of what holds for every instance. Paths below are relative to the repository
root, so the thread pool is `src/SupervisedThreadPool.cpp` (`PROJECT.json` writes
`src/` in front of that).

## 1. The system

The framework wraps the event-loop HTTP library libhv. A server process runs

* **IO loops** (libhv threads) that read requests, call callbacks and write sockets;
* **route handlers**, run on the loop (sync routes) or handed as a task to a
  dispatcher (async routes, `Router.cpp`);
* **file transfer strategies** called by handlers, of which one works on the loop
  after the handler has returned (`StreamTransfer.cpp`);
* a **supervised thread pool** and **queues** for the application's own work;
* **client transports** (TCP, WebSocket, HTTP, HTTPS) that applications use to call
  other services, each with an event-loop thread of its own in libhv;
* utilities: ids, tokens and their revocation list, logging, configuration.

### Inventory

| Component | State | Operations | Talks to | What is hard | What must hold |
|---|---|---|---|---|---|
| SupervisedThreadPool | running flag, handles, task queue, queue of ended ids | `start`, `stop`, `submit`, worker and supervisor loops | clients, tasks | flag outside the mutexes, respawn against `stop`, restarts, interruption | no task lost or run twice, bound kept, no lost wake-up, `stop` ends and leaves no thread |
| SPSCQueue | ring, two positions, counters | `push`, `pop`, `clear`, `size` | one producer, one consumer | lock-free accesses, wrap | bounded FIFO, no slot raced for, counters agree |
| LockfreeQueue | a `boost::lockfree::queue`, counters | `push`, `pop`, `clear`, `size` | many threads | counters trail the queue, which grows although it is documented as of fixed capacity | size against contents |
| FlowController, AtomicCounter | limit, counters | `tryPush`, `recordDrop`, `resetDropCount` | producers | the size tested is stale | by how much the limit may be passed |
| Router | routes, middlewares, dispatcher, tracker | `bind`, sync and async handlers | libhv, Context, dispatcher | who ends the response, exceptions, lost tasks | one End() per response, tracker returns to 0 |
| MiddlewareChain | list of functions | `use`, `execute` | handlers | `next` not called or called twice | onion order, handler run by choice of each layer |
| StreamTransfer | `TransferState` per download, the writer's callbacks, statistics | `send`, `startStreaming`, `pump`, `finish`, cleanup | route task, IO loop, socket | two threads, synchronous callbacks, disconnects, short files, ownership cycle | reported once, ended once and only whole, released in the end |
| LegacyTransfer | locals of `send`, `SyncWriterCall` | `send`, `runOnWriterLoopSync` | worker, IO loop | 5 s timeout against the loop's start of the call, backpressure timeout | no use of dead locals, report matches what was sent, one End(), `send` returns |
| AccelTransfer, FileTransferFactory | - | `send`, `create` | Context | nothing concurrent | - |
| TcpTransport, WebSocketTransport | client pointer, connected/failed flags, packet queue | `sendRequest`, `disconnect`, callbacks | callers, libhv client thread | timeouts and late answers, `disconnect` against `sendRequest`, callbacks of an old connection | an answer belongs to its request, no use of a client moved away, waits end |
| HttpTransport, HttpsTransport | client pointer, flag, timeouts, SSL settings | `sendRequest`, `disconnect`, setters | callers | unlocked getters and settings, `disconnect` is final, ms to s | what the getters say is about one's own request, a request keeps its client and context, timeout never longer than asked |
| SnowflakeGenerator, IdUtil | last timestamp, sequence; per-thread generators | `nextId`, `initSnowflake` | clock | sequence used up, clock set back, negative hash, shared worker id | a thread's ids increase |
| JwtUtil | revocation list, limit, start time | `sign`, `verify`, `revoke`, `cleanup`, `loadEntries` | persistence callback | eviction at the limit, reload after a restart, expiry between the two looks of `verify` | a revoked, unexpired token stays revoked |
| Application, HvServerTransport | ports, service | configuration, `enableSsl`, `start`, `stop` | libhv | order of calls | the port asked for is the port used |
| Context, IniConfig, Logger, PathGuard, hashing, passwords, certificates, JSON, time | per request or none | - | - | replacing the logger while logging | - |

`PROJECT.json` lists every component with its status, and under `hazards` each
place where this code can go wrong in a way a test would hardly reach.

## 2. Plan

Order: first what the framework promises to run and deliver, then what it calls.

1. **Done**: `ThreadPool` (+ proofs), `BoundedFifo`/`SPSCQueue`/`RingCapacity` (+ proofs),
   `StreamTransfer` with the end of the async route, `HvClient`, `ClientCalls` with
   `TcpTransport` and `WebSocketTransport`.
2. **Done**: `RemoteCall`, an abstract remote call (run once, or refused and never run
   after the return); `WriterCall`, `runOnWriterLoopSync` shown to implement it (+ proofs);
   `LegacyTransfer`, the send loop on top, with the route's task and `AccelTransfer`.
3. **Done**: `HttpTransport` for both HTTP clients; `FlowControl`, `Snowflake`,
   `RevocationList` with their common MC module (+ proofs of all three).
4. **Done**: the inductive invariants of `StreamTransfer`, `LegacyTransfer`, the four
   transports and the pool, and with them every safety and every action property that a
   passing run checks.
5. **Done**: `TaskQueue` and `FileTransfer`, what a pool and a transfer strategy promise, and
   the proofs that the pool and both strategies keep it; the safety facts on which
   `StopReturnsUnlessBlocking`, `TransferEnds`, `WriterReleased` and `SendReturns` rest.
6. Left: an abstract request for the two queueing transports. It would have to carry the
   premises of `RightPeer` and `AnswersInStep` along, for without them these transports promise
   nothing (see "What was found").

There are few runs, each answering a question of its own; small components will share
one MC module and run where their state spaces are independent of each other.

## 3. Modules

| Module | What it is |
|---|---|
| `ThreadPool` | SupervisedThreadPool |
| `MCThreadPool` | symmetry of its small instances |
| `TaskQueue` | abstract: what whoever submits tasks may count on |
| `ThreadPoolProofs` | its theorems, and its refinement of `TaskQueue` |
| `StopProofs` | theorems on why `stop` ends |
| `BoundedFifo` | abstract bounded FIFO |
| `SPSCQueue` | SPSCQueue, and its refinement of `BoundedFifo` |
| `RingCapacity` | capacity and mask arithmetic of its constructor |
| `MCSPSCQueue` | small instances, and the arithmetic checked against a reference |
| `SPSCQueueProofs` | its theorems |
| `StreamTransfer` | StreamTransfer, the writer's loop, the end of the route's task |
| `FileTransfer` | abstract: the contract of `IFileTransfer::send` and its `onComplete` |
| `StreamTransferProofs` | its theorems, and its refinement of `FileTransfer` |
| `HvClient` | the library's client object, as the transports use it (external) |
| `ClientCalls` | what the two queueing transports share: their members, callers, calls, and what callers may count on |
| `TcpTransport` | TcpTransport, on `ClientCalls` and `HvClient` |
| `WebSocketTransport` | WebSocketTransport, on the same |
| `HttpTransport` | HttpTransport and HttpsTransport |
| `MCTransports` | small instances of the four: a variable `kind` says which is used |
| `TransportsProofs` | theorems of the four, together as `MCTransports` has them |
| `RemoteCall` | abstract: a function another thread is asked to run |
| `WriterCall` | `runOnWriterLoopSync` of LegacyTransfer, and its refinement of `RemoteCall` |
| `WriterCallProofs` | its theorems |
| `LegacyTransfer` | LegacyTransfer on `WriterCall`, AccelTransfer, the route's task |
| `LegacyTransferProofs` | its theorems, on those of `WriterCallProofs`, and its refinement of `FileTransfer` |
| `FlowControl` | LockfreeQueue filled under a FlowController |
| `Snowflake` | SnowflakeGenerator, one per thread, and `initSnowflake` |
| `RevocationList` | the list of revoked tokens in JwtUtil |
| `MCServices` | small instances of `FlowControl`, `Snowflake` and `RevocationList`, which share nothing: `kind` says which is used |
| `ServicesProofs` | the theorems of the three |

Definitions whose comment begins "Deliberate fault" are not part of any
specification. Each is a plausible mistake in the definition that follows it;
`PROJECT.json` lists, for every property, one that makes it fail.

### ThreadPool

*State.* `running`, `numWorkers`, `slots`, `tasks`, `finished` are the members
`m_running`, `m_numWorkers`, `m_workers`, `m_tasks`, `m_finishedIds`. Each thread has a
program position: workers `wpc` (with their id `wslot` and local task `wtask`), the
supervisor `spc` (with its local `sid`), the thread that calls `start` and `stop` `ctl`
(with `pending`, `cursor`), and each task's `submit` call `sub`. `done` is history.

*Grain.* A step is a critical section, one access of the atomic flag, a notify or a join
that succeeds. The mutexes are implicit: the only place where a thread holds one between
two steps is between the test of a wait predicate and the sleep (position "blocking"); the
other critical sections are one step with the guard that nobody is there. Inside one
critical section `m_running` is read up to twice (lines 102 and 106): reading it once is
equivalent, because every path the second read can add (flag cleared in between, or the
queue found empty, `continue`) is the path of the next test of the same flag. An empty
queue can only be seen with the flag cleared, as the pool's threads are the only ones that
pop, under the same mutex.

*Actions.* One per step of `submit`, `workerLoop`, `supervisorLoop`, `stop`, `start`; a
thread's identity is free again after its join, as for a joined `boost::thread`.
`m_workers.clear()` in `start` detaches the threads still behind handles (the default of
the Boost version the build uses), which is what `Arm` does. `WorkerInterrupted` is
`boost::thread_interrupted` leaving `condition_variable::wait`: the only way a worker can
end by itself without ending the process, since a task's exceptions are swallowed at lines
117-121 and any other exception that leaves a thread function terminates the program.

*Left out.* Refusal of an empty task (it changes nothing), logging, `setMaxQueueSize` while
running (the header asks for it before `start`), calls of `start`/`stop` by two threads or
from a task (see the hazards).

### SPSCQueue

A step is one access of a shared variable: load of the other side's position, slot write or
read, store of a position, counter. Stores are releases and the loads that read them
acquires, so what is interleaved in the model is ordered the same way in the code; the
relaxed loads are of a thread's own position. `PushWrite`/`PopRead` at the same slot would
be a data race in C++; `NoSlotRace` says that it cannot happen. The refinement mapping puts
a push at the store of `m_writePos`, a refusal at the load that found the ring full, a pop
at the store of `m_readPos`, and reads the item a pop has already moved out from the
consumer's local (`Contents`). The copying and the moving `push` have the same steps.

### StreamTransfer

*State.* One connection (`connected`, `closeSeen`, `attached`, `buffered`, the callbacks
`onwrite` and `onclose`), the queue `loop` of events posted to it, the IO thread's position
(`io`, `cur`, and `frames`, the `pump` calls on its stack), and per transfer the fields of
`TransferState` and the progress of the route's task (`wpc`, `handedOff`). `served` is the
request whose response the writer holds, `begun` whether its state is SEND_BEGIN no more.
`active` and `errors` are `TransferStats`; `sent`, `ends`, `reports` and `thrown` are history.

*Actions.* The worker side interleaves: `SendRefused`, `SendPrepares`, `SendThrows` and
`SendPosts` are `send`, of which an exception may come before or after the response is marked.
`HandlerReturns` and `HandlerThrows` are the two ways out of the handler and its middleware
(an exception of `send` may be caught by the handler or go on); only after the first is the
mark read (`src/Router.cpp:99`), and `RouteLooks` decides on that flag and on the writer's state
whether `TaskEnds` ends the response. When a handler throws after `send` has handed its response
to the loop, the route so ends a response whose transfer is queued (`thrown`); the transfer is
followed to its end, with writes that may fail on the ended response, but no later request of
that connection is. This side interleaves with the loop's events (`StartStreaming`, `StartEmpty`,
`StartDisconnected`, `Cleanup`), the outcomes of `EndHeaders` and `WriteBody`, and the
rounds of `pump`. `Finish` is the whole of `finish` with `scheduleCleanup`;
`cleanupScheduled` needs no variable, since `finish` calls it at most once.

*External.* libhv is not in the repository. It is modelled as the code uses it: events run
in the order posted; an accepted write drains at once, with `onwrite` called before the
call returns (the comment at lines 147-149 counts on it), or is buffered; a write fails
only on a connection that is gone or on a response that was ended before; `isConnected()` may turn false at any moment and
`onclose` comes once, later; the next request of a keep-alive connection is read when the
last response was ended and the loop is idle (what the server does after a response was ended
under its transfer is not followed, see above); a writer may lose its io when the connection
is gone, in which case posting fails.

*Left out.* Header texts, byte and duration statistics, ranges (a range is a length; the
file may be shorter than that), and a server that stops with events still queued.

### TcpTransport, WebSocketTransport, ClientCalls and HvClient

*State.* `client` (is `m_client` set), `connected`, `failed`, `current`, `packets` are the
members `m_client`, `m_connected`, `m_connectFailed`, `m_currentHost` with `m_currentPort`,
`m_packetQueue`. `pc` is each caller's place in `sendRequest`/`receiveResponse`, `closer` that
of the thread in `disconnect`. `calls` is history: for each call the peer it asked for, the
connection it was sent on, how it ended and whose answer it got; `reported` is history as
well. `HvClient` holds what the library keeps: the client's `channel`, the events its loop has
not handled (`inbox`), and the callback under way (`running`), which for a client that
`disconnect` has moved out ("moved") goes on until it ends.

*Actions.* A step is a critical section or one access outside of them: the check
(`Check`), the new client (`Recreate`), the reconnection in two steps (`CloseOld` closes and
empties the queue, whose mutex is released before `Reconnect` or `NoSocket` makes the next
socket: what the old connection's callback stores in between is in the queue), the turns
of the waiting loop, the repeated reads of `m_connected` (`ConnectionLost`,
`ConnectionKept`), the send, the two unlocked reads of `m_client` (`TestClient`,
`ReadChannel`), and the one wait for a packet. `GiveUp` stands for the timeout and for the
wake-up that finds no packet, since the code does not wait twice. `DisconnectInternal` is
part of the steps that call it. `ReconnectWithoutClient` and the crash of `ReadChannel` are
the null pointers the code can meet; the process ends there, and so does the behaviour.

`WebSocketTransport` has the same members and positions, and other steps: one critical
section makes a missing client anew (`Check`), the next tests it again (`NoClient`); a
connection is replaced without being closed and without clearing `m_connected`, some time after
the queue was emptied (`ClearOld`, then `Open`);
`open()` may fail at once after `m_currentUrl` is set (`OpenFails`), and whether the old
connection is kept then is the library's affair, so both are allowed; the wait believes
`m_connectFailed` before `m_connected`; a timeout leaves the attempt alone; an empty body
sends nothing (`SendNothing`); `receiveResponse` looks at flag and queue in one critical
section; `onopen` reads `m_client` without a mutex (`OnOpenTestsClient`, `OnOpenReadsClient`).

*External.* What the library does is taken from what the code counts on: a lost or closed
connection is reported by the same callback; the loop delivers what it had read before the
close; callbacks run one at a time; taking a callback off does not end one that is running;
`stop()` and the destructor wait for the loop. A peer answers in order, or not at all, and
answers carry no request number (neither does the frame the code builds).

*Left out.* URL parsing and the frame's bytes (a short frame is `TakeInvalid`), the refusal
of bodies of 4 GiB, the catch clauses (nothing but exhausted memory throws there), the
setters, and `isConnected()`, which changes nothing.

### WriterCall, RemoteCall and LegacyTransfer

*State of a call.* `fn`, `started`, `done` are the members of `SyncWriterCall` (whether
`fn` is still there); `caller` is how far the thread that made it has got; `loop`, `io`, `cur`
are the loop's queue, its thread's position and the call it is at. A step is a critical
section of the call's mutex, or what happens between two: `StartCall` sets `started` and
copies the function, `RunCall` runs it, `FinishCall` sets `done`; `GiveUp` is the five
seconds running out with `started` still false. When that is, is the waiter's choice. An
object is used again when neither its caller nor a posted event refers to it, so an event of
a call given up long ago may still come.

*RemoteCall* is what the caller is promised: "yes" means the function has run, once, and "no"
that it has not and never will. It matters because the functions `send` gives away refer to
its local variables. The mapping (`CallStatus`) reads a waiting call's status from the loop:
running there, run there, `done`, or merely asked.

*State of a download.* `wpc` is the position of the route's task, in `send` or not;
`calling`, `job` the call it waits for and what that call does; `local` the local variables
of `send`; `pending` says whether the write buffer is above the threshold; `begun` the
responses whose state is not SEND_BEGIN any more; `tracked` is what the route's tracker has
been told. `body`, `owed`, `ends`, `reports`, `lost` are history: `owed` is the units promised
by Content-Length and not yet taken by the writer.

*Actions.* `Dispatch` (`DispatchLost` for a dispatcher that throws or drops the task, both of
which leave the tracker counting), `SendWhole` for every return that leaves a file or an
error in the response without using the writer, `SendThrows`, `SendOpens`, then for each
position `Asks`, the call, and the branch its answer leads to: `HeadersSent`/`HeadersFailed`,
`Sleeps`/`PollFailed`/`ReadsChunk`, `Written`/`WriteFailed`, `Ended`; `TaskEnds` is the rest of
the route's task, which ends a response nothing was written to. `JobRuns` is the function
itself, on the loop's thread. `AccelSends` is the whole of `AccelTransfer::send`.

*External.* The writer: a write is taken or fails on a connection that is gone, and may lose
it; the buffer may pass the threshold with any write and is drained by the loop's thread
only; the next request is read when the last response was ended.

*Left out.* Ranges (a range is a length, the file may be shorter), header texts, byte counts.

### HttpTransport

One module for both classes: they differ in the schemes they accept and in the SSL settings
(`secure`). A step is a critical section of `m_clientMutex` or one access to a member that is
used without it. `Sends` is `sendRequest` up to the library's `send`, during which the mutex is
kept; `Answered` and `Failed` are its end. `setSslConfig` assigns a struct without the mutex:
`AssignFiles` and `AssignVersion` are the two halves that matter, and `Applies` is
`configureSsl` with all the ways in which making or setting the context may end; it holds
pointers into strings that may be assigned meanwhile, so what it finds there may be the old
name, the new one or garbage. `Seconds` keeps the width of `uint16_t`. `held`, `limit`,
`verdict`, `applied`, `gone` record what a caller asked for and what it was told; `verdict` is
that of the last request that was sent, which a later one that is turned down before leaves as
it is (`SendRefused`), as the code leaves `m_connected`.

*Left out.* URLs but for their schemes, headers, bodies, the setters whose values are never
used.

### FlowControl

One access of a shared counter is a step. A producer reads `pushCount`, then `popCount`
(`size()`), asks `tryPush`, and pushes; the queue's element is in before it is counted, and
out before that is counted. `highest` (the highest limit that was ever set) and `popped` are
history. `m_maxQueueSize` is a plain variable: a `setMaxQueueSize` at the same time as a
`tryPush` is a data race, modelled as reading the value of before or after. The
`boost::lockfree::queue` is external: it was constructed without a fixed size, so a push does
not fail.

### Snowflake

A step is a reading of the system clock with what follows up to the next one. `clock` is
external: it advances and may be set back. `waits` counts the readings of the loop that waits
for the next millisecond. `last`, `excused` and `issued` are history: an id was issued in a step
that counts `issued` up, so that the same id twice in a row is seen as two. Remainders of negative numbers are
negative, as in C++, hence a host whose hash is negative and whose ids the constructor
refuses (`Throws`).

### RevocationList

A step is a critical section of `s_blacklistMutex`; `verify` has one for the times and one
for the list (`VerifyTimes`, `VerifyList`). `Evictable` is the sort by expiry in the loop of
`revoke` that makes room, any order among equals. The persistence callback stores an entry or
does not (it may throw); `Restart` leaves only what was stored. `now` is the system clock, which
`SetClock` moves to any time, also back; the start time may be set to any time, also one to come.
`revoked`, `evicted`, `forgotten`, `lapsed` (entries that left the list because they had expired)
and `revokedThen` are history. Signing and encoding are left out: a token of the model is one
`sign` has made.

## 4. Runs

| Run | Instance | Shows |
|---|---|---|
| `pool_restart` | 3 tasks, 3 threads, 1 or 2 workers, queue of 2, 2 starts, 1 interruption | type invariant, bound, task accounting, orderly stop, no lost wake-up of submit |
| `pool_live` | 1 task, 2 workers, 1 start, 2 interruptions, fair | queued task taken, ended worker replaced, stop returns unless it meets a thread about to wait |
| `pool_stop_hangs` | 1 worker | **violated**: stop() returns |
| `pool_stale_ids` | 2 workers, 2 starts, 1 interruption | **violated**: an ended worker is replaced |
| `pool_leftover` | 1 worker, 1 interruption | **violated**: stop() leaves no thread |
| `spsc_fifo` | SPSCQueue(3), hence 4 slots, 2 values, 8 pushes | no slot race, counters, FIFO refinement |
| `stream_transfer` | 2 downloads of 0 to 3 units, chunks of 2, fair | all properties of the transfer |
| `stream_unended` | 1 download of up to 2 units | **violated**: a transfer that took over the response ends it |
| `transports` | TCP or WebSocket, 2 callers, 2 peers, 2 calls, 1 disconnect; or HTTP(S), 2 callers, 4 calls of any kind, timeouts of -1, 999, 1500 and 65536999 ms | the peer reached, whose answer is returned, refusals, nothing left running; settings and limits a request runs under |
| `tcp_moved_client` | 1 caller, 1 call, 1 disconnect | **violated**: a request that meets disconnect() never uses a null client |
| `legacy_transfer` | 1 download of up to 5 units in chunks of 2, 3 call objects, 3 polls, fair | all properties of the transfer and its calls |
| `services` | 3 producers, 1 consumer, limits 1 and 2, 5 attempts; or 2 threads, 4 calls each, sequence up to 1, 2 waits, times up to 2; or 2 tokens, limits none, 1 and 2, times 1 to 3 in any order, start times none, 2 and 4, 1 restart | overrun of the queue, order of ids, revoked tokens |

*Bounds and why they are enough.* Two starts are the least in which state survives from one
run of the pool to the next, and no third start finds anything a second does not: what
survives is a queue of ids and a queue of tasks. Three tasks overfill the queue of two by
one. Two workers and a spare identity let a slot be joined while another is respawned. Eight
pushes go around a ring of four slots twice. Three units in chunks of two make a full and a
short last chunk; two transfers are what it takes to have a predecessor's cleanup event.
Two calls are what each property of the transports relates: an attempt that
failed and the next one, an answer that came late and the request it could be taken for, a
connection and the one that replaces it; with two callers they overlap as well. The timeouts
are one for each case of their conversion: none, below a second, between two seconds, above
what 16 bits hold. Five units in chunks of two make two full chunks and a short one; with
three call objects one can be waited for while the events of two that were given up are
still in the loop's queue; three polls make the limit differ from the first and second look.
The overrun of the queue needs every producer between its look and its push, and one
consumer that has taken and not counted; five attempts are more than that takes. Sequences up to 1
and two waits wrap and fail within four calls, in three milliseconds that may come in any
order. Two tokens and a limit of one evict; three times, which the clock takes in any order,
expire one token before the other and let an expired one be valid again; a start time of 4 is
always to come.
Symmetry (tasks, threads, callers, peers are interchangeable) is used in `pool_restart` and
`transports` only, which check no liveness. Deadlock is not checked: clients may stop calling,
peers may stop reading, and the bounded counters of calls and time are used up.

*Fairness.* Pool: strong fairness for each worker, the supervisor and each `submit` already
begun - an operating system runs every thread, and a thread that asks for a mutex again and
again gets it; strong because the mutex may be taken and freed in between. Weak fairness
for the steps of `start`/`stop`, which wait only for joins. Nobody is obliged to submit,
start, stop, interrupt or wake up spuriously, and tasks are assumed to end (a task that does
not end holds its worker, as in the code). Transfer: weak fairness for worker tasks and the
loop, none for the peer, so `TransferEnds` has the peer's cooperation as a premise: again
and again there is nothing left to drain, or the connection is gone. LegacyTransfer: weak
fairness for the task in `send` and after it, and for the loop's thread inside a call it has
begun. That the loop ever begins one, that the socket drains or that the peer hangs up is not
assumed: `SendReturns` holds because every wait of `send` has a limit.

### What was found

1. `stop` can hang (`src/SupervisedThreadPool.cpp:64`): flag and notification are outside
   the mutexes, so a thread between predicate and wait sleeps through them.
   `StopReturnsUnlessBlocking` shows that nothing else makes it hang in a first run.
2. After a restart the supervisor can be stuck (`:31`): ids of the previous run stay in
   `m_finishedIds`; it joins a live worker and never replaces one again.
3. `stop` can leave a worker behind (`:156`): the respawn is not protected against a `stop`
   that has passed the slot. It needs an interrupted worker, hence
   `StopJoinsAllUnlessInterrupted`.
4. A stream transfer whose file turns out shorter than announced
   (`src/StreamTransfer.cpp:143`) reports failure and leaves the response open; the
   architecture document says the strategy ends it.
5. A TCP request can use a null client (`src/TcpTransport.cpp:224`, also `:362`): the test
   for `m_client` and its use are in different critical sections, or in none, and
   `disconnect` may come in between.

What the model shows besides, without contradicting anything the repository says: once a
request has been given up after it was sent, its late answer is taken for the answer to the
next request on that connection, and so on (the premise of `AnswersInStep`); a WebSocket
request whose `open()` fails while the library keeps the old connection leaves a transport
that takes that connection for the new URL's (the premise of `RightPeer`); calls that
overlap may be sent to each other's peer and get each other's answers (the premises of
`RightPeer` and `AnswersInStep`); and the late report of a connection just replaced may
refuse the new attempt, as may a caller that makes the missing client anew when another has
already made it and connected (`RefusalIsRecent` says that nothing older can). The queue is
emptied and its mutex released before the old connection is replaced
(`src/TcpTransport.cpp:221`, `src/WebSocketTransport.cpp:309-314`): a packet the old connection's
callback stores after that is taken for the answer to the new request. `FreshAnswers` says no
more than that nothing older is taken; a packet's `age` is the connection for which the queue
had last been emptied when it came in.

When a handler or a middleware throws after `send` has handed the response off, the route never
reads the mark (`src/Router.cpp:95-102`) and ends the response while the transfer is queued or
under way, against the comment at lines 103-105, which calls such an early end the cause of
failing writes. `EndedOnceAndWhole` makes this its one exception; the transfer is reported,
released and over as ever. An exception of `send` itself after the mark (line 250 of
`StreamTransfer.cpp`) that the handler catches leaves the response marked and nobody to end it.

`IFileTransfer.hpp:52-54` says that LegacyTransfer calls `onComplete` synchronously before `send`
returns, StreamTransfer and AccelTransfer asynchronously on the IO thread. Of AccelTransfer this
is not so: it calls it inside `send` (`src/AccelTransfer.cpp:47`), on the caller's thread. Nor is
it of StreamTransfer whenever `send` refuses, or its post fails (`src/StreamTransfer.cpp:198-219`,
`265` and `275`). `CountedOnce` states what the code does, and for AccelTransfer that is the
opposite of the comment; the checks and the proof confirm the code there, not the comment.

In LegacyTransfer, a call of the headers that was given up makes the route end the response
as a complete one without a body, though `onComplete` is told of a failure (the exception in
`ReportIsTrue`); a call of End() that was given up leaves the response open (the exception in
`EndedOnce`); a file that cannot be read, or whose name is refused by `serveFile`, is reported
a success; `send` out of memory is counted as active for ever, a task lost by the dispatcher as
tracked for ever (`CountedOnce`); and without a dispatcher the thread that sleeps until the
buffer has drained is the one that drains it, so a full buffer always ends in the timeout.

In the services: `FlowController` lets the queue pass its limit by one element for each
producer but one; the queue behind it grows, while `doc/Modules.md:73` calls it one of fixed
capacity. A snowflake generator that has returned 0 starts its sequence again in the same
millisecond and repeats ids; its wait of "about 5 ms" (the comment at `src/IdUtil.cpp:59`) has no pause;
a host whose hash is negative gets an exception for every id until `initSnowflake` is called;
and two threads with the same worker id may get the same id. Revoking a token that is in
a full list already evicts another one; `loadEntries` ignores the limit; a token may expire
between the two looks `verify` takes and leave the list in between, and is accepted then; and
`nowSeconds()` is the system clock: a revoked token whose entry was removed as expired
(`src/JwtUtil.cpp:266-271`, `302-310`) is valid again once the clock is set back. These are the
exceptions of `RevokedStaysOut`.
A timeout below one second becomes 0 in the HTTP clients; settings whose context cannot be made
leave the old context in use; their `disconnect` is final; and after a `sendRequest` that was refused before
anything was sent and returned -1, `receiveResponse` goes on reporting the success of the request
before it (`src/HttpTransport.cpp:157-181` leaves `m_connected` as it was).

## 5. Proofs

Checked by TLAPS for every value of the constants that satisfies the named assumptions of
the modules.

| Module | Theorem | Says |
|---|---|---|
| `ThreadPoolProofs` | `TypeCorrect` | `Spec => []TypeOK` |
| | `QueueStaysBounded` | `Spec => []QueueBounded` |
| | `NoTaskLostOrRunTwice` | `Spec => []TaskAccounting` |
| | `PoolInvariant` | `Spec => []PoolInv` |
| | `StopLeavesNoThread` | `Spec => []StopJoinsAllUnlessInterrupted` |
| | `NoWakeUpIsLost` | `Spec => []NoSleepWithWork` |
| | `PoolImplementsTaskQueue` | `Spec => Promise!Spec`, of `TaskQueue` |
| `StopProofs` | `HandlesAndPhases`, `StopIsNeverStuck` | `Spec => []` of `StopInv`, `SomebodyCanMove` |
| | `NobodyFallsAsleep`, `StopComesToAnEnd` | action properties: `Calm` lasts until `stop` returns; what moves meanwhile moves `Downwards` |
| `SPSCQueueProofs` | `TypeCorrect`, `SlotsAreNotRaced`, `StatisticsAddUp` | `Spec => []` of `TypeOK`, `NoSlotRace`, `CountersAgree` |
| | `RingImplementsFifo` | `Spec => ImplementsFifo` |
| `StreamTransferProofs` | `StreamInvariant` | `Spec => []StreamInv` |
| | `TypeCorrect`, `EverySendReportsOnce`, `ResponseEndedOnceAndWhole`, `PumpIsNotNested`, `CallbacksStayInstalled` | `Spec => []` of `TypeOK`, `ReportedOnce`, `EndedOnceAndWhole`, `NoPumpInPump`, `CallbacksInstalled` |
| | `ReleasedInItsOwnEvent` | `Spec => ReleasedOutsideCallbacks` |
| | `DownloadNeverStranded`, `WriterIsLetGo` | `Spec => []` of `TransferNeverStranded`, `CleanupPosted` |
| | `OnlyThePeerPutsOff` | `Spec => OnlyDrainsPutOff` |
| | `StreamKeepsContract` | `Spec => Contract!Spec`, of `FileTransfer` |
| `TransportsProofs` | `TransportsInvariant` | `Spec => []TransportsInv`, which is `ClientInv` and `HttpInv` |
| | `TransportsTypes`, `RequestsReachTheirPeer`, `AnswersKeepStep`, `AnswersAreFresh`, `DisconnectLeavesNothing` | `Spec => []` of `TypesOK`, `RightPeer`, `AnswersInStep`, `FreshAnswers`, `NothingRunsAfterDisconnect` |
| | `RefusalsAreRecent` | `Spec => RefusalIsRecent` |
| | `AnswersAreOwn`, `SettingsAreKept`, `TimeoutsAreHonoured` | `Spec => []` of `AnswersOwnRequest`, `UnderItsSettings`, `TimeoutHonoured` |
| `WriterCallProofs` | `CallsConsistent` | `CallSpec => []CallInv` |
| | `CallKeepsPromise` | `CallSpec => ImplementsRemoteCall` |
| `LegacyTransferProofs` | `LegacyInvariant` | `Spec => []LegacyInv` |
| | `LegacyTypes`, `DownloadsCountedOnce`, `ReportsAreTrue`, `ResponsesEndedOnce` | `Spec => []` of `TypeOK`, `CountedOnce`, `ReportIsTrue`, `EndedOnce` |
| | `NothingFollowsTheEnd` | `Spec => NothingAfterEnd` |
| | `DownloadsKeepPromise` | `Spec => ImplementsRemoteCall` |
| | `SendsComeToAnEnd` | `Spec => SendOnlyGoesForward` |
| | `SendIsNeverStranded` | `Spec => []SendNeverStranded` |
| | `SendKeepsContract` | `Spec => Contract!Spec`, of `FileTransfer` |
| `ServicesProofs` | `QueueAccountedFor` | `FlowSpec => []FlowInv` |
| | `OverrunStaysBounded` | `FlowSpec => []OverrunBounded` |
| | `GeneratorsRemember` | `SnowSpec => []SnowInv` |
| | `ThreadsIdsIncrease` | `SnowSpec => IdsIncrease` |
| | `RevokedAccountedFor` | `ListSpec => []ListInv` |
| | `RevokedStayOut` | `ListSpec => []RevokedStaysOut` |
| | `ServicesShareNothing` | `Spec => FlowSpec /\ SnowSpec /\ ListSpec` |
| | `ServicesTyped` | `Spec => []ServicesTypesOK` |

The assumptions are those a run evaluates as well: sets of threads that a counter counts are
finite, "no such" values are not members of the sets they are added to, limits and bounds are
numbers, a chunk and the number of polls are not zero. The bounds on calls (`MaxCalls`,
`MaxHttpCalls`, `MaxDisconnects`) may be any number.

*ThreadPool.* `TypeOK` is inductive as stated because it carries the two facts its steps
need: a worker holds a task exactly at position "run", and the loops of `start` and `stop`
stay within `m_workers`. Its proof has one lemma per thread of the program and one step per
action. `QueueBounded` follows from the atomic test-and-push with no strengthening but
`TypeOK`. `TaskAccounting` is inductive over `TypeOK`: the lemmas `PushedElements` and
`PoppedElements` say which tasks a queue holds after a push and a pop, and all actions but
four leave everything the invariant speaks of alone (`TasksMoveByTaskSteps`).
`StopJoinsAllUnlessInterrupted` says something of a stopped pool only; what leads there is said by
`PoolInv`: as long as no worker was interrupted, each thread is held by the slot it knows and
each handle holds a thread (`Held`), nobody leaves a pool that runs, so that the supervisor
respawns nobody (`NobodyLeaves`), and `start` and `stop` have spawned and joined up to their
cursor (`CallProgress`). No wake-up is lost because a worker falls asleep on an empty queue
only (`Workers`), so with work in the queue either a thread is awake or a `submit` still has to
notify (`SomeoneAwake`).

`PoolImplementsTaskQueue` says the same to a client in one specification: flag and queue are the
pool's own, and a task's status is read off its `submit`, the workers and what was done. The
mapped status has one value because of `TaskAccounting`; each critical section is one step of
`TaskQueue` or none of its business.

*stop().* `StopProofs` says why a `stop` returns that finds nobody between predicate and wait
(`Calm`, the premise of `StopReturnsUnlessBlocking`, kept up until `stop` has joined everybody:
`NobodyFallsAsleep`). `StopInv` is what is true with interrupted workers too: a handle is that of
one thread which has not been joined, and `m_running` and the supervisor are as the position of
`start` and `stop` says. With it, `stop` waits only for a thread behind a handle, and such a
thread is at a position whose guard holds, or waits for the supervisor, which never waits for
`stop` (`StopIsNeverStuck`). Every step of the pool lowers a rank (`StopComesToAnEnd`): the
supervisor may start one last thread on its way to its end, so its rank comes first; then
workers and `stop` only get nearer to theirs. Each guard (`WorkerCanMove`, `SupervisorCanMove`,
`StopCanMove`) is that of an action, written out because ENABLED is out of TLAPS's reach; the
only one left out is that a respawn finds a thread identity free, which the code need not ask.

*SPSCQueue.* The invariant (`IInv` in `SPSCQueueProofs`) adds to `TypeOK` what each thread
may still rely on of the test it made before: at "write" and "publish" the producer knows
the ring has room, at "read" and "publish" the consumer knows it has an item, though the
other side has moved since - each side only ever makes the other's test more true. With it,
every step is a FIFO step or a stutter; the equalities between the mapped queue before and
after a step are the lemmas on `Contents`.

*StreamTransfer.* `StreamInv` follows a transfer through its phases by the position of the
route's task (`Phases`: fresh, prepared, handed off and then running, failed or served, or kept
by the route), each with what was reported in it and, as long as no exception left a transfer's
response to the route, how often it was ended (`Ended`). A route about to end a response is
ending one it kept, or such an exception has happened. A handed-off transfer that has not
finished is never forgotten: its first event is the last one in the loop, or the loop is empty
and the callbacks are its own (`LiveIsDriven`, with `EventsInOrder`: what finished before has
posted its cleanup before, so the cleanup cannot take off the next transfer's callbacks). While
the loop's thread is in `pump` it has one frame and one mark, on a transfer that is alive
(`OneFrame`, `DrivenIsLive`); units read and units accepted differ by the chunk being written
(`Amounts`); and the statistics count the transfers that are alive or failed (`Counts`).

Three theorems are the safety halves of its liveness properties. Whenever a download is under
way, somebody has a step to take for it (`TransferNeverStranded`): the hard case is an idle loop's
thread with nothing queued, where `PeerAwaited` adds that there are bytes to drain or a close to
come. Every step but the draining of the socket and the end of an earlier request's task lowers the
number of steps left (`StepsLeft`: units and events, then the position in `pump`, then what may
become of the connection). And while a finished
transfer owns the writer, the event that lets go of it is queued (`CleanupPosted`).

*The transports.* `MCTransports` runs one of the four at a time, so its invariant is one for
the HTTP clients and one for the queueing ones. `HttpInv` adds to the properties that one
thread has the mutex (`OneHasMutex`), that a client taken away is never made again
(`GoneForGood`) and that the files being applied are those stored unless another thread is
changing them (`FilesStored`). For TCP and WebSocket the proof goes in two stages. `TcpEffect`
and `WebSocketEffect` reduce the actions of both to one list of effects (`Effect`: a caller
begins, moves on, opens a connection, sends, takes a packet, gives up or fails; the library,
its callbacks and `disconnect` do their part), and from there on one proof does for both.
`ClientInv` says: each caller has a call of its own, one that overlaps no other is the last
made, and a request is sent once (`CallerInv`); no client means no connection and nothing
running (`Gone`); what is in the queue came since it was last emptied, for the present connection
or, between the emptying and the replacement, for the next (`Fresh`);
while every `open` succeeded the recorded peer is that of the connection (`Peers`); a call's
number is in one place at a time from being sent to being handed out, and until calls overlap
whatever is on its way is the answer to the call that waits, or comes after one that was given
up (`InStep`); and every caller that will find `m_connectFailed` set has had its connection
reported since it looked (`FailureReported`). The last is about which caller may see which
setting of a flag and needs the effects in finer detail (`Silent`, `Looks` and those after).

*WriterCall.* `CallInv` adds to the types: no call has two events, nor one while the loop's
thread is at it (`LoopInv`); a call that is waited for is in the queue with its function and
untouched, or is being run, or is done (`WaitInv`); a call nobody waits for has lost its
function if its event is still there, and if the loop's thread is at it, it is past the
function (`GoneInv`). The last is what the promise rests
on: giving up and beginning are critical sections of one mutex, so whichever comes first is
seen by the other. With it each step is a step of `RemoteCall` or a stutter. The theorem is
about any number of calls by any number of threads.

*LegacyTransfer.* `LegacyInv` carries `CallInv` along and ties the calls to the downloads: a
call that is not free belongs to the one download that waits for it, at the position where it
was made, and its function is that position's (`CallsOwned`). Whether that function has run
(`Ran`) is read off the call, and is what the statements about each position need: at
"headers" the response has begun exactly if the stored result says so; at "write" the units
promised are those remaining, less the chunk if the result is stored; at "end" the response
has been ended exactly if the function has run (`AtHeaders`, `AtPoll`, `AtWrite`, `AtEnd`).
From what these leave behind when `send` returns (`AfterSend`) the report and the end follow.
One response is open at a time (`OneOpen`), so if the loop's thread is inside a function, the
open response is that of the download waiting for it, and the route, which ends its own, cannot
be at work: this is `NothingAfterEnd`. Without a dispatcher the loop's thread handles one task at
a time (`LoopIsHandling`), which is why a task's steps do not disturb `CallInv`. The counters
are cardinalities of three sets, of which each step moves at most one member (`Counted`). The
refinement carries over: a step of the downloads is a step of a call, of the loop with a call, or
one of those `WriterCall` calls `Elsewhere`.

That `send` returns needs two facts besides fairness. It only goes forward (`SendOnlyGoesForward`):
with fewer units left, to a later position, after one more of `MaxPolls` polls, or nearer to its
call's answer, in this order of weight; nobody else's step puts it back. And a caller that may
not give up any more, because its call was begun, has the loop's thread at that call
(`SendNeverStranded`); until then it may.

*FileTransfer.* Both strategies map to the contract by what was reported and by whether `send`
(or the transfer it left behind) is under way; `owed` is the units promised and not yet accepted,
which `StreamTransfer` has as `len - sent`. That a step of the writer accepts something, and
something new, is `ChunkIsNew` there and `AtWrite` here; that success finds nothing owed is what
each strategy has to test for in its own way. A `send` of LegacyTransfer that runs out of memory
stays "new" for ever, as nobody is told.

*FlowControl.* The bound is not inductive: it says nothing of the looks at the queue that are
still on their way. `RoomFor(k)` does: with the producers that have seen room, or may still see
it, under a limit k higher, the queue stays below that limit plus the number of producers. It
is proved for every k at once, because a pop turns the statement for k + 1 into the one for
k, and a limit raised by n the one for k + n. A producer that begins to look is the step
that needs the counters: the queue holds at most what is counted and one element for each
producer that has pushed and not counted (`Accounts`), and those are not among the ones that
may push. The threads have to be finite in number (`ThreadsAssumption`); the facts about
cardinalities come from `FiniteSetTheorems`.

*Snowflake.* `SnowInv` says that a generator remembers its thread's last id as its own time and
sequence - while it waits for the next millisecond only the time, as the sequence is 0 then -
and that the clock is not behind it, unless that is excused. *RevocationList.* `ListInv` says
where each revoked token is: in the list, or among those evicted, forgotten or lapsed. It says
nothing of the clock, as an expiry is not final: what has lapsed may be valid again.
*Services.* `ServicesShareNothing` carries these theorems over to the model the run checks.

*What the proofs found.* With more calls than a run can afford, `RefusalIsRecent` was false as
first modelled: with two callers, four calls and a `disconnect`, a caller on its way to make the
missing client anew destroys the client another one has made and connected meanwhile
(`src/TcpTransport.cpp:195`), and that one wakes up to an `m_connectFailed` left set by an
earlier attempt, though nothing was reported to it. The connection is lost there without a
callback, so the property now counts a connection that was destroyed with its client as
reported (`Recreate`). No run shows this: two calls are too few. The bound on HTTP calls had to
be assumed a number (`HttpCallsAssumption`), and the widths of what the HTTP clients keep
(`SslConfig`, `Limit`, `UInt16`) had to be stated before they could be proved.

*Only model-checked.* Liveness under fairness, which is outside TLAPS's reach:
`QueuedTaskRuns`, `DeadWorkerReplaced` and `StopReturnsUnlessBlocking` of the pool,
`TransferEnds` and `WriterReleased` of `StreamTransfer`, `SendReturns` of `LegacyTransfer`. For the last
four the safety half is proved as said above (nobody is stuck, and what moves leads to the end; for
`WriterReleased`, the cleanup is queued); what is left to TLC is that fairness makes of it an end.
And the capacity arithmetic (`RingCapacity` uses bit operations TLAPS does not know; checked for 0
to 64). Every other property of a passing run is a theorem.

*Only proved.* The refinements of `TaskQueue` and `FileTransfer`, the ranks and the facts about who
can move are theorems without a run: TLC found no error in any of them on the runs' instances
either, but that takes minutes more (over three for the pool's refinement) and says nothing
that the theorems do not say for every instance. The violated ones are, of course,
shown by TLC's counterexamples alone.

## 6. Not modelled

`MiddlewareChain` is a chain of function calls within one task and keeps no state: in which
order layers run is its shape, and what a layer does is up to the application. `Application`
and `HvServerTransport` pass configuration to the HTTP library in the order the application
calls them (`enableSsl` sets the plain port to 0 before it is used as the fallback for the SSL
port, `src/Application.cpp:157`, which a reader of that function sees and no interleaving
adds to). `Router`'s route table and sync routes, and what `Context` reads and writes of one
request, hand values on. `TransferStats`' byte and duration counters only grow. `Logger` and
configuration files are output and input; factories map names to constructors. Cryptography,
parsing and formatting are functions without state worth exploring. The weak-memory behaviour of
unsynchronised accesses is not modelled either: a data race is a choice among the values the
access may find where that is said above, and a hazard otherwise. Nor is libhv itself.
