# TLA+ models of cpp-asio-study

This directory holds TLA+ models of the concurrent and asynchronous parts of
this repository. TLC checks each model. The spec (`spec.md`) describes a
message-oriented framework: a message codec, a thread-safe queue, a
per-connection read/write state machine, and a client and a server. Of that
framework, `src/` contains only the codec (`net_message.h`), the queue
(`net_tsqueue.h`) and two programs that use them (`simple_client.cpp`,
`simple_server.cpp`). `net_connection.h`, `net_client.h` and `net_server.h`
are included but are not in the repository. The rest of `src/` is a set of
asio study programs. Several of them are real concurrent state machines:
asynchronous servers, a multi-threaded client with cancellation, and timers.

## 1. Inventory

### Components, their state and operations

| Component | Source | State | Operations | Interacts with |
|---|---|---|---|---|
| Message codec | `one_lone_coder/net_project1/net_message.h` | `header {id, size}`, `body` bytes | `operator<<` (append a POD value), `operator>>` (take one from the tail), `size()` | `simple_client`/`simple_server` handlers; the Connection (not in src) frames it |
| Thread-safe queue | `one_lone_coder/net_tsqueue.h` | `deqQueue`, `muxQueue`, `muxBlocking`, `cvBlocking` | `push_back/front` (lock, emplace, notify), `pop_front/back`, `front/back`, `empty`, `count`, `clear`, `wait` | I/O threads push into it; the application pump (`Update`) or client loop pops |
| Connection / client / server framework | `olc_net.h` includes `net_connection.h`, `net_client.h`, `net_server.h`, which are **not in the repository** | per spec §3: socket, outgoing queue, shared incoming queue, temp header/body | read loop (header → body → push), write loop, `Send`, `Connect`, `Start`, `Update`, `MessageAllClients` | queue and codec |
| OLC client program | `one_lone_coder/net_project1/simple_client.cpp` | `CustomClient` | `PingServer`, `MessageAll`, loop `if (!Incoming().empty()) pop_front()` then `operator>>` by message id | framework client |
| OLC server program | `one_lone_coder/simple_server.cpp` | `CustomServer` | `OnClientConnect` (Send ServerAccept), `OnMessage` (bounce ping, broadcast MessageAll), `Update(-1, true)` loop | framework server |
| Chat server | `etc/dens_simple_chat_server.cpp` | server: `clients` set, acceptor; session: socket, `streambuf`, `outgoing` queue | `async_accept` handler, `session::post`, `on_read`, `on_write`, error handler, `server::post` broadcast | single-threaded `io_context` |
| Async echo-print server | `etc/dens_asyn_server.cpp` | acceptor, one session per connection | accept loop, one `async_read_until` per session | `io_context` |
| Multi-threaded async client | `asio-cookbook/ch3_client/async_tcp_client_mt.cpp` | `m_active_sessions` map + mutex; per session: socket, `m_was_canceled` + `m_cancel_guard`, `m_ec`, response | `EmulateLongComputationOp` (connect → write → read_until), `CancelRequest`, `OnRequestComplete`, `Close` | thread pool of `io_context::run` threads and the user thread |
| Async parallel server | `asio-cookbook/ch4_server/async_parallel_tcp_server.cpp` | `Acceptor` (`m_is_stopped` atomic), `Service` (self-deleting), thread pool | `InitAccept`/`OnAccept`, `StartHandling` → `OnRequestReceived` → `OnResponseSent` → `OnFinish`, `Stop` | `io_context` with N threads |
| Sync iterative / parallel servers | `asio-cookbook/ch4_server/sync_*_tcp_server.cpp` | `m_stop` atomic, acceptor thread, detached service threads | `Run` loop of blocking `Accept`, `Stop` (set flag, join) | OS threads |
| Timers | `etc/dens_timer.cpp`, `asio-cookbook/ch6_etc/timer_example.cpp` | timer, re-arming wait | `async_wait` handler re-arms; `cancel()` from another thread or handler | `io_context` thread and a second thread |
| Cancel / retry demos | `asio-cookbook/ch2_io/cancel_async_operation.cpp`, `socket_shutdown_client*.cpp` | one socket | `async_connect` + `cancel()` from main; connect with retry | worker thread |
| Partial-write loops | `asio-cookbook/ch2_io/write_to_tcp_async.cpp`, `write_tcp_async1.cpp`, `write_to_tcp_sync.cpp`, `read_from_tcp_sync.cpp` | `total_bytes_written/read` | `write_some`/`read_some` loops until all bytes are transferred | socket |
| Socket primitives | `asio-cookbook/ch1_intro/*`, `ch2_io/fixed_length_buffer.cpp`, `extensible_streambuffer.cpp`, `ch3_client/sync_*_client.cpp`, `one_lone_coder/simple_example*.cpp` | none beyond one socket | open, bind, resolve, connect, one blocking request | pure I/O, sequential (`simple_example1.cpp` adds one `io_context::run` thread) |

### What is hard

* **Threads around the queue.** I/O threads push while the application thread
  waits and pops. `wait()` tests the queue under one mutex, then sleeps on a
  condition variable under another mutex.
* **Reactor ordering.** A completion that is already queued keeps its result
  after `close()`/`cancel()`. Handlers of the read and the write of one
  connection both run the error path. Broadcasts interleave with writes that
  are in flight.
* **Cancellation across threads.** `CancelRequest` races the completion
  handlers of the pool threads. Two mutexes are taken in opposite orders.
* **Stopping.** Stop flags are only read when an accept or a timer fires.
  Blocking `accept()` never reads them.
* **Numeric edges.** `operator>>` computes `size - sizeof(T)` in `size_t`.
  `header.size` is `uint32_t`.

### Properties that make each component correct

* Queue: no item is lost or duplicated. Each producer's back-pushes stay in
  order. A thread blocked in `wait()` wakes while the queue holds an item (no
  lost wakeup). `pop_front` never runs on an empty deque.
* Codec: appending v1..vn and extracting in reverse yields the same values.
  Extracting from a short body never reads out of bounds.
* Chat server (and the spec's Connection): each peer receives what was posted
  to it, in order, without repetition. The write loop never stalls. A
  departure is announced exactly once. Late completions of a closed session
  are no-ops. A newcomer is announced only for a real connection.
* Multi-threaded client: the callback of each request runs exactly once. No
  operation is started after a cancel is seen. There is no deadlock between
  `CancelRequest` and the handlers.
* Servers: after `Stop`, accepting stops and `Stop` returns. Every accepted
  service is eventually freed.
* Timers: after `cancel()` the re-arming loop stops.

## 2. Modules

| Module | Models | Run(s) |
|---|---|---|
| `TsQueue` | `net_tsqueue.h`, with the spec's `Update` pump as consumer | `tsqueue_safety`, `tsqueue_lost_wakeup` |
| `QueueSpec` | the promise of `net_tsqueue.h`: an atomic deque (abstract spec) | `tsqueue_safety` (refinement) |
| `MessageCodec` | `net_message.h` `operator<<` / `operator>>` as pure operators (no variables; used by `OlcNet`) | `olc_messaging` |
| `OlcNet` | `net_project1/simple_client.cpp` and `simple_server.cpp` over the spec-modelled connection framework | `olc_messaging` |
| `ChatServer` | `etc/dens_simple_chat_server.cpp` | `chat_server` |
| `AsyncTcpClientMT` | `ch3_client/async_tcp_client_mt.cpp` | `async_client`, `async_client_deadlock`, `async_client_socket_race` |
| `RequestSpec` | the promise of `AsyncTCPClientMT` per request: start, cancel, one callback (abstract spec) | `async_client` (refinement) |
| `AsyncParallelServer` | `ch4_server/async_parallel_tcp_server.cpp` | `async_server_safety_liveness` |
| `SyncServers` | `ch4_server/sync_iterative_tcp_server.cpp`, `sync_parallel_tcp_server.cpp`, with `ch3_client/sync_tcp_client.cpp` | `sync_servers` |
| `ShutdownProtocol` | `ch2_io/socket_shutdown_server.cpp` with `socket_shutdown_client1.cpp` or `socket_shutdown_client.cpp` | `stream_exchange` |
| `TransferLoops` | the `write_some` / `read_some` loops of `ch2_io` (no variables; used by `ShutdownProtocol`) | `stream_exchange` |
| `DensTimer` | `etc/dens_timer.cpp` | `dens_timer_lost_cancel` |

Each `MC_*` module gives the constants model values or small definitions;
each `.cfg` names one run. `PROJECT.json` maps every definition to the lines
of code it translates and lists the mutants that show each property of a
passing run can fail.

Conventions shared by all modules:

* An asynchronous operation is pending in the reactor, then completed (ok or
  an error) with its handler queued; the handler runs later, as a separate
  step. `cancel()` / `close()` turn only a *pending* operation into
  `operation_aborted`; a completion already queued keeps its result.
* A mutex acquisition that can block is a step of its own; what the code does
  while holding it, up to the next blocking point, is part of that step.
* Payloads are abstracted to what the properties tell apart: arrival flags for
  the sync servers' lines, the real bytes for the shutdown exchange.

## 3. Modules and runs

### TsQueue (`TsQueue.tla`, `MC_TsQueue.tla`)

The variables are `deqQueue`, `muxQueue` (owner or `NoThread`), `waiters`
(the threads blocked in `cvBlocking.wait`) and `pc` per thread. Ghost
variables: `sent`, `popped` and `undefined` (set when `pop_front` runs on an
empty deque).

* `push_back` and `push_front` are split in two. The first step locks
  `muxQueue` and does the emplace. `PushNotify` then takes `muxBlocking`,
  calls `notify_one` (which removes one waiter, or is lost) and releases both
  locks.
* `wait()` is `WaitCheckEmpty` (the `empty()` test under `muxQueue`), then
  `WaitSleep` (lock `muxBlocking`, then `cv.wait`, which unlocks atomically),
  then `WaitWake`. `SpuriousWakeup` is allowed and has no fairness.
* The consumer runs the pump `Update(-1, true)` of the spec's server:
  `wait(); while (!empty()) pop_front();` (`UpdateDrainCheck` is
  spec-modelled, since `net_server.h` is not in the repository).

Runs:

* `tsqueue_safety` (pass): two producers × 2 pushes to both ends, one
  consumer, producer symmetry. `PerProducerFifo`: nothing is lost or
  duplicated, and back-pushes keep their order.
  `QueueRefinement`: the queue implements `QueueSpec` (an atomic deque with
  `PushBack`, `PushFront`, `PopFront`) under the mapping `q <- deqQueue`,
  `out <- popped`; every lock, notify and wait step is a stutter of it.
* `tsqueue_lost_wakeup` (violation): `SleeperWakesWhenNonEmpty` fails. The
  consumer finds the queue empty; a producer pushes and notifies before the
  consumer reaches `cv.wait`, so the notify is lost and the consumer sleeps
  with an item queued.

Fairness: weak fairness per thread (OS threads), none for spurious wake-ups.

### MessageCodec (`MessageCodec.tla`)

Pure operators, no variables. A byte is `[val, type, off]`. `Push` is
`operator<<`: append the `sizeof(T)` bytes, then `header.size = size()`.
`Extract` is `operator>>`: take the last `sizeof(T)` bytes, reinterpret them
(`Garbage` unless they are exactly one value's bytes), shrink the body.
`Underflows` is the case where `size() - sizeof(T)` wraps in `size_t`.
`OlcNet` applies them where the programs do.

### OlcNet (`OlcNet.tla`, `MC_OlcNet.tla`)

`simple_server` and `simple_client` of `net_project1`. The connection
framework (`net_connection.h`, `net_client.h`, `net_server.h`) is not in the
repository; its operations are spec-modelled from spec §3 and marked so in
`PROJECT.json`.

* Per connection end: `sock` (open / closed), `qMessagesOut`, `writing` (a
  header written, body pending), `reading` (a header read, body pending) and
  `wire`, the bytes in flight as tokens (a header token carries id and body
  size). `Send` enqueues; `WriteHeader`/`WriteBody` and
  `ReadHeader`/`ReadBody` are the async write and read chains; a header that
  is not a header (the peer's stream out of step) is delivered as a
  desynchronised message and closes the connection. `IoFail` closes an end
  whose peer has gone; `Reset` (at most `MaxResets`) drops a connection and
  whatever is on the wire.
* Server: `Accept` (with `OnClientConnect` sending `ServerAccept`, ids from
  `nIDCounter`), `ConnectFail`, `Update` (pop the shared `qMessagesIn`, run
  `OnMessage`), `MessageAllClients` (skip `ignore`, report and erase the
  closed clients via `OnClientDisconnect`).
* Client: `Input` (the number read from `std::cin`: 1 ping, 2 message all,
  3 quit), `PingServer`, `MessageAll`, `Poll` (handle the head of the
  incoming queue, or `Server Down!` when disconnected), `Handle` (extract a
  `time_point` or `uint32_t`).
* Ghosts: `transit` (the messages sent on each end, in order, not yet
  delivered), `pinged`, `pongs`, `announced`, `hellos`, `disconnects`,
  `crashed` (an extract that underflows).

Run `olc_messaging` (pass):

* `FramingIntact` (action property): every message delivered on an end is
  the oldest one its peer sent and not yet delivered, with the same id and
  body; a header that goes out before its body is in place, or a size not
  updated by `operator<<`, breaks it.
* `PingEcho`: a client only ever accepts a ping answer carrying a time it
  sent itself.
* `HelloFromOther`: a `ServerMessage` a client receives names another client
  that asked to message all, never itself.
* `NoUnderflow`: no client extracts more bytes than a message carries.

No liveness is checked: the server's `Update` blocks in `wait()`, whose lost
wake-up `tsqueue_lost_wakeup` shows, so progress of the pump is not
something the code guarantees; `CHECK_DEADLOCK FALSE` because the server
waits forever once the clients are done.

### ChatServer (`ChatServer.tla`, `MC_ChatServer.tla`)

State: `clients`, and per session `open`, `outgoing`, `rd` and `wr` (none /
pending / ok / err); `open` starts false for a session whose accept failed,
since the accept handler never tests its error code. Ghost variables:
`posted` and `wire`. `ReadCompletes` and `WriteCompletes` fix an
operation's result; the handlers `on_read_ok`, `on_read_err`, `on_write_ok`,
`on_write_err` and `AcceptHandler` run later, one at a time (one
`io_context::run` thread).

* `chat_server` (pass, 2 sessions, 2 lines): `WireIsPrefixOfPosted` (each
  peer receives what was posted to it, in order, once), `LeaveAnnouncedOnce`
  and `QueueDrains` (the write loop never stalls). `FailedSessionLeaves`: a
  session built by a failed accept (welcomed and announced anyway) fails its
  first read and write and leaves the client set; a handler that forgot
  `clients.erase` would keep it there for good.

Fairness: weak fairness on handler execution and on write completion (a few
bytes against the kernel buffer); peers get none.

### AsyncTcpClientMT (`AsyncTcpClientMT.tla`)

A pool of `Threads` runs handlers; the `User` thread calls
`EmulateLongComputationOp`, `CancelRequest` (split at its two lock
acquisitions and the `m_sock.cancel()`), and `Close` (reset the work guard,
join). `OnRequestComplete` is split into the socket shutdown, the lock of
`m_active_sessions_guard` and the callback. `callbacks` is a ghost record of
the error codes each callback received.

* `async_client` (pass, 2 requests, 2 threads, one cancel per id as in
  `main`): `CallbackAtMostOnce`, `CanceledNeverSucceeds`, `RequestsComplete`.
  `RequestRefinement`: the client implements `RequestSpec`. There a request
  is idle, active or done; `Cancel` applies only to an active request, and
  the one `Report` is never success after a cancel. The mapping is: done
  once `callbacks` is non-empty, active once the chain started, and the
  cancel flag is `m_was_canceled`. Every lock step is a stutter. The check
  also shows `m_was_canceled` is never set after the callback ran, because
  the erase in `OnRequestComplete` waits for the guard `CancelRequest`
  holds.
* `async_client_deadlock` (violation, one request cancelled twice):
  `NoDeadlock`, stated as "the waits-for graph has no cycle". A handler
  holding `m_cancel_guard` waits for `m_active_sessions_guard`, which
  `CancelRequest` holds while waiting for `m_cancel_guard`.
* `async_client_socket_race` (violation): `NoSocketRace`. `m_sock.shutdown()`
  in `OnRequestComplete` and `m_sock.cancel()` in `CancelRequest` run on the
  same socket at once.

Fairness: pool threads and pending operations (the server answers or the
connection fails); the user's steps inside a call it has begun. Starting and
cancelling requests have none.

### AsyncParallelServer (`AsyncParallelServer.tla`)

The acceptor keeps one `async_accept` outstanding and tests `m_is_stopped`
in `OnAccept`; each connection's Service runs read → write → `delete this`;
`Stop()` sets the flag, closes the acceptor, calls `m_ioc.stop()` and joins.
Each handler touches only its own object, so it is one step.

* `async_server_safety_liveness` (pass, 3 connections, accepts may fail):
  `AcceptArmed` (while running an accept is always outstanding on an open
  acceptor, whatever errors occurred) and `ServiceCompletes`.

Fairness: handlers and pending service operations; neither `Stop()` (a fixed
sleep in `main`) nor a client connecting.

### SyncServers (`SyncServers.tla`, `MC_SyncServers.tla`)

One module for both synchronous servers; `mode` is chosen in `Init`, so one
run checks both programs. The Run thread: `AcceptorListen`, `RunLoop` (the
`while (!m_stop.load())` test; when it exits, the `Acceptor` is destroyed and
connections still in the backlog are reset), `Accept`. The iterative server
runs `HandleRead` / `HandleWrite` on the Run thread (`apc = "serve"`); the
parallel one on a detached thread per client. `main` does `Stop` (store
`m_stop`, enter `join`), `Join`, `Exit` (process end: detached handlers are
killed, every server socket closes). Clients (`sync_tcp_client.cpp`):
`Connect` (into the backlog while listening, else refused and `main` returns
the error), `SendRequest`, `ReceiveResponse`, `Close`. `ClientAborts` (a
client process killed after connecting) is the environment; it is what
reaches the servers' `catch`. `RunThrows` is the fault model of the Run
thread: the `Acceptor` constructor (bind to a port in use) or `accept()` on a
queued connection throws, nothing on that thread catches it, and
`std::terminate` ends the process before `main`'s `try` can see it. Every
server socket closes, handler threads die and the backlog is reset.

* `sync_servers` (pass, 3 clients, both modes): `ClientsServed` (a client that
  sent its request gets the response unless `Stop()` has been called or the
  process has ended; for the
  iterative server this means every backlog entry is eventually reached) and
  `StopReturnsOnConnect` (a `Stop()` that begins while a client is still to
  connect returns). `ClientNeverHangs`: once `Stop()` has been called no
  response is promised, but every connected client still ends, served or
  with an error (backlog connections are reset when `Run` returns, detached
  handlers die with the process and their sockets close); it never stays
  blocked in `write` or `read_until`. The same holds when `RunThrows` ends
  the process before `Stop()`. Deadlock is not checked: the documented hang, `Stop()`
  joining while `accept()` blocks with no client left, is a real final state.

Fairness: the Run thread, each handler thread, each client, and `main`'s
join/exit. `Stop()` itself (a 60 s sleep) and `RunThrows` (a fault) have none.

### ShutdownProtocol and TransferLoops

`ShutdownProtocol` has one byte stream per direction (at most `Cap` bytes in
flight, a FIN flag), the server's listen / accept / read-until-eof / write /
`shutdown_send`, and a client chosen in `Init`: `client1`
(`async_connect`, retried from `ConnCallback` while refused) or `client`
(blocking `connect` that throws). `asio::write` and `asio::read` are
`write_some` / `read_some` steps of any size the room allows. `Reset` loses
the bytes in flight and makes every later call fail. The ghost histories
`cgrants` / `sgrants` record how many bytes each step took.

`TransferLoops` translates the hand-written loops of `write_to_tcp_sync.cpp`,
`write_to_tcp_async.cpp` (the `Callback` chain), `write_tcp_async1.cpp` and
`read_from_tcp_sync.cpp` into operators over those histories. The
`*Enhanced` variants, which leave the loop to `asio::write` /
`asio::async_write` (`write_to_tcp_sync.cpp` and `write_to_tcp_async.cpp`,
whose `CallbackEnhanced` only tests `ec`) and `asio::read`, are checked next
to them. `write_tcp_async1.cpp` passes a `std::shared_ptr<std::string>` as
the buffer of `asio::async_write` and compares an `error_code` with `0`, so
as written it likely does not compile; `WriteToSocketAsync1` models what it
evidently means, one composed `async_write` of the whole string. `ReadFromSocketDelim` is not
modelled, because the exchange has no newline-delimited line.

* `stream_exchange` (pass, the programs' real 6-byte request and 3-byte
  response, `Cap = 2`): `ExchangeIntact` (the server answers only once it
  holds the whole request; the client prints only the whole response),
  `ExchangeCompletes`, `WritesDeliverBuffer` (the loops hand over exactly the
  bytes `asio::write` wrote, and succeed exactly when all were written) and
  `ReadsMessage`.

Fairness: the running server and the client; `ServerListen` (when the
operator starts the server) and `Reset` have none.

### DensTimer (`DensTimer.tla`)

The wait is none / pending / ok / aborted; the handler is split into its
error-code test (`HandlerStart`) and `Rearm`, so the cancelling thread can run
between them. `cancel()` aborts only a pending wait.

* `dens_timer_lost_cancel` (violation): `ProgramExits` fails. The wait
  expires, `cancel()` finds nothing pending, the handler re-arms, and
  `run()` never returns.

## 4. Bounds

Each bound is the smallest that makes the interesting case happen: two
producers for interleaved pushes, two sessions so a broadcast meets a write
in flight, two requests and two pool threads so a cancel meets a handler on
another thread, three connections / clients so an accept, a handler and a
stop overlap and the iterative server has a queue, `Cap = 2` so a 6-byte
request and a 3-byte response are written and read in several chunks.
For `olc_messaging`: two clients (so a message-all reaches another client
and a disconnect meets a broadcast), one clock value, `MaxInputs = 3`
numbers read in total, one reset, `sizeof(uint32_t) = 4` and
`sizeof(time_point) = 8` so a wrong-type extract underflows; clients are
symmetric because ids follow accept order.

## 5. Not modelled and why

* `net_connection.h`, `net_client.h`, `net_server.h` are not in the
  repository; the pump loop and the connection read/write chains are
  spec-modelled (`TsQueue`, `OlcNet`).
* The codec's LIFO order over several values in one message is not checked:
  no program pushes two values, and `olc_messaging` has one per message.
* `ch1_intro`, the buffer examples, `sync_udp_client.cpp` and
  `simple_example.cpp` are sequential I/O with no state worth a model.
  `simple_example1.cpp` runs the `io_context` on a second thread, but its
  flaw is structural: `GrabSomeData` is called once per byte printed, so a
  read of n bytes leaves n reads outstanding on one socket and one shared
  `vBuffer`. That happens on every run that reads more than one byte; it is
  listed as a hazard and not modelled.
  `sync_udp_client.cpp` has two hazards listed without a property, because
  the program is straight-line code on one thread. First, it calls `shutdown`
  on an unconnected UDP socket after the first reply. That throws
  `ENOTCONN` on every run, so the second server is never asked. Second,
  `receive_from` has no timeout, so a lost datagram blocks it forever.
* `timer_example.cpp`, `cancel_async_operation.cpp` and `dens_asyn_server.cpp`
  repeat patterns modelled elsewhere (`DensTimer`, `AsyncTcpClientMT`,
  `ChatServer`).
* Thread exhaustion from one detached thread per connection in the parallel
  sync server is listed as a hazard only; the model has three clients.
* Formatting, printing and endpoint parsing are left out.
