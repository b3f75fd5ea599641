# TLA+ models of the nightcore gateway

This directory holds TLA+ models of the gateway's request dispatch core
(`src/src/gateway/server.cpp`) and of the watchdog's IPC connection to the
gateway (`src/src/watchdog/gateway_connection.cpp`). TLC checks them. Every
definition is translated from those two files. Two parts are not under
`src/`: the per-function `Dispatcher` and the worker processes. They are
modelled from `spec.md` 4.2 and 4.5, and `PROJECT.json` marks those
definitions `spec_modelled`.

## 1. Inventory

### Components and their state

| Component | Code | State | Operations |
|---|---|---|---|
| AdmissionCore | `Server::NewExternalFuncCall`, `DispatchExternalFuncCall`, the Complete/Failed branch of `OnRecvMessage`, `DiscardFuncCall`, `ProcessDiscardedFuncCallIfNecessary` | `running_external_func_calls_` (map), `pending_external_func_calls_` (FIFO), `discarded_func_calls_` (list), all under `mu_` | admit or queue, dispatch, complete/fail, discard, drain |
| ExternalFuncCallContext | class at server.cpp:274-398 | the HTTP/gRPC response sink, `input_region_`, `output_region_` | `CreateShmInput`, `FinishWithShmOutput`, `FinishWithOutput`, `FinishWithError`, `FinishWithDispatchFailure` |
| Worker connections | `OnNewHandshake`, `OnConnectionClose` | `message_connections_`, the WorkerManager's registry | handshake (launcher or worker), close |
| Internal call routing | `INVOKE_FUNC` branch of `OnRecvMessage`, internal part of the drain | the dispatchers map | route a worker-to-worker call; fail discarded internal calls |
| Dispatcher / WorkerManager (not in src/) | spec.md 4.2, 4.5 | workers of one func_id and the call each runs | `OnNewFuncCall`, `OnFuncCallCompleted/Failed`, worker connect/disconnect |
| Watchdog GatewayConnection | gateway_connection.cpp | `state_` (kCreated, kHandshake, kRunning, kClosing, kClosed), `message_buffer_` | `Start`, connect/write/read callbacks, `ScheduleClose`, close callback |
| FuncConfig, call ids | `func_config_`, `next_call_id_` | immutable config; an atomic counter | lookup; `fetch_add` |
| Listeners, IO workers, stats | `StartInternal`, `Pick*Worker`, the `*_stat_` fields | sockets, round-robin index, counters | I/O only |

### How they interact

Requests arrive on HTTP/gRPC IO-worker threads and call
`NewExternalFuncCall`. Worker replies arrive on IPC IO-worker threads and
call `OnRecvMessage`. Connection closes run on the main event loop
(`OnConnectionClose`). So several threads run handlers of the same tables
at once. Each handler holds `mu_` only for its table updates. It finalizes
responses, creates and opens shm, and calls the dispatcher outside the lock.
A call admitted by one thread can therefore be completed or discarded by
another thread while the first is still dispatching it. When a worker
disconnects, the dispatcher pushes the call it was running onto
`discarded_func_calls_`. That list is drained only at the end of
`OnRecvMessage` and after a worker handshake.

### What is hard here

* Interleavings of the three handlers around the unlocked dispatch.
* Worker disconnection racing the worker's own reply for the same call.
* The cap on running calls and the FIFO pending queue, with three code
  paths that promote pending calls.
* Shared-memory lifetime: the input region is unlinked when its context is
  destroyed, which must happen only after the worker has read it.
* Progress: every request must be answered, but the code has no timer and
  depends on later IPC events to drain and promote.

### Properties that make each component correct

* AdmissionCore: the cap holds; each response is finalized exactly once; no
  context is lost (conservation); a call a worker runs is still tracked;
  pending calls are served in FIFO order and eventually; discarded calls are
  eventually answered.
* ExternalFuncCallContext: the outcome matches the cause (500 only for
  function failure or unreadable output); the input shm outlives the
  worker's use of it.
* InternalCalls: a caller gets at most one result per call; no invoked call
  is forgotten between its worker, the discarded list and a drain.
* GatewayConnection: every frame the watchdog receives is a message the
  gateway sent; the handshake buffer never holds more than the response; a
  closing connection eventually reaches kClosed; a handshake the gateway
  rejects ends with both sides closed.

## 2. Modules

### AdmissionCore.tla (and MCAdmissionCore.tla)

State, in the order of the code's fields:
* `running`, `pending` and `discarded` are the three tables.
* `shm` is the set of calls whose input region exists.
* `input` is each call's body size class. "large" means the body is over
  `MESSAGE_INLINE_DATA_SIZE`.
* `outcome` and `nfin` record how, and how often, each response was
  finalized.
* `wst`, `wcall` and `replies` model the workers.
* `pc`, `own`, `todo` and `ret` are the locals of each handler thread.
  `own` holds the contexts a thread has moved out of the tables.
  `todo` holds the calls it still has to dispatch.
* `arrived` is a history variable that records the arrival order.

Each handler invocation is a thread of `Threads`: one per request
(`Arr(c)`), one per reply message (`Msg(c)`), and one per worker handshake.
Each critical section is one action, and so is each piece of I/O between
two critical sections:

| Action | Code |
|---|---|
| `Arrive` | `NewExternalFuncCall` lock section (569-592) |
| `CreateShmInput` | `CreateShmInput` (306-320). It may fail, and then calls `FinishWithError` |
| `SendInvoke` | rest of `DispatchExternalFuncCall` (533-567): `OnNewFuncCall` succeeds on an idle worker or fails with `FinishWithDispatchFailure` |
| `Erase` | re-lock and erase after a failed dispatch (593-598, 494-500, 671-678) |
| `MsgRecv` | the lock section of the Complete/Failed branch (435-467) |
| `MsgRelease` | dispatcher release and finalization outside the lock (468-493) |
| `Drain`, `DrainFinish` | `ProcessDiscardedFuncCallIfNecessary` (625-669) |
| `Crash` | `OnConnectionClose` of a worker plus `DiscardFuncCall` |
| `Reconnect` | `OnNewHandshake` of a worker, which then drains |
| `Reply` | a worker's COMPLETE (inline or shm output) or FAILED message |

`MCAdmissionCore` sets `Calls`, `Workers` and `NoCall` to model values.

### AdmissionAbstract.tla (refinement)

`AdmissionAbstract` states what the admission core promises, with threads,
workers, shared memory and the discarded list left out. It has four
variables: `queue`, `admitted`, `answered` and `seen`. It has three actions:
* `AArrive` admits a new call if the cap allows, and otherwise appends it to
  the queue.
* `ASettle(R, n)` releases the slots of the calls in `R`. It then moves the
  first `n` queued calls into free slots.
* `AAnswer(S)` answers calls that have arrived and are not queued.

`AdmissionCore` instantiates it as `Abs`. The mapping is:
* `queue <- pending`
* `admitted <- running`
* `answered <-` the finalized calls
* `seen <-` the arrived calls

`ImplementsAdmissionAbstract == Abs!ASpec` is checked as a PROPERTY. Each
code step maps to one abstract step:

| Code step | Abstract step |
|---|---|
| `Arrive` | `AArrive` |
| `Erase` | `ASettle({d}, 0)` |
| `MsgRecv` | `ASettle({c}, 0 or 1)` |
| `Drain` | `ASettle(taken, k)` |
| Each finalization | `AAnswer` |
| Everything else | stutter |

The check thus covers three things on every path:
* promotion from the head of pending, within the cap;
* no answer to a queued call;
* no re-admission of a released call.

### InternalCalls.tla (and MCInternalCalls.tla)

This module covers worker-to-worker calls (`client_id > 0`). The gateway
holds no context for them, so the state is the following:
* `discarded` is `discarded_func_calls_`.
* `dispatchers` is the set of keys of `dispatchers_`.
* `wst` and `wcall` are the callee workers.
* `dropped` is the set of calls whose failed `INVOKE_FUNC` was only logged.
* `answer` and `nans` are what each caller received, and how often.

| Action | Code |
|---|---|
| `Invoke` | `INVOKE_FUNC` branch of `OnRecvMessage` (400-432). It uses `GetOrCreateDispatcherLocked` (606-617) and `OnNewFuncCall`; a failure is only logged |
| `Reply` (worker, not in src/) | the callee's `worker_lib::FuncCallFinished`: it writes the result to its caller, then sends COMPLETE/FAILED to the gateway |
| `MsgDone` | COMPLETE/FAILED branch for `client_id > 0` (433-476). `OnFuncCallCompleted` gets only the output size (470-475), so the dispatcher only frees the worker. Nothing goes to the caller |
| `Drain`, `DrainFinish` | internal half of `ProcessDiscardedFuncCallIfNecessary` (625-643, 661-669). `FuncCallFinished(success = false)` answers the caller |
| `Crash`, `Reconnect` | `OnConnectionClose` and the worker `OnNewHandshake`, as in AdmissionCore. The IO thread handles every message it read before the end of the stream. So here a worker's close comes after the `OnRecvMessage` of its last reply: a worker whose reply is still unhandled cannot close. AdmissionCore lets such a worker close too. That is an over-approximation, and its safety properties hold under it |

The lock section and the send of `INVOKE_FUNC` are one step. Another
thread can only create a dispatcher in between, and that does not change
the outcome.

### GatewayConnection.tla (and MCGatewayConnection.tla)

This module models the watchdog side of the IPC stream. Byte contents are
abstracted to counts. The stream delivers the bytes the gateway has written
in chunks of any size from 1 to `avail`. These are the variables:
* `state` is `state_`.
* `connecting`, `hsWrite` and `writes` are the outstanding libuv connect and
  write requests.
* `rd` is which read callback is installed: none, handshake or message.
* `buf` is `message_buffer_`'s length.
* `avail` is the number of unread bytes in the socket.
* `responded` and `msgsSent` record what the gateway has written. The
  gateway writes the response header (`HsSize`), an inline tail
  (`PayloadSize`, spec.md 4.3) and then messages of `MsgSize`.
* `delivered` and `afterHs` count the messages handed to the watchdog and
  the bytes read after the handshake.
* `closeReqs` counts the `uv_close` calls.
* `failures` is a budget of failed callbacks.
* `peerClosed` is the gateway's end of the same connection being closed,
  with `Server::OnConnectionClose` having run for it.
* `registered` is the gateway's WorkerManager holding the connection as a
  launcher.

| Action | Code |
|---|---|
| `Start` | `Start` (25-34) |
| `ConnectCallback` | `ConnectCallback` (72-86) |
| `WriteHandshakeCallback` | `WriteHandshakeCallback` (115-128) |
| `ReadHandshakeResponse`, `RecvHandshakeResponse` | `ReadHandshakeResponseCallback` (92-113) and `RecvHandshakeResponse` (45-57). `Watchdog::OnRecvHandshakeResponse` accepts or rejects nondeterministically |
| `ReadMessage`, `ReadError` | `ReadMessageCallback` (130-151) and the error branch of both read callbacks |
| `ReadEof` | the `nread < 0` branch of either read callback for `UV_EOF`, once the gateway has closed its end and every byte has been read (92-102) |
| `WriteMessage`, `WriteMessageCallback` | 59-70, 153-163 |
| `ScheduleClose` (a helper used by every failure path) | 36-43 |
| `CloseCallback` | 165-168 |
| `GatewayRespond` | once the watchdog's handshake write is under way (before or after its callback), `Server::OnNewHandshake` returning true: `OnLauncherConnected` registers the connection and the response is written (server.cpp 251-271) |
| `GatewayReject` | `OnNewHandshake` returning false for any of its reasons (236-268): the gateway closes the connection without a response, and `OnConnectionClose` has nothing to unregister |
| `OnConnectionClose` | `Server::OnConnectionClose` (210-234) after the watchdog's `uv_close`: a launcher whose handshake was done is unregistered, then the connection is erased |
| `GatewaySend` | later messages from the gateway while its end is open (spec.md 4.3) |

A callback that libuv cancels after `uv_close` reaches `ScheduleClose`
again. It does not use the failure budget.

The module thus composes the two ends of one IPC stream. The gateway's
handshake handling and connection close act on the stream that the
watchdog's callbacks read. The reasons `OnNewHandshake` can reject (message
kind, func_id, container id, a refused registration) are one nondeterministic
choice. Only their common effect, closing without a response, reaches the
watchdog.

### Further work

1. A composition of AdmissionCore and InternalCalls on one worker pool and
   one discarded list. Internal calls occupying workers make external
   dispatches fail. This needs a smaller instance than either module's own.

## 3. Runs

| Run | Config | Bounds | Checks |
|---|---|---|---|
| admission_safety | AdmissionSafety.cfg | 3 calls, 1 worker, cap 1, 1 crash, no reconnect, no symmetry | TypeOK, CapRespected, SingleFinish, NoLostContext, InvokedCallsTracked, WorkerInputAvailable, and the refinement ImplementsAdmissionAbstract: pass, about 725k states |
| admission_liveness | AdmissionLiveness.cfg | 2 calls, 1 worker, no cap, no crash, 1 handshake (of a worker that starts disconnected) | EveryRequestAnswered under fairness: pass |
| slot_before_worker | SlotBeforeWorker.cfg | 2 calls, 1 worker, cap 1, no crash | NoDispatchFailureWithinCap: violated |
| pending_stuck | PendingStuck.cfg | 2 calls, cap 1 | PendingEventuallyDispatched: violated |
| discard_stuck | DiscardStuck.cfg | 1 call, 1 crash | DiscardedEventuallyAnswered: violated |
| admission_fifo | AdmissionFifo.cfg | 3 calls, cap 1 | NoOvertaking: violated |
| shm_create_failure | ShmCreateFailure.cfg | 1 call | ErrorOnlyFromWorker: violated |
| internal_safety | InternalSafety.cfg | 3 internal calls, 2 workers, 1 crash, 1 reconnect, a configured and an unknown func_id; symmetric calls and workers | TypeOK, AnsweredAtMostOnce, InternalCallAccounted: pass, about 510k states |
| internal_dropped | InternalDropped.cfg | 2 calls, 1 worker | ConfiguredCallAnswered: violated |
| conn_safety | ConnSafety.cfg | handshake 2 units, config tail 1 unit, 3 messages of 2 units, 2 writes, 2 failures, gateway accepts or rejects | TypeOK, and ClosingEventuallyClosed, GatewayRejectClosesConnection under fairness: pass, 360 states |
| conn_tail_framing | ConnTailFraming.cfg | tail 1 unit, 1 message, no failures | FramesAreMessages: violated |
| conn_handshake_coalesce | ConnHandshakeCoalesce.cfg | 1 message, no failures | HandshakeBufferBounded: violated |

Why these bounds are enough:
* With cap 1 and three calls, one call can run, one can wait in pending, and
  one can arrive while a slot is free or being freed. Every promotion path
  and the overtaking case can then happen.
* One worker is enough to make dispatch fail (the worker is busy or gone)
  and to race its reply against its disconnection.
* One crash drives the discard path. The handshake drain runs in
  `discard_stuck` and `pending_stuck`, which allow one reconnect.
* The admission safety run also checks the refinement, so it has no
  symmetry, which is unsound for a temporal property. Safety invariants and
  the refinement (an action property) share one model. Liveness has its
  own, smaller model. With a reconnect, the safety run takes 7 minutes.
  Without one, a crash still sends a call through the drain on another
  reply's thread. A reconnect's drain is exercised by `internal_safety`.
  In `admission_liveness` it is exercised by a worker that starts
  disconnected.
* For internal calls, two workers let one reply race one worker's
  disconnection. Three calls then still give two concurrent drains. One
  worker and two calls are enough for the second `INVOKE_FUNC` to find no
  idle worker.
* For the connection, 2-byte units make split reads (one byte at a time)
  and merged reads possible. Three messages let a read cover a frame
  boundary from both sides. Two failures make two failure paths reach
  `ScheduleClose` in one run.
* Two workers take about three times as many states, under the run-time
  limit only for the safety run without mutants, and add no new control
  path.

### What the runs show

* `slot_before_worker`: `OnRecvMessage` frees the running slot under `mu_`
  (server.cpp:455). It frees the worker only afterwards, outside the lock,
  in `OnFuncCallCompleted` (470). A request that arrives in between is
  admitted and finds the only worker still busy, so it gets a 404. This
  happens with the cap equal to the number of workers and no worker lost.
  An operator cannot size the cap to avoid dispatch failures. spec.md does
  not say whether a slot may be free while its worker is not.
* `pending_stuck`: after a failed dispatch (no idle worker, or shm creation
  failed), the freed slot is not refilled. A queued request waits forever
  if no other IPC event comes. This is a code bug.
* `discard_stuck`: a worker disconnects mid-call and no drain runs on close,
  so the request hangs. spec.md 4.1 says the drain runs after
  connection-close handlers.
* `admission_fifo`: a newer request enters running while an older one is
  pending, against spec.md 8.
* `shm_create_failure`: input shm creation failure is reported as 500 or
  UNKNOWN, where spec.md 4.6 says it is a dispatch failure.
* `internal_dropped`: the second worker-to-worker call finds the only
  worker busy. `OnRecvMessage` logs the failure (server.cpp:432) and sends
  nothing back, so the caller waits forever. spec.md 4.2 and 4.6 say the
  failure surfaces as a dispatch failure. (spec.md 4.6 says a call with
  no worker is dropped silently, so the finding is against 4.2.)
* `internal_safety`: the callee answers its caller, and a drain answers a
  call discarded with a disconnected callee. No caller gets two results,
  even with drains running at once on IPC threads and a handshake thread.
  That relies on copying and clearing `discarded_func_calls_` in one
  critical section (mutant `DrainNoClear`). No invoked call is lost when a
  callee disconnects mid-call (mutant `CrashNoDiscard`).
* `conn_handshake_coalesce`: a single read can return the handshake
  response together with the bytes after it. Those bytes are the config-JSON
  tail of spec.md 4.3, or the gateway's first message. The `DCHECK_LE` at
  gateway_connection.cpp:109 then fails. In a release build the length never
  equals `sizeof(HandshakeResponse)` again, and the handshake stalls.
* `conn_tail_framing`: the gateway always follows the response with the
  config JSON (server.cpp:269-270). Even when the response is read on its
  own, `RecvHandshakeResponse` drops only `sizeof(HandshakeResponse)` bytes.
  The tail is then cut into frames together with the gateway's first
  message, so the watchdog gets a frame the gateway never sent. The trace:
  Start, ConnectCallback, GatewayRespond, GatewaySend,
  WriteHandshakeCallback, a read of exactly the response, then one read of
  2 units.
* `conn_safety` also shows what happens when the gateway rejects a
  handshake. Only the end of stream tells the watchdog about the rejection,
  and the `nread < 0` branch of `ReadHandshakeResponseCallback` closes the
  watchdog's side. If that branch is dropped, the connection hangs (mutant
  `ReadEofRunningOnly`).

## 4. Fairness

Each gateway thread step is weakly fair, because an IO thread runs its
handler to the end. `MsgRecv` is weakly fair once its reply has been
received, and `Reply` is weakly fair: a function eventually returns, and
spec.md 5 says timeouts are external. Arrivals, crashes and reconnects are
environment choices and are not fair. This is why the two liveness
violations are real: nothing in the gateway itself makes progress.

InternalCalls uses the same fairness. Drain steps, the handling of a
received COMPLETE/FAILED, and a worker's reply are weakly fair. Invocations,
disconnections and handshakes are not fair.

In GatewayConnection, `Start`, every libuv callback (the end of stream
included), the gateway's answer to a handshake (accept or reject) and its
`OnConnectionClose` are weakly fair. libuv runs every callback whose request is
complete, including the cancelled ones after `uv_close`. Gateway messages
and failures are not fair.

Deadlock checking is off. A state in which every request is answered and no
worker acts is an event loop waiting for input.

## 5. Not modelled

* Listeners, IO-worker choice, HTTP/gRPC parsing, and the statistics
  counters. They are I/O or opaque sinks and no control flow depends on
  them.
* FuncConfig lookups. External calls always have a dispatcher, because the
  request matcher accepts only configured names.
* The watchdog rejecting the gateway's response (gateway_connection.cpp:49).
  Reading stops. Nothing in `src/` closes the connection: the model
  stays in kHandshake while the gateway keeps the launcher registered.
  Whether `Watchdog::OnRecvHandshakeResponse` then closes or exits is in
  `watchdog.cpp`, which is not under `src/`. So no property asserts that the
  connection ends.
* Container registration with the monitor on a launcher handshake. It only
  notifies an out-of-scope collaborator.
* The 32-bit wrap of `next_call_id_`. It needs 2^32 requests while an old
  call is still in flight, and spec.md 3 (invariant 5) accepts it. Calls
  are distinct model values.
