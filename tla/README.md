# TLA+ models of the nanomsg RTIPC transport

This directory holds TLA+ models of the RTIPC transport in
`src/src/transports/rtipc/` and of the stream-header exchange in
`src/src/transports/utils/streamhdr.c`. TLC checks them. Every definition
that models code is listed with its source lines in `PROJECT.json` ("map").

## 1. The system

All transport objects are event-driven state machines (`nn_fsm`). Each runs
inside the single worker context of its socket. A handler runs to completion.
`nn_fsm_start`/`nn_fsm_stop` call the target's handler synchronously. A
machine raises events to its owner with `nn_fsm_raise`, and they are
delivered in FIFO order before the context is left. `nn_fsm_isidle` is true
only when the machine is idle *and* its STOPPED event is not still queued.
While a machine is stopping, its events go to its shutdown handler.

| Part (spec §) | Source | State | Operations | Interacts with |
|---|---|---|---|---|
| StreamHdr (4.2) | `utils/streamhdr.c` | IDLE, SENDING, RECEIVING, STOPPING_TIMER_ERROR, STOPPING_TIMER_DONE, DONE, STOPPING; borrowed usock and its saved owner; 1000 ms timer | start, stop; handler for usock SENT/RECEIVED/ERROR and timer TIMEOUT/STOPPED | the usock it borrows (swap_owner), its timer, the Session that owns it (OK/ERROR/STOPPED) |
| Session (4.3) | `rtipc/srtipc.c`, `srtipc.h` | IDLE, PROTOHDR, STOPPING_STREAMHDR, ACTIVE, SHUTTING_DOWN, DONE, STOPPING; instate HDR/BODY/HASMSG, outstate IDLE/SENDING | start, stop, pipe send/recv, handler, shutdown handler | StreamHdr, the usock, pipebase (core), its parent (ERROR/STOPPED) |
| AcceptSession (4.4) | `rtipc/artipc.c` | IDLE, ACCEPTING, ACTIVE, STOPPING_SRTIPC, STOPPING_USOCK, DONE, STOPPING | start (accept on the listener), stop, handler, shutdown | the listener usock, BindEndpoint (ACCEPTED/ERROR/STOPPED), one Session |
| BindEndpoint (4.5) | `rtipc/brtipc.c` | ACTIVE, STOPPING_*; listener usock; current accepting artipc; list of accepted artipcs | create (unlink, listen), stop, handler, shutdown cascade | the listener, the AcceptSessions |
| ConnectEndpoint (4.6) | `rtipc/crtipc.c` | IDLE, CONNECTING, ACTIVE, STOPPING_SRTIPC, STOPPING_USOCK, WAITING, STOPPING_BACKOFF, STOPPING_*; usock; backoff timer | create, stop, handler, shutdown, start_connecting | its usock, one Session, the backoff timer, statistics |
| FSM runtime, usock, timer, backoff, pipebase (4.1) | outside this repository's sources | — | — | every part above |

The behaviours that make this code hard:

- Three machines share one socket by swapping its owner: the parent, the
  Session and the StreamHdr.
- Stops cascade asynchronously: parent → Session → StreamHdr → timer, and
  the STOPPED events come back through the queue.
- A timer races the socket during the handshake.
- The peer is untrusted. It can send a bad header, an unknown frame type, or
  close and error at any point.
- Reconnection uses a backoff, and BindEndpoint shuts down many accepted
  sessions at once.

## 2. Modules

Each machine's states are a set named after it: `ShStates`, `SsStates`,
`CrStates`, `ArStates` and `BrStates`. Each set is the machine's
`NN_*_STATE_*` defines, with the same names.

### `Session.tla` (the core)

One module composes StreamHdr and Session with everything they talk to.

- **Owner.** The parent is modelled as an abstract owner: the part of
  crtipc/artipc that owns a session. It starts the session on a connected
  socket (`OwnerStart`, crtipc.c CONNECTED), stops it on ERROR
  (`OwnerOnSrtipc`), then stops the socket (`OwnerOnUsock`), and
  reconnects (`OwnerReconnect`, the WAITING/backoff states abstracted). A
  user may stop the endpoint at any point (`OwnerStop`, `nn_crtipc_shutdown`).
- **Environment.** The timer, the usock (owner, state, one send and one
  receive in flight), the pipebase and the event queue are modelled from
  spec §4.1. They are marked `spec_modelled` in the map.

State: `sh` (streamhdr), `ss` (srtipc), `timer`, `us` (usock), `pipe`,
`own` (parent), `queue` (raised events not yet delivered), `fault` (which
`nn_assert`/`nn_fsm_bad_*` aborted the process, or "none"), and `hist` (the
peer's handshake verdict and counters of the pipe's traffic).

How the handlers are modelled:

- Each code handler is an operator from a world record `w` to a new one.
  Nested synchronous calls are compositions of these operators, in the
  code's order. For example, `SrtipcStart` calls `StreamhdrStart`, which
  calls `TimerStart` and then `UsockSend`.
- An action commits the result of a whole handler.
- External events happen only when the queue is empty (`Quiet`), because
  the context drains its queue before it is left.
- `Dispatch` delivers the oldest queued event.
- The socket, the timer, the peer and the core are separate actions:
  `UsockSent`, `UsockReceived`, `UsockShutdown`, `UsockError`,
  `UsockStopped`, `TimerTimeout`, `TimerStopped`, `CoreSend`, `CoreRecv`.

Data is abstracted to what the properties tell apart:

- The peer's protocol header is "valid", "badsig" (wrong signature) or
  "notpeer" (incompatible protocol).
- A frame is a type byte from `FrameTypes` with a size of 0 or 1. Only
  empty versus non-empty changes control flow.

### `MCSession.tla`

Gives the model values for `PeerHdrs` and `FrameTypes`.

### `Lifecycle.tla` (the abstract specification)

This is what any transport machine promises its owner (spec §4.1, §5).
Started from idle, it runs until one of two things happens:

- it finishes on its own and raises one result (OK or ERROR); or
- it is stopped.

Every stop is followed by exactly one STOPPED, after which the machine is idle
and may be started again.

- `life` ∈ idle/running/done/stopping. "stopping" lasts until STOPPED has been
  taken off the queue (`nn_fsm_isidle`).
- `signal` is the raised event the owner has not taken yet.

`Session.tla` shows that both srtipc and streamhdr implement it:

- `SrtipcLife` and `StreamhdrLife` are `INSTANCE Lifecycle WITH life <- LifeOf(..)`
  and `signal <- SignalOf(..)`.
- The mapping is computed from the machine's `fsm`, its `state` and the
  queue.
- The abstract `Spec`s are checked as the PROPERTYs
  `SrtipcImplementsLifecycle` and `StreamhdrImplementsLifecycle`.

Because of that refinement, the endpoint modules below may represent the
session they own by a Lifecycle alone.

### `ConnectEndpoint.tla` (crtipc, with `MCConnectEndpoint.tla`)

This module covers crtipc in full: create, the IDLE/CONNECTING/ACTIVE/
STOPPING_SRTIPC/STOPPING_USOCK/WAITING/STOPPING_BACKOFF handlers, stop and the
shutdown cascade, and `nn_crtipc_start_connecting`.

- **The session** is `Sess == INSTANCE Lifecycle WITH life <- slife, signal <- ssig`.
  Its steps (`SessionFails`, `SessionStops`, `TakeSessionEvent`) are the
  Lifecycle's own.
- **The socket** (`us`: state and owner) and **the backoff timer** (`retry`)
  are modelled from spec §4.1/§4.6:
  - `nn_usock_start` may fail (`MayOpen`);
  - the connect may succeed or fail.
- **Interval computation.** `IvlMax` translates the interval computation of
  `nn_crtipc_create` (crtipc.c:110-121). The doubling in `BackoffStart`
  follows spec §4.6.
- **Statistics** are in `stats`. Two findings below are about them:
  - `inprogress_connections`;
  - `established`/`broken`/`dropped`.

- **Destroy.** Once the endpoint has reported stopped, the core destroys
  it (`Destroy`). `CrtipcDestroy` translates `nn_crtipc_destroy`, whose
  `*_term` calls assert that the session (`SrtipcTerm`, srtipc.c:92-102),
  the backoff, the socket and the machine are all idle. A child left running is the fault
  `crtipc_term_assert`.

Handlers are `w → w` operators on a world record, exactly as in
`Session.tla`.

### `AcceptSession.tla` (artipc)

This module is a library of handler operators over the slots in `Slots`.
`nn_alloc` may hand out several artipc objects at once, so the state is a
function `ar` from slot to record:

- `fsm` and `state`;
- whether the artipc holds the listener (`haslis`);
- its accepted socket `us` and that socket's owner `usowner`;
- `slife`, the Lifecycle of the session it owns.

Other state:

- `lis` is the listening socket and the slot it is lent to.
- Events go to one FIFO `queue` as `[to, slot, src, type]`. The receiver is
  the brtipc, or the artipc in `slot`.

The operators:

- `ArtipcStart`/`ArtipcOnStart`: take the listener and accept.
- `ArtipcAccepting`: ACCEPTED hands the listener back, raises ACCEPTED and
  starts the session. ACCEPT_ERROR accepts again.
- `ArtipcActive`, `ArtipcStoppingSrtipc`, `ArtipcStoppingUsock`: on a
  session failure, session → socket → ERROR to brtipc.
- `ArtipcShutdown`/`ArtipcFinalStop`/`ArtipcStop`: stop, which drops a live
  session, waits for it, stops the socket, returns the listener and raises
  STOPPED.
- `ArtipcFeed`: `nn_fsm_feed`.

### `BindEndpoint.tla` (brtipc, with `MCBindEndpoint.tla`)

This module extends AcceptSession and adds the bind endpoint. Its state `br`
holds `fsm`, `state`, `cur` (the accepting artipc) and `list` (the accepted
ones, in the order of `nn_list_insert`).

- **Create** runs `StartListening` and then `StartAccepting`. The system calls
  of `nn_brtipc_start_listening` are one nondeterministic outcome from
  `ListenOutcomes`: success, or a failure that reaches `errno_assert`.
- **`BrtipcActive`** handles the artipcs' events:
  - ACCEPTED moves `cur` onto the list and starts a fresh one;
  - ERROR stops it;
  - STOPPED removes and frees it (`ArtipcTerm`).
- **`BrtipcShutdown`** is the three-stage cascade of brtipc.c:139-194:
  1. stop `cur` and wait until it is idle;
  2. stop the listener and wait;
  3. stop every accepted artipc and wait for all their STOPPED events, then
     call `nn_epbase_stopped`.
- **The environment** is modelled from spec §4.1:
  - the accepted sockets (`Accepted`, `AcceptError`, `UsockShutdown`,
    `UsockStopped`);
  - the listener (`ListenerStopped`);
  - the sessions (`SessionFails`, `SessionStops`).
- **`ArtipcTerm`** frees an artipc. It asserts that the artipc is IDLE,
  its session has stopped (`SrtipcTerm`) and its socket is idle.
- **`Deliver`** hands the oldest event to its receiver. An event for a slot
  that has been freed is recorded as the fault `use_after_free`.
- **`Destroy`** runs `BrtipcDestroy` (`nn_brtipc_destroy`) after the
  endpoint has reported stopped. That function asserts the endpoint is
  IDLE, no accepting artipc is left and the accepted list is empty.
- **Refinement.** `ArtipcLife(a)` instantiates Lifecycle for each slot, as
  brtipc sees it:
  - the artipc is "stopping" from `nn_artipc_stop` until brtipc took its
    STOPPED;
  - it is "done" once it raised ERROR (state DONE), and that ERROR is its
    result;
  - ACCEPTED is a notification while it runs.

  `ArtipcImplementsLifecycle` checks every slot's steps against the
  Lifecycle's next-state relation, across the reuse of the slot. The
  liveness half of Lifecycle is checked as `StopCompletes` and
  `FailedConnectionFreed`.

### `Framing.tla` (the ACTIVE srtipc's framing, with `MCFraming.tla`)

This module models the byte stream between two ACTIVE sessions:

- the sender's `nn_srtipc_send` and its SENT completion;
- the receiver's RECEIVED handler for INSTATE_HDR and INSTATE_BODY;
- `nn_srtipc_recv`.

The handshake, errors and stops belong to `Session.tla`. Here the question
is whether the receiver stays in step with the stream.

- **State.**
  - `tx.outstate`;
  - `rx` (instate, the posted read and its length, inmsg);
  - `wire`, the bytes in the local stream socket, a reliable FIFO;
  - the histories `sent` and `delivered`.
- **Messages** are `[hdr, body]` chunk pairs of real bytes, because the
  length field counts both chunks.
- **Conversions** are modelled by what they do:
  - `PutLL`/`GetLL` are big-endian `nn_putll`/`nn_getll`;
  - `SizeCast` is `(size_t) size`.
- **Widths are scaled down**, because TLC's integers are 32-bit:
  - `ByteBase` stands for 256;
  - `LenBytes` stands for the 8-byte length field;
  - `SizeBytes` stands for `sizeof (size_t)`.

  `SizeBytes < LenBytes` is a build whose size_t is narrower than the
  length field.

### MC modules

- `MCSession.tla` gives `PeerHdrs` and `FrameTypes`.
- `MCConnectEndpoint.tla` gives the interval options.
- `MCBindEndpoint.tla` gives the slots and the listen outcomes.
- `MCFraming.tla` gives the messages as header and body chunks.

## 3. Runs

| Run | cfg | Expect | What it shows |
|---|---|---|---|
| session_core | `Session.cfg` | pass | Under the timing assumption below, a session driven through handshake (all three peer headers), traffic, peer shutdown/error, pipe-start failure, user stop at every point and one reconnect never aborts. It keeps socket ownership consistent, activates only after a sound handshake, keeps pipe accounting, runs the pipe only while active, and every stop and every handshake ends. srtipc and streamhdr refine Lifecycle. |
| session_timer_race | `SessionTimerRace.cfg` | violation | Socket events may arrive after the handshake timer fired (`RaceTimerStop`). The late SENT/RECEIVED hits `nn_assert (0)` in STOPPING_TIMER_ERROR/DONE (streamhdr.c:237, 257). |
| session_handshake_close | `SessionHandshakeClose.cfg` | violation | The peer may close during the handshake (`ShutdownInHandshake`). NN_USOCK_SHUTDOWN has no case in SENDING/RECEIVING (streamhdr.c:165, 178, 203, 217). |
| session_shmem_frame | `SessionShmemFrame.cfg` | violation | The peer sends a frame type other than NN_SRTIPC_MSG_NORMAL. `nn_assert` at srtipc.c:335 aborts instead of failing the session. |
| connect_core | `ConnectEndpoint.cfg` | pass | A connecting endpoint that fails to open, fails to connect, loses its session and is stopped at any point never aborts, never lets two machines own its socket, keeps statistics in range, counts each lost connection once as broken or dropped, brings every lost connection back to the next attempt and always finishes a stop. |
| connect_stop_inprogress | `ConnectStopInProgress.cfg` | violation | Stopping while a connect is in progress leaves `inprogress_connections` at 1 after the endpoint is gone (crtipc.c:165). |
| connect_low_max | `ConnectLowMax.cfg` | violation | A nonzero RECONNECT_IVL_MAX below RECONNECT_IVL makes the endpoint wait less than the initial interval (crtipc.c:118). |
| bind_core | `BindEndpoint.cfg` | pass | A bind endpoint accepts, fails to accept and loses connections, reuses slots, and is stopped at any point. It never aborts and never delivers to a freed artipc. It keeps the listener with exactly one accepting artipc, stops accepted sockets only after their sessions, counts each connection once, frees every failed connection and always finishes a stop. |
| bind_listen_error | `BindListenError.cfg` | violation | Something other than a stale socket file is at the bind path (`ListenOutcomes` includes unlink_error). `errno_assert` at brtipc.c:299 aborts the process, where spec §8 promises a startup error. |
| frame_core | `Framing.cfg` | pass | With size_t as wide as the length field, every message sent (empty, body only, header and body chunks) is delivered in order and byte for byte, and every message sent reaches the receiver's core. |
| frame_narrow_size | `FramingNarrowSize.cfg` | violation | With size_t narrower than the length field, a frame whose size is a nonzero multiple of 2^(8·sizeof(size_t)) passes the zero test (srtipc.c:336) but allocates and reads a 0-byte body (srtipc.c:338). The receiver then reads the payload as the next header and loses frame sync. |

Session handshake close: the missing NN_USOCK_SHUTDOWN case falls through
to `nn_assert (0)` at streamhdr.c:165 and 204.

A stopped session in DONE (it has raised ERROR) does not wait: srtipc.c:187-199
stops it within the same drain, before any user stop can be dispatched. The
models' `SrtipcStop` does the same, so a parent's `nn_srtipc_isidle` test
never sees a failed session still stopping, and the stop never counts such a
connection dropped after it was counted broken. `ConnectionCountedOnce`
checks this in connect_core and bind_core.

Properties of session_core:

- `TypeOK`.
- `NoContractViolation`: no assertion or bad-event abort is ever reached.
- `UsockOwnership`: the socket's owner agrees with the states of the three
  machines that pass it around.
- `HandshakeSound`: an active session or pipe implies the peer's header was
  valid.
- `PipeAccounting`: the core has at most one send and one received message
  outstanding.
- `PipeOnlyWhileActive`.
- `StopCompletes`: a stop of the endpoint leads to the socket being stopped.
- `HandshakeEnds`: PROTOHDR is always left.
- `SrtipcImplementsLifecycle`, `StreamhdrImplementsLifecycle`: the
  refinements above.

Properties of connect_core:

- `NoContractViolation`.
- `SocketExclusive`: the session owns the socket exactly while it runs, and
  crtipc never stops a socket the session holds.
- `StatsWhileRunning`: while the endpoint runs, `inprogress_connections`
  is 1 exactly in CONNECTING. Every established connection except the
  current one has been counted broken.
- `ConnectionCountedOnce`: broken plus dropped never exceeds the established
  connections (spec §8, scenario 6). The stop counts "dropped" from
  `nn_srtipc_isidle` (crtipc.c:165-170), so this depends on the order of
  the session's ERROR, its stop and the user's stop.

`RetryWithinBounds` (the backoff interval stays between RECONNECT_IVL and
the effective maximum) is checked only by connect_low_max, where it fails.
- `LostConnectionRetried`: a lost connection leads to the next attempt,
  unless the user stops the endpoint. A broken session, a failed connect
  and a failed open all count as lost. The chain goes through the
  session's STOPPED, the socket's STOPPED, the backoff's TIMEOUT and the
  backoff's stop, and each hand-off waits on a different child.
- `StopCompletes`: a stop ends in `nn_epbase_stopped`.

Properties of bind_core:

- `NoContractViolation`. This includes the STOPPED-only assert of the cascade
  (brtipc.c:174) and the `use_after_free` of `Deliver`.
- `ListenerAccepting`:
  - the listener is lent to at most one artipc, the one that records it;
  - while the endpoint runs and the queue is empty, it is lent to `cur`,
    which is ACCEPTING on it.
- `SocketExclusive`: an accepted socket that is stopping is owned by its
  artipc, not by the session.
- `StopCompletes`: a stop of brtipc leads to `nn_epbase_stopped`.
- `FailedConnectionFreed`: once a session has failed, eventually no artipc
  lingers. Every allocated artipc is either accepting or has a running
  session.
- `ArtipcImplementsLifecycle`: the refinement above. Each artipc is
  started only when idle, reports a failed connection once, and answers
  every stop with exactly one STOPPED. brtipc takes that STOPPED before the
  slot is freed and reused.
- `ConnectionCountedOnce`: as in connect_core, for the counts artipc makes
  when the stop cascade reaches it (artipc.c:111-113).

Properties of frame_core:

- `FrameRoundTrip`:
  - no receiver assertion fires;
  - the messages the core took, followed by the one ready for it, are a
    prefix of the messages sent, byte for byte.
- `FrameArrives`: while the receiver is behind, it reaches HASMSG. Under
  fairness of the socket's completions this needs `nn_srtipc_recv` to post
  the next header read.

In connect_core and bind_core, `NoContractViolation` also covers the
destroy asserts.

Each property of a passing run has a mutant in `PROJECT.json`: a plausible
bug in the mapped code that TLC shows breaks it. The mutant operators sit
right before the definition they replace, each marked "Mutation".

## 4. Bounds

| Constant | Value | Why it is enough |
|---|---|---|
| `MaxRecv` | 4 | One handshake receive plus an empty frame, then a non-empty frame header and its body. Every instate transition happens. |
| `MaxSend` | 2 | Two sends exercise the SENDING → SENT → next send cycle. |
| `MaxConns` | 3 | Two reconnects. A fresh session on a reused srtipc/streamhdr object is the case where stale fields would show, and the third session comes after two earlier sessions that can have ended in different ways (handshake failure, peer error or close, user stop). |
| `PeerHdrs` | {valid, badsig, notpeer} | Each validation branch of streamhdr.c:188-194. |
| `FrameTypes` | {1} (or {1, 2}) | The only legal type, and one illegal one. |
| `MaxConnects` | 4 | Three retries. The doubling reaches the maximum and stays there (1 → 2 → 4 → 4, spec scenario 5), and a stop can meet every state of every later connection. |
| `IvlOptions` | {(1,0), (1,4)} (or {(2,1)}) | The default zero maximum, a doubling range, and for connect_low_max a maximum below the interval. |
| `Slots` | {1, 2, 3} | One accepting artipc and two accepted ones at once. The stop cascade then has a list of two to stop, and a freed slot is reused. |
| `MaxAccepts`, `MaxAcceptErrors` | 3, 1 | A third accept after one connection is freed, and one EMFILE-style retry. |
| `ListenOutcomes` | {ok} (or {ok, unlink_error}) | The failing outcomes abort at once; bind_listen_error adds one. |
| `ByteBase`, `LenBytes` | 2, 2 | Lengths 0..3 are encoded in two bytes, so a length of 2 or more uses the high byte. |
| `SizeBytes` | 2 (or 1) | As wide as the length field, or narrower, so that length 2 truncates to 0. |
| `Messages` | empty; body 1 byte; header 1 byte + body 1 byte | The zero-size path, a plain body, and a payload split over two chunks. |
| `MaxMsgs` | 4 | Four messages, so a sync loss can show on a later frame and the sender runs ahead of the receiver. |

Sizes:

- session_core: about 15 400 distinct states in about 12 seconds.
- connect_core: about 680 distinct states in about two seconds.
- bind_core: about 2 350 distinct states in about 80 seconds. Most of that
  time goes to the liveness check.
- frame_core: about 2 500 distinct states in about two seconds.

## 5. Fairness

Fairness is weak (WF) only on the steps the worker context and the OS
always take once enabled:

- `Dispatch`/`Deliver`: the context drains its queue before it is left.
- `TimerTimeout`, `TimerStopped`, `BackoffTimeout`, `BackoffStopped`: a
  started timer fires and a stopped one reports back.
- `UsockStopped` (per slot in BindEndpoint) and `ListenerStopped`: a
  stopped usock reports back.
- `UsockReceived`, `UsockSent` in Framing: a posted read completes once its
  bytes are in the socket, and a posted write on a local socket completes.
- `SessionStops` (per slot) and `TakeSessionEvent`: the Lifecycle's own
  fairness. A stopped session raises STOPPED, and `Session.tla` checks that
  srtipc does.

The peer, the core, the user, the connect outcome, incoming connections
and session failures get no fairness. The liveness properties therefore
hold even if nothing ever arrives.

## 6. Environment assumptions

- Without `RaceTimerStop`, the socket raises no event while streamhdr waits
  for its timer to stop. The worker cancels a timer well within any network
  event's latency, but nothing in the code enforces this. The
  session_timer_race run shows what happens without the assumption.
- Without `ShutdownInHandshake`, the peer does not close while streamhdr
  owns the socket.
- In the endpoint modules, external events happen only when the queue is
  empty, as in `Session.tla`.

## 7. Not modelled

- **Payload bytes in Session.tla, and the allocation limit.** Session.tla
  abstracts payloads to empty or non-empty, and Framing.tla models the
  bytes. Framing.tla checks the 64-bit size against size_t. Whether
  `nn_msg_init` can allocate a peer-chosen size is up to the allocator,
  which is not in this repository.
- **The rate of the accept retry (artipc.c:223).** After an accept error,
  artipc accepts again at once. The model checks that the retry keeps the
  listener and the accepting state consistent. Whether it spins on the CPU
  is a question of time.
- **Error codes (`nn_epbase_set_error`), address formatting and option
  parsing.** They do not change control flow. The interval options are
  modelled as their values.
- **The usock/timer/backoff/fsm implementations.** These are outside the
  repository's sources. They are modelled from spec §4.1 as the contract the
  transport relies on, and marked `spec_modelled` in the map.
- **One model of everything.** crtipc and brtipc own srtipc through its
  Lifecycle, and Session.tla checks the refinement. A single model with full
  sessions inside several accepted artipcs would be far beyond TLC's reach
  and would add no interaction the Lifecycle does not already capture.
