# TLA+ models of the QtRemoteObjects Python replica client

This directory models `examples/remoteobjects/cbor_python/py_replica/py_replica.py`
(the client, "replica" side of the QtRemoteObjects protocol, written on asyncio)
and, as its environment, the host of `examples/remoteobjects/pyside/source.py`.
Line numbers below refer to `py_replica.py` unless another file is named.

## 1. Inventory

### Components and their state

| Component | Code | State | Operations |
|---|---|---|---|
| Variant decoder | `Decoder` 87-161 | byte buffer, cursor `index` | `decodeU16/U32/S32/Double/QString/ByteArray/Bool`, `decodeQVariant` (tag table 88-97), `decodeArgs` |
| Frame codec / handshake | `Pipe.run` 201-238 | `handshake` flag, `error` flag | first frame: compact probe (`>BBBc`) or plain `>I` length; legacy re-wrap of the text (227-228); later frames: plain |
| Heartbeat timer | `Timer` 164-183, `Pipe.sendHeartbeat` 240-243 | `_task` (one asyncio task) | `__init__` (start), `restart` (cancel, await, start), `_job` (sleep, callback) |
| Connection (`Pipe`, `TcpPipe`) | 186-275 | `reader`, `writer`, `timer`, `handshake`, `error` | `connect`, `run` loop, tombstone `(id, None)` on exit |
| Node | 278-390 | `pipes` (id -> Pipe), `replicaPrivateInstances` (name -> cache), `queue`, `currentPipe`/`write` | `acquire`, `connect`, `run` (dispatch loop), `onPipeError`, the packet handlers |
| Replica cache (`ReplicaPrivate`) | 412-453 | `pipe`, `properties`, `instances` (WeakSet) | `create`, `write`, `initialize`, `invoke`, `isValid` |
| Replica proxy (`Replica`, `Simple`) | 456-581 | `_priv`, one `Signal` per signal | `callSlot`, `callSetter`, `sendInvokePacket`, property getters |
| Signal | 393-409 | deque of slots | `connect`, `emit` (synchronous, in order) |
| Pipe registry | `Pipe.__init_subclass__` 245-261 | `Pipe.handlers` | class registration at import |
| Process | `main`, `handle_exception`, `shutdown` 584-639 | the event loop | start-up acquires and connect; any unretrieved task exception stops the loop |
| Source (environment) | `pyside/source.py` and the Qt host (not in this repository) | the remoted `Simple(3, 3.14)` | greet, answer `AddObject`, apply property writes, notify |

### How they interact

All tasks run on one asyncio loop. Each `Pipe.run` task reads frames from its
socket and puts `(id(pipe), data)` on the Node's one `asyncio.Queue`; on a bad
first frame it closes its writer and queues a tombstone `(id, None)`. The
`Node.run` task takes one entry at a time and runs a handler synchronously; a
handler mutates a `ReplicaPrivate`, emits `Signal`s on the proxies in its
`WeakSet` (observers run inside the handler), or writes a reply on the
pipe (`AddObject`). The application, from `main` or from other tasks and
observers, acquires proxies and calls slots and setters, which write an
`InvokePacket` on the pipe bound to the proxy's cache. The heartbeat `Timer`
of a pipe is a separate task that writes `Ping` and restarts itself; the read
loop restarts it on every frame after the first.

An exception that escapes any task (the read loop at end of stream, a handler
that raises) is reported by the loop's exception handler `handle_exception`,
which runs `shutdown`: every task is cancelled and the loop stops.

### What is hard

* Interleaving of several read loops, the dispatch loop, the timer tasks and
  the application on one cooperative scheduler; the shared FIFO queue is the
  only synchronisation.
* Error paths: end of stream, a bad first frame, an unknown packet kind, an
  unsupported variant, a packet naming an object never acquired. The spec
  (section 7) says each is fatal to one connection at most.
* The handshake dialect resolution on the first frame only.
* The timer restart: `Timer.restart` cancels and awaits the running task, and
  `sendHeartbeat` calls it from inside that very task.
* Shutdown: `shutdown` cancels every task and waits for them all, so a
  cancel that some task swallows keeps the loop running.
* Re-entrancy: Signal observers run inside a handler, while the WeakSet of
  the cache is being iterated.

### What makes each component correct

* Connection: only a Handshake is queued as its first frame; a connection the
  Node drops is torn down; a closed connection ends its loop; at most one live
  heartbeat task, and none after the connection ends.
* Process: a requested shutdown ends every task and stops the loop.
* Replica proxy and Signal: every subscriber runs once per emission, in the
  order it was connected; no call the application makes once the cache is
  bound is dropped, and the source receives them in order.
* Node: no protocol error of one connection stops the dispatch loop; packets of
  a connection that failed its handshake are never applied; the ObjectList ->
  AddObject -> InitPacket exchange initialises every acquired object.
* Replica cache: bound only to a connection whose handshake was accepted; after
  initialisation it mirrors the source's values.
* Decoder / encoder: decoding what `sendInvokePacket` encodes gives the fields
  back; lengths are right; decoding never reads past the frame.

## 2. Modules

| Module | Models | Kind |
|---|---|---|
| `ReplicaClient` | `Pipe.run`, `TcpPipe.connect`, `Node.connect/acquire/run` and every handler, `ReplicaPrivate`, `Replica.callSlot/callSetter/sendInvokePacket`, the WeakSet, `handle_exception`/`shutdown` | component |
| `QtSource` | `ReplicaClient` + well-behaved Qt hosts (spec-modelled host side; `source.py` for the remoted object, the `reset` slot and the process dying on SIGINT) | composition |
| `ArbitraryPeer` | `ReplicaClient` + peers that write any frames of a given set and may close | composition |
| `Heartbeat` | `Timer` (164-183), `Pipe.sendHeartbeat` (240-243), the timer calls of `Pipe.run` (230-234) and `handle_exception`/`shutdown` (584-600), over asyncio's task and cancellation semantics | component |
| `Codec` | `Decoder` (87-161) as operators over byte sequences; the packing in `sendInvokePacket` (483-518), `onObjectList`'s AddObject (360-362), `sendHeartbeat`'s Ping, the first-frame probe and re-wrap of `Pipe.run` (205-228); the bytes a source writes (spec-modelled) | operators |
| `Wire` | one connection on bytes: a source writing frames, `Pipe.run` framing them, `Node.run` decoding them with each handler's decode calls, and the client's own frames read back by the source | component |
| `Observers` | `main`'s two proxies and the observers it connects (618-632), `Signal.connect/emit` (404-409), `ReplicaPrivate.initialize/invoke/write` (435-450), `Simple.reset` and the `f` setter, the `change()` task; the source of `Simple` (spec-modelled) | component |
| `ReplicaCache` | what the replica cache promises: entries added unbound with the defaults, bound only by an initialisation with the source's current value, never removed or unbound | abstract |
| `MCQtSource`, `MCArbitraryPeer`, `MCHeartbeat`, `MCWire`, `MCObservers` | model values and the constant definitions for TLC | MC |

### Correspondence (ReplicaClient)

State: `pc[p]` is where `Pipe.run` of `p` is (`idle` before `Node.connect`,
`connecting` in `open_connection`, `reading` in the loop, `exited` after the
error exit with tombstone, `failed` when an exception left `run`);
`handshake[p]` is `Pipe.handshake`; `queue` is `Node.queue`; `pipes` the keys
of `Node.pipes`; `dispatcher` the `Node.run` task; `running` the event loop;
`rp` is `replicaPrivateInstances` with each cache's `pipe` and `properties`;
`owner`/`live` are the proxies and the members of the WeakSets; `wire[p]`
and `out[p]` are the two directions of the socket; `eof[p]` the peer's close.
`accepted` is a history variable (not in the code): the pipes whose handshake
text `onHandshake` accepted.

Data is abstracted: a frame is a record with its packet kind and the fields a
handler uses; a property vector is a small integer (0 = `Simple.defaults()`,
1 = the source's initial value); an unsupported variant type is the value
`Unsupported`; the handshake text is one of the two versions, `"Bogus"`, or
`"NotUtf8"` for bytes that fail the UTF-8 decode of line 227. The three
first-frame framings are the `dialect` of the Handshake record: `u32` (plain
length), `u8zero` (compact probe with firstChar 0), `u8` (compact probe with a
non-zero firstChar, re-wrapped as text).

Actions: `Connect` (311-319), `Connected` (273-275), `ReadFirst`,
`RejectFirst`, `ReadLegacy`, `Read`, `ReadEOF` (the branches of 201-238);
`OnTombstone`, `OnUnknownKind`, `OnDeletedPipe`, `OnHandshake`,
`OnObjectList`, `OnInitPacket`, `OnInvokePacket`, `OnPropertyChangePacket`,
`OnIgnoredPacket` (one iteration of `Node.run` 325-343 with its handler);
`AppAcquire`, `DropProxy`, `CallSlot`, `CallSetter` (the application);
`Shutdown` (584-600). Each handler action includes the Signal emissions it
makes; an observer that acquires a proxy of the same name during the
emission is the second disjunct of `EmitOnInstances`. It crashes `Node.run`
because the WeakSet changes size during iteration; `arbitrary_peer` enables
it with `AcquireInObserver`. `onObjectList` sends AddObject only for the last
listed name, as spec 4.5 prescribes, so with two remoted objects the first is
never initialised.

`Connected` takes an open socket unless the peer is gone without having
written anything, which stands for a refused connection (`open_connection`
raising at 202). A peer that wrote frames and then closed is still connected
to, and its frames are read before the end of stream.

### Correspondence (Codec and Wire)

Bytes are sequences of 0..255, text is a sequence of code points, and a
decoder cursor is 0-based as in Python. Each `Decoder` method is an operator
from `(data, index)` to `Ok(value, newIndex)` or `Fail(error)`. The
operators keep the failure modes of the code:
* `struct.unpack` on too few bytes fails (`Fixed`);
* `decodeQString` and `decodeByteArray` take a clamped slice and move the
  cursor by the declared length, so a short string is silently cut;
* `decodeBool` past the end is an `IndexError`;
* UTF-16BE decoding is strict, so a lone surrogate or an odd length fails;
* `decodeQVariant` fails with `RuntimeError` for a type id outside
  `_QVariantDecoders`, so the id must be one of 1, 2, 3, 6, 10, 12, 36, 38.

Doubles are IEEE binary64, encoded bit-exactly for integers below 2^20,
which is all the runs send. `S32` is two's complement with the width kept.
`InvokeBytes`, `AddObjectBytes` and `PingBytes` are the client's packing.
As in the code, the name's byte length is `len(name)*2`, and `PackS` truncates
or pads like struct's `Ns`. `Probe` is the `>BBBc` test of 205-213 and
`Rewrap` the UTF-8 to UTF-16BE re-wrap of 227-228.

In `Wire` the source writes whole messages (`SourceWrite`, any of
`FirstMessages` first, then any of `Messages`) as the bytes `SourceBytes`
gives, onto `inbox`. The client side follows the code:
* `ReadHead`, `ReadFrame`, `ReadLegacy`, `RejectFirst` and `FirstRaises` are
  the branches of `Pipe.run`. `hdr` holds the probed header between the two
  `readexactly` calls.
* `Deliver`, `OnHandshake`, `OnInitPacket`, `OnInvokePacket`, `OnObjectList`,
  `OnIgnoredPacket`, `SkipDeleted` and `DispatchFails` are one iteration of
  `Node.run`. `Fields` runs the handler's decode calls in order
  (`HandlerFields`), and `Raises` holds the lookups that raise: an unacquired
  name, `Simple.Signals[index]` out of range, an empty ObjectList.
* `got` records what each handler decoded.
* `sendInvokePacket` (the application's `PushI`, `Reset`, `SetF`),
  `OnObjectList`'s AddObject and `SendHeartbeat` write to `outbox`, and
  `intents` records what they meant. `SourceRead` decodes `outbox` frame by
  frame into `recv`, as the source would.

### Refinement (ReplicaCache)

`QtSource` defines `Cache == INSTANCE ReplicaCache WITH cache <- rp,
source <- hostVal, Initial <- Range(Startup)`. The Node's
`replicaPrivateInstances` is the abstract cache, and the hosts' objects are
the abstract sources. `CacheRefinement == Cache!Spec` is checked as a
PROPERTY. Every client step must then be an abstract step or a stutter:
* `Acquire` only adds an unbound entry;
* `onInitPacket` binds the cache to the pipe it came from, with the value
  that host holds at the moment the Node handles it;
* a host's property write changes a source and no cache;
* nothing else touches a cache.

The stronger promise of spec 4.5 is that a PropertyChangePacket updates the
cache. The code does not keep it (`stale_cache`), and `ReplicaCache` does
not state it.

### Correspondence (Observers)

`main` acquires two proxies, `s` and `s2`, of the one cache
"DifferentName" and connects observers before the loop runs: `handler` 3 and
7 and `handler` 42 on `iChanged`, `s.reset` and a print of `s.i`/`s.f` on
`s.initialized`, and a lambda that creates the `change()` task on
`s2.initialized`. `Slots` is the result of `main`'s `connect` calls
(`MainConnects`) folded with `Connect` (`deque.append`), so it is fixed once
the loop runs. The variables are the cache's `pipe` and `props`, the packets
of the one connection not yet handled (`inbox`), the InvokePackets the application asked for (`made`), those written and not
yet read by the source (`out`) and those it read (`got`), and the
`change()` tasks (`chg`).

* `Dispatch`: `Node.run` takes the next packet. For an InitPacket,
  `Initialize` binds the pipe, replaces the properties, then emits
  `initialized` on each instance. For an InvokePacket, `Invoke` emits
  `Signals[index]`. A PropertyChangePacket is only logged.
* `Emit` is `Signal.emit` on each instance, in any WeakSet order (`Orders`):
  every subscriber in deque order, all inside the one handler. `Fire` is a
  subscriber's effect: a packet through
  `ReplicaPrivate.write` (`Write`, dropped while the pipe is None), or a
  new `change()` task. The handlers and the print observer only print, which
  changes no state of the model.
* `ChangeStep`: one `asyncio.sleep` of `change()` ends and the next
  assignment to `s2.f` runs (`callSetter(1, f)`).
* `SourceRead` and `SourceEmit` are the source (spec): it reads the packets
  in order, answers a property write with a PropertyChangePacket and the
  `fChanged` notify, and may emit `iChanged`.

The values are model values: `Defaults` for `[2, -1.]`, `InitVal` for the
host's `Simple(3, 3.14)`, `F1` and `F2` for 99.5 and 93.9.

### Correspondence (Heartbeat)

One connection with a non-zero heartbeat interval. `pipePc` is where
`Pipe.run` is: before the first frame, reading, or inside
`await self.timer.restart()` (awaiting a task, or resumed). `timerTask` is
`Timer._task`. `st[t]` is where timer task `t` is: `starting` (created, first
step scheduled), `sleeping` (in `asyncio.sleep`), `expired` (woken, at the
sleep's await), `selfwait` / `awaiting` / `resuming` (inside `restart()`
called from `sendHeartbeat`), or finished. `waits[t]` is the task `t` awaits,
and `cancelReq` holds the tasks whose next step raises `CancelledError`.
`sleepers` keeps the armed sleeps in the order they began. With one interval,
that is the order they end.

The actions are:
* `ReadFirst`: the `Timer(...)` at 232.
* `ReadFrame` and `PipeResume`: the restart at 234, up to its await and after it.
  `ReadFrame` is not enabled while a timer task is in `selfwait`. That task
  cancelled and awaited itself, so the loop queued its next step with
  `call_soon`. The selector loop runs its ready queue in FIFO order before it
  polls the socket again, so that step runs before any read can complete.
* `StartTask`: the first step of `_job`.
* `Expire`: the interval passes.
* `CancelledSleep`: `_job` is cancelled at its sleep.
* `Fire`: `sendHeartbeat` writes the Ping and runs `restart()` up to its
  await.
* `Resume`: the rest of that `restart()`.

`RestartBy` is the body of `Timer.restart` up to its await. It follows
asyncio's `Task.cancel`:
* a sleeping task is woken with a cancelled sleep;
* a cancel aimed at a task that awaits another is forwarded to the awaited
  one (`Reached`);
* a scheduled or running task gets a pending `CancelledError`, which also
  ends the task's await of itself;
* a finished task is left alone, and the await of it returns at once.

Two ghost variables, `frames` and `epoch[t]` (the frames read when `t`'s
sleep began), tell whether a Ping follows a quiet interval. Task ids are
reused once nothing refers to them and `shutdown` has not gathered them. An
`Assert` stops TLC if the six ids ever run out, or if a cancel would follow an
await cycle. Neither happens.

Shutdown (`handle_exception` 584-589, `shutdown` 592-600) is modelled by
`sd` (`none`, `starting`, `gathering`, `stopped`) and `gathered`, the tasks
`gather` waits for (`PipeTask` stands for the `Pipe.run` task):
* `RequestShutdown`: a failing task or a signal handler creates the
  `shutdown` task.
* `ShutdownCancel`: `task.cancel()` on every unfinished task, with the same
  forwarding as `RestartBy`, then the start of `gather`. A `Pipe.run` that is
  awaiting a timer task forwards its cancel; one that is scheduled (resuming)
  gets a pending `CancelledError`.
* `ShutdownStop`: every gathered task has ended, and `loop.stop()` runs.
Every loop step is wrapped in `OnLoop`: it needs `sd # "stopped"`.

A pending `CancelledError` thrown into `Pipe.run` at `await
self.timer.restart()` surfaces inside `restart`, whose
`except asyncio.CancelledError: pass` (179-181) swallows it. `Pipe.run`
then reads and pings on, `gather` never returns, and the loop never stops.

Assumption: the interval (seconds) is far longer than the time it takes to
run the steps the loop has scheduled, so `Expire` happens only when no step
is scheduled (`Scheduled`). Frames arrive at any time.

## 3. Runs

| Run | Module / cfg | Expect | What it shows |
|---|---|---|---|
| `qt_source` | MCQtSource / `qt_source.cfg` | pass | With two well-behaved hosts remoting "DifferentName", two start-up proxies, late acquires, drops, slot and setter calls: no task dies, and the acquired object is eventually initialised. |
| `qt_source_closing` | MCQtSource | pass | With hosts that may close at any time (before the connection opens, before or after the handshake), the caches refine `ReplicaCache` (`CacheRefinement`). This holds even when both connections initialise the same name and a setter reaches one host while the other's InitPacket is queued. |
| `arbitrary_peer` | MCArbitraryPeer / `arbitrary_peer.cfg` | pass | Whatever a peer writes (three frames of 14 kinds, including every bad first frame, unknown versions, unknown kinds, unsupported variants) and even if it closes, no cache is bound and no AddObject is sent to a connection whose handshake the Node has not accepted (`HandshakeGate`). A closed connection never leaves its read loop hanging, under the client's fairness only (`FairSpec`). |
| `wire` | MCWire / `wire.cfg` | pass | On bytes, with a handshake of either dialect, a refused version or a bad first frame, followed by up to two packets, three properties hold. `InboundFaithful`: every handler decodes exactly the fields the source wrote. `OutboundFaithful`: the source decodes exactly what the client meant from each InvokePacket, AddObject and Ping. `StopsOnlyOnForeignFrames`: the loop stops only after a frame no source of `Simple` writes (raw bytes, or a signal index past `Simple.Signals`). |
| `observers` | MCObservers / `observers.cfg` | pass | `main`'s observers against a source that may emit `iChanged` twice, with the WeakSet iterated in either order. `CallsReachSource`: every InvokePacket `main` makes reaches the source, in order (`initialize` binds the pipe before it emits, so `s.reset` is not dropped). `ScriptCompletes`: the source ends up with exactly `reset()`, `f = 99.5`, `f = 93.9`. |
| `heartbeat` | MCHeartbeat / `heartbeat.cfg` | pass | Frames (the first and three more) arrive whenever the read loop can run, and a shutdown may be requested at any point. Pings keep being written until a shutdown is requested (`HeartbeatPerpetual`), and no cancel recurses through an await cycle. Every Ping is written by a task whose sleep began after the last frame was read (`PingAfterQuietInterval`, spec 4.3 and section 8), whichever of the read loop and `sendHeartbeat` restarted the timer last. |
| `shutdown_absorbed` | MCHeartbeat | violation | `shutdown` cancels `Pipe.run` while it is scheduled to resume from `await self.timer.restart()`. The `CancelledError` is swallowed by `restart`'s `except CancelledError: pass` (179-181), `Pipe.run` keeps reading and pinging, `gather` never returns and `loop.stop()` never runs (ShutdownStopsLoop). |
| `source_closes` | MCQtSource / `source_closes.cfg` | violation | A host closes its only connection. End of stream raises out of `Pipe.run` (204) and `handle_exception` stops the whole client (`NodeRunning`), while spec section 7 says a connection error closes only that connection. |
| `stale_cache` | MCQtSource | violation | After a setter call the source changes and notifies, but the cache keeps the old value. |
| `unacquired_object` | MCQtSource | violation | A host that remotes an object the client did not acquire crashes it (AddObject for the last name, KeyError at 368). |
| `dropped_pipe_lingers` | MCArbitraryPeer | violation | A connection dropped by `onPipeError` keeps reading and stays bound. |
| `wire_non_bmp_name` | MCWire | violation | With an object name that has a character outside the BMP, `len(name)*2` undercounts the UTF-16 bytes. struct's `Ns` cuts the name, and the source reads the AddObject reply with a name ending in a lone surrogate (360-361; the same length is used at 488 and 493). |

Three client crashes have no run of their own, because the project keeps at
most twelve runs. No checked run reaches them, so their hazards name no
property.
* A host with no remoted object. `onObjectList` uses `name` unbound (360).
  Use `MCQtSource` with `Hosted <- MCHostedNone1`, `HostMayClose = FALSE` and
  `INVARIANT NodeRunning`.

The other two are reproduced by changing a cfg of `MCArbitraryPeer`, with
`INVARIANT NodeRunning`:
* A tombstone crash (330). The tombstone falls through to
  `Decoder(None).decodeU16()`. Use `FirstFrames <- MCBadFirst`,
  `PeerFrames <- MCGoodFirst`, `MaxCalls = 0` and `LateNames = {}`. The trace
  ends in `RejectFirst` then `OnTombstone`.
* A packet kind without a handler. `onPipeError` deletes `id(None)` (323).
  Use `PeerFrames` set to `{Bare("Ping")}` after `MCGoodFirst`. The trace
  ends in `OnUnknownKind`.

Bounds: two pipes, two names, three proxies, values 0..2, two application
calls in `qt_source` (so that the late acquire, the drop, both calls and both
handshake dialects all happen on both connections); one pipe and three peer
frames in `arbitrary_peer` (enough for handshake, a packet, and a second
packet after a rejection). `qt_source_closing` keeps two pipes that both
remote n1, so a cache can be rebound. It allows one call, enough for a
setter to change a host between two initialisations, and only the `u32`
dialect, which `qt_source` already covers together with `u8`. In `wire`,
three messages (MaxWrites) give a handshake and two packets. Two calls
(MaxCalls) give an InvokePacket next to the AddObject reply and a Ping on one
stream. The Ping is not counted as a call. Arguments are one int (5) and one
double (99). The source writes each message whole, and the client reads the header and
the body in separate steps. So every order of source writes and client
reads is explored, including a later message that is already buffered while
the first is still being probed. The host's replies are bounded by the calls. In `heartbeat`, three frames
after the first let a frame arrive while a timer task sleeps, while it
awaits its successor, and after a restart from `sendHeartbeat`. Six task ids are
enough (gathered ids stay pinned), since TLC would stop on the `Assert` if
they ran out. In `observers`, two `iChanged` emissions of two values let an
emission fall before, between and after the two writes of `change()`; the
InitPacket comes once, as the host sends it once per AddObject.

Fairness: weak fairness of each pipe's read loop, of the dispatch loop, of
`shutdown`, and (in `QtSource` only) of each host's serving actions;
`ArbitraryPeer.FairSpec` has the client's fairness alone, since a peer may go
quiet for ever. asyncio runs every ready
callback in FIFO order, so a task whose awaited data is available is never
starved; the host is a separate process assumed to keep serving. The
application's own actions (acquire, drop, calls) and the host's close carry
no fairness.

In `Heartbeat`, every scheduled task step and the read loop's resume are
weakly fair (asyncio runs the ready queue in order), and so is `Expire`
(time passes). Frame arrival is not fair, nor is a shutdown request (no
task need fail and no signal need come). Once requested, `ShutdownCancel`
and `ShutdownStop` are weakly fair: they are steps of the `shutdown` task.

`CHECK_DEADLOCK FALSE` in the client runs: the client legitimately waits forever on
its sockets when the source has nothing more to say, and after `shutdown`
nothing runs. The heartbeat runs also use it, because after `loop.stop()` nothing runs
and `main` ends. A stall before that would stop the Pings and fail
`HeartbeatPerpetual`.

In `Observers`, `Node.run` with a packet queued, a `change()` task whose
sleep has ended, and the source reading the client's packets are weakly
fair. The source's own `iChanged` emissions are not.

## 4. Plan

1. (done) `ReplicaClient`, `QtSource`, `ArbitraryPeer`: the connection read
   loop, the dispatch loop and handlers, the caches and proxies.
2. (done) `Heartbeat`: the `Timer` tasks of one pipe with asyncio
   cancellation semantics, and `shutdown`'s cancel and gather. Still to do:
   two `shutdown` tasks (a second signal) cancelling each other, and
   composition with `ReplicaClient`, so that the timer of a dropped pipe is
   seen to keep running.
3. (done) `Codec` and `Wire`: the byte layer, the first-frame probe in both
   dialects, the decoders of every handler, the client's packing, and the
   `len(name)*2` length for names outside the BMP.
4. (done) `ReplicaCache`, with `QtSource` shown to refine it.
5. (done) `Observers`: `main`'s observers, `Signal` emission in subscription
   order over the WeakSet in any order, and the `change()` task.
6. The ObjectList checksum (358) is decoded and never compared. A model
   in which a source's class differs from `Simple` (another .rep) would show
   what the client does with a mismatched signature.

## 5. Not modelled

* `Signal.__repr__` (text only), `Simple.pushI` (`callSlot(0, i)`, the same
  write as `reset`, never called by `main`) and the type tables of `Simple`.
* Two `shutdown` tasks at once (a second signal during shutdown): the
  signal handlers of `main` (609-613) are modelled as one shutdown request.
* `Pipe.__init_subclass__` / the scheme registry and the unknown-scheme branch
  of `Node.connect` (314-316): static configuration at import time.
* Logging, `print`, argument parsing, the `Simple` type descriptor's tables
  (abstracted to the value of one property vector in `ReplicaClient`, to the
  argument types `i` and `f` in `Wire`).
* Doubles other than integers below 2^20: the encoding of fractions and
  exponents is beyond what TLC's 32-bit integers express cheaply, and no
  handler branches on a double's value.
* The source's Qt internals: only its protocol behaviour as the spec states it.
