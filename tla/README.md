# reverse-http in TLA+

reverse-http serves HTTP through tunnels that the *worker* opens: it dials the
*proxy* over TLS and then acts as the HTTP/2 server on that connection; the proxy
accepts client requests and forwards each one as an HTTP/2 stream on a tunnel it
selects. Both sides share the connection code in `internal/h2`.

The modules here model the concurrent core of both sides: flow control, the writer
goroutine, stream bodies, pooled stream objects, the response writer, the worker's
frame loop, watchdog and connection pool, and the proxy's tunnels, forwards and
lifecycle. TLC checks them on small instances; TLAPS proves the central invariants for
every value of the constants. `PROJECT.json` maps each definition to the lines it models
and lists the runs, the hazards and the theorems.

## 1. The system

| Part | State | Operations | Modelled by |
|---|---|---|---|
| Send credit (`h2/flow.go`) | connection window, initial window, per-stream windows, `dead`, condition variable | `Reserve`, `AddConn`, `AddStream`, `ApplyInitialWindowDelta`, `MarkDead` | `SendCredit`, `FlowControl` |
| Writer goroutine (`h2/writer.go`) | `writeQ`, `writeShutdown`, `writeDeadCh`, pooled done channels | `submit`, `submitAsync`, `runWriter` with its exit and drain, `ShutdownWriter` | `Writer` |
| Body queue (`h2/stream.go`) | chunk queue, `qHead`, `dataDone`, `dataErr`, pooled buffers | `PushData`, `CloseData`, `FailBody`, `Read`, `Close`, `Release`, `Acquire` | `StreamBody`, `BodyPipe` |
| Stream objects (`h2/stream.go`, `h2/conn.go`) | `streamPool`, `Conn.streams` | `Acquire`, `AddStream`, `GetStream`, `activeStreamWindows`, `FailAllStreams`, `RemoveStream`, `Release` | `StreamPool` |
| Response writer (`writer.go`, `stream.go`) | status, declared length, latched error | `WriteHeader`, `Write`, `Flush`, `endStream`, `serveStream`, panics | `Response`, `ResponseWire` |
| Worker frame loop (`handler.go`, `h2/conn.go`) | read deadline, CONTINUATION state, drain flags | `serve`, `BeginDrain`, `RemoveStream`, teardown | `ServeLoop` |
| PING watchdog (`h2/conn.go`) | read deadline, pending PING and its deadline | `SetIdleDeadline`, `SendOrCheckPing`, `HandlePingAck` | `Watchdog` |
| Connection pool (`pool.go`, `connection.go`) | slots, registered tunnels, two WaitGroups, `shutdownCh` | `maintainConnection`, `dial`, the reaper, `Shutdown`, `Ready` | `Pool` |
| Proxy tunnels and lifecycle (`proxy/tunnel.go`, `proxy/proxy.go`) | attached workers, `tunnelListener`, `tunnelAccepts`, `shutdownCh`, drain flags | `runTunnelAccept`, `acceptTunnel`, `serveTunnel`, `handleProxyFrame`, `attach`, `detach`, `Shutdown`, the base context of `ListenAndServePublic` | `Proxy` |
| Proxy forwards (`proxy/forward.go`, `proxy/worker.go`) | both stream registries, `streamsMu`, `respOnce`, the body pump | `forward`, `openStream`, `waitForResponseHeaders`, `writeResponse`, `streamRequestBody`, `failAllStreams` | `Forward`, `Relay` |

How they interact. On every tunnel one frame reader runs `serve`. It adds credit,
pushes body chunks, starts a goroutine per stream, and is the only goroutine that
tears the tunnel down. Handlers reserve credit, hand frames to the writer goroutine
and wait for the outcome. A handler's last act, `RemoveStream`, may complete a drain
and wakes the reader by moving its read deadline into the past; `Pool.Shutdown` does
the same. On the proxy each public request has a goroutine for `forward` and, if it
carries a body, one for `streamRequestBody`; the tunnel's frame reader delivers the
response to the first, and teardown must release both. Stream objects, body buffers and
done channels come from pools that all tunnels of the process share.

## 2. Modules

A critical section is one action; work done after an unlock is an action of its own,
so that the interleavings the code allows are the ones TLC explores.

- **SendCredit.** A writer is in `reserve`, `parked` in `cond.Wait`, `woken`, or in
  `send`. `role` is chosen initially: the worker opens a stream on the frame reader
  (`Dispatch`), the proxy reads the initial window on the request's goroutine and
  registers the stream later (`InitialStreamWindow`, `OpenStream`). Applying SETTINGS
  is two actions: the snapshot of the registry and the delta under `SendCredit.mu`.
  Windows are int32 with wrap-around at `MaxInt32`.
- **FlowControl** extends SendCredit with FIFO channels and a conforming peer that
  accounts for DATA as RFC 9113 prescribes and returns credit. `offered` lists the
  initial windows the peer has announced and `acked` counts those it has seen
  acknowledged. The peer is external. A SendData may fail before `MarkDead` is called,
  since the writer goroutine can exit first; its bytes then stay reserved.
- **Writer.** Several connections share `donePool`. `submit` is take channel, enqueue
  (or see the writer dead), wait for the result or for `writeDeadCh`, return the
  channel.
- **BodyPipe / StreamBody.** BodyPipe is the promise: bytes in order, the end only
  after the last byte, and a recycled pipe that starts empty. StreamBody is the code,
  with notifications outside the lock, compaction of the queue and pooled buffers; the
  refinement maps the unread bytes of buffer and queue to the pipe. It follows one
  object from use to use: the handler returns, `Deregister` takes it out of the
  registry, `Release` drains it (`DrainBody`) and then clears its fields without the
  lock (`ReleaseBody`), `Acquire` hands it out again. A frame handler looks the stream
  up (`LookUp`, which leaves in `todo` the calls it will make) and makes those calls
  later, whatever has become of the stream; `late` has the buffers it pushed after the
  drain.
- **StreamPool.** A frame handler is a lookup under the registry's lock and a later
  use of the object; what is done to an object is tagged with the stream the frame was
  for.
- **ResponseWire / Response.** ResponseWire is what a peer may see of a response:
  which frame may follow those already on the wire. Response is `responseWriter` and
  `serveStream` around a handler that makes any calls, in any order, returns or
  panics, on a transport that may break.
- **Relay** extends Response with the other end of the stream: the proxy's frame
  reader takes the frames off the wire (`Deliver`) and the forwarder copies bytes to
  the client. The tunnel may be lost, and the client may leave, at any point.
- **Forward / Proxy.** Forward has the goroutines of a public request: pick a worker,
  open a stream under `streamsMu`, wait (one action per branch of the select), copy,
  join the pump, leave both registries. `streamsMu` is held from `OpenCheck` to
  `SendRequestHeaders` or `RollBack`, and the frame reader's actions wait for it.
  `ctx` is the request's context: live, done because the client has left, or cancelled
  by Shutdown through the base context of `ListenAndServePublic` (`BaseCancelled`; a
  server of the user's own around `Handler` need not do it). Calls on the public
  connection take as long as the client likes: forward is in `write` during `w.Write`,
  the pump in `read` at its select or in `body.Read`, and in `closing` during the
  deferred `body.Close`, in which net/http reads on. In `send` the pump reserves and
  sends; a pump that `Reserve` keeps waiting is one that does not take `PumpSends`.
  Proxy adds the phases of a tunnel, one action per step and per deferred call, the
  frames that touch a forward, SETTINGS that set and move the stream limit, the accept
  loop and the four steps of `Shutdown`. The worker's end of a stream is external.
  `BeginDrain` and `RemoveStream` are one step each here; ServeLoop has the finer grain.
- **ServeLoop.** The frame reader, handlers and Pool.Shutdown around the read deadline
  and the drain flags. `BeginDrain` and `RemoveStream` are two steps each.
- **Watchdog.** Discrete time. The reader reacts to its deadline at once.
- **Pool.** Slots, tunnels, reapers and callers of Shutdown. A tunnel's `serve` is
  reduced to its phases. `Conns` are reused once collected, so slots dial for ever.
- **MCWriter, MCStreamPool** give TLC the distribution of goroutines over connections,
  and the symmetry of StreamPool's objects and streams.
- **Totals** has running totals, sums over finite sets and concatenations, as
  recursive functions; FlowControl, StreamBody and ResponseWire are stated with them.
- **FlowControlProofs, StreamProofs, ConnProofs, ServeLoopProofs, PoolProofs,
  ProxyProofs, ResponseProofs** hold the theorems of the modules they extend.
  StreamProofs is about StreamPool and StreamBody, ConnProofs about Writer and
  Watchdog; names in StreamBody and Watchdog carry a prefix (`BodySpec`, `WatchSpec`)
  so that they can stand beside them. **SequenceLemmas** has the facts about Totals
  that several of them cite.

Definitions named `X_something` and marked "mutant" are faulty variants of `X`;
replacing `X` by one must make TLC report the property it is listed with.

## 3. What TLC checks

| Run | Shows | Bounds |
|---|---|---|
| `FlowControl` | no lost wake-up, exact connection credit, exact stream credit on the worker, the peer's own accounts never overrun, credit conserved around the loop, every body gets out unless a write fails or the peer's window is 0, death releases all writers | 2 bodies of up to 2 bytes, connection window 1, one SETTINGS change to 0 or 2 |
| `Writer` | `submit` is synchronous and truthful, GOAWAY precedes Close, every submit returns, teardown completes | 2 handlers and the reader, queue of 2 |
| `Writer_shared_pool` | violation, see section 6 | 2 connections |
| `StreamBody` | use after use the queue implements BodyPipe, no buffer is in two places or lost but to a late push, no lost wake-up, Reads return | 4 bytes in chunks of 1 or 2, compaction after 1 slot |
| `StreamPool_single` | registry entries are live, frames reach only their own request, teardown reaches all | 1 connection, 3 streams, 2 objects |
| `StreamPool_shared` | violation, see section 6 | 2 connections, 1 object |
| `Relay` | legal frame sequence, complete body on a clean end, every stream ended; the public client gets that status and that body | 4 calls, lengths 0 to 2 |
| `Proxy` | streams are reset or ended when a forward returns, clients are answered unless they left or Shutdown cancelled them, the worker's stream limit is kept, lost tunnels release the forwards that their own clients do not hold, nil Shutdown leaves no worker, Shutdown returns unless a worker is silent | 2 requests, 1 tunnel with room for 0 or 1 streams, 3 requests or disturbances (`MaxLoad`) |
| `ServeLoop` | no drain missed; drain, shutdown and silence end the loop | 3 streams |
| `ServeLoop_drain_kills` | violation, see section 6 | 2 streams |
| `Pool` | counters exact, nil Shutdown leaves nothing, tunnels waited for are registered, Shutdown drains | 2 slots, 2 tunnels, 2 callers |
| `Watchdog` | silence bounded, responsive peers spared | interval 4, timeout 2, 24 ticks |

Why the bounds are enough to be interesting: two streams suffice to compete for
connection credit, and a wake-up can be lost to the other one. Windows reach zero
and go negative after SETTINGS. A writer queue of 2 with three submitters fills up.
With three streams and two objects an object is recycled while its former stream's frame
is being handled. Three streams let a drain overlap with one that ends, one that runs
and one that opens. Two tunnels let one drain under its reaper while the slot's next
one is dialled. Two requests for a tunnel with room for one are enough to contend for
`streamsMu` and the limit, and one of them has a body to pump; every pair of a
disconnect, a transport failure and a GOAWAY still fits beside one request, and so does
Shutdown, which counts twice in `Load`. Fatal frames, errors of the client's body or
of a write to it and changes of the limit are not counted. All bounds are constants or guards named in the modules
(`MaxCredit`, `MaxWrite`, `MaxLoad`, `MaxCalls`, `MaxBytes`, `MaxSettings`, `MaxTime`,
`MaxCL`).

Deadlock checking is off where the system may stop: closed connections, finished
responses, pools that are shut down.

Fairness. Weak fairness of each goroutine that can run (the Go scheduler), of timers
(`IdleTick`), and of writes to the transport, which succeed or fail. Handlers are
assumed to return in ServeLoop (`DrainEnds`, `ShutdownEnds`) and in Pool. Nothing is
assumed of the peer, with two exceptions: FlowControl's peer reads and returns credit,
and `Pool`'s `AnsweringSpec` assumes that a peer sends its SETTINGS once the tunnel
is up. In Proxy the goroutines of forwards, pumps, tunnels and `Shutdown` run where they do
not wait for others. No worker is assumed to send anything, no client to send, to read
or to leave and no context to expire, so `Preface`, `Settings`, `PeerHeaders`,
`PumpReads`, `CopyWrites` and their like are not fair. Once the client has left, its
connection fails, and the calls that forward and pump have on it return (`BodyReturns`
and `WriteReturns` are fair then).

## 4. What is proved

TLAPS checks these for every value of the constants allowed by the named assumptions.
The type invariants of these modules are proved and not repeated in the runs.

- **FlowControlProofs**, SendCredit: `TypeCorrect`, `ConnCredit` (exact connection
  credit), `Wakeups` (no lost wake-up), `WorkerStreamCredit` (exact stream credit on
  the worker). Exactness needs that int32 addition does not wrap, which follows from
  the conformance of the peer (`PeerMayGrow`) and from the window being at most what
  was granted. Stream credit needs a strengthening: while SETTINGS are applied, the
  snapshot contains every registered stream, since on the worker only the frame reader
  registers one.
- **FlowControlProofs**, the loop: `LoopIsSendCredit` (the loop implements SendCredit,
  which carries the theorems above over), `CreditConserved` and `NeverOverrun`, for
  any finite set of streams (`StreamAssumption`). `LoopInv` says that window, reserved
  bytes, DATA in flight, bytes the peer owes and WINDOW_UPDATEs in flight always add
  up to the credit at the start. `NeverOverrun` needs more, since what counts is the
  window the peer will have when a frame *arrives*. `FlowInv` adds `SettingsInOrder`
  (the bridge's initial window is the one of the SETTINGS it has applied, those in
  flight are the next of `offered`), `WithinWindow` (a stream's window and all its
  bytes on their way round fit the initial window) and `Covered` (each prefix of the
  frames in flight fits the window after the SETTINGS acknowledged in that prefix),
  the last two as long as the SETTINGS concerned only raise the window (`Raised`).
- **StreamProofs**, StreamPool: `TypeCorrect`, `Registry`, `NoSharing`,
  `TeardownComplete`, and `OwnFrames` for a process with one connection. The invariant
  is `Ownership`: an object in use is not pooled and belongs to one request, and a
  request is registered exactly while its handler runs. `OwnFrames` adds `HeldOwn`:
  what a frame reader has looked up belongs, among its own connection's streams, to
  the stream it looked up. That part holds for any number of connections; only the
  last step needs a single one, and the run `StreamPool_shared` shows that it does.
- **StreamProofs**, StreamBody: `BodyWakeups`, `BodyBuffers`, `BodyBytesOwned` and
  `BodyIsPipe`, the refinement of BodyPipe, for any chunk sizes, number of buffers and
  compaction threshold. `BodyInv` says where each pooled buffer is (`Held`: in one of
  pool, queue and reader, or in none and then in `late`), that the queue of a drained
  object has late buffers only (`LateInv`), which calls a handler may still make
  (`Duties`), when the reader has bytes of its own (`ReaderInv`), and that a parked
  reader has nothing to return or is about to be woken. The refinement then shows for each action what it
  does to the unread bytes: the rest of the reader's chunk followed by the queue from
  `qHead` on, which compaction leaves as it is. The last two are stated for readers
  that do not read a body they have closed (`~ReadsAfterClose`); section 6 says what
  happens otherwise.
- **ResponseProofs**: `ResponseTerminated`, `ResponseComplete`, `ResponseIsLegal` (the
  refinement of ResponseWire) and `RelayedInFull`, for any sequence of calls and any
  lengths. `ResponseInv` relates the fields of responseWriter to the wire: which flag
  stands for which frame (`HeadersInv`), that the bytes on the wire are those counted
  in `written` and, unless a Write failed, those the handler asked for (`BodyInv`),
  and that a latched error comes from the transport or from the declared length
  (`EndInv`). For the relay, `RelayInv` says that the bytes of the frames handled so
  far are with the client or queued, and `Whole` that a prefix of the wire which has
  END_STREAM has the entire body, since only RST_STREAM may follow.
- **ServeLoopProofs**: `TypeCorrect` and `Drain` (no drain missed), for any number of
  streams. The property is inductive with the type invariant.
- **ConnProofs**, Watchdog: `WatchTypes`, `Silence`, `Responsive`, for all intervals
  with `AnswerTime <= PingTimeout < PingInterval`. The invariant relates the deadline
  to the last frame heard (one interval without, two with a PING outstanding) and the
  PING's own deadline to the next look at it.
- **PoolProofs**: `PoolTypes`, `PoolCountersExact`, `PoolRegistration`,
  `PoolNilMeansDrained`, for any finite sets of slots, tunnels and callers. The
  counters are equated with cardinalities of the sets they stand for; `Owned` says
  which goroutine a tunnel belongs to, without which a reaper's `Done` could not be
  matched with its `Add`. Once `maintainers` is zero nobody is left who could add to
  it, which is what makes `Drained` stable.
- **ProxyProofs**: `ProxyTypes`, `ProxyStreamsSettled`, `ProxyClientsAnswered`,
  `ProxyNilMeansNoWorkers`, `ProxyLimitRespected`, for any finite sets of requests and
  tunnels and any limits. `Tied` relates, for one request, the place of its forward to
  the worker's end of the stream, the pump's outcome, the answer and the context: past
  the copy loop a stream that is still open at the worker has been reset, or its tunnel
  is lost, and a request without an answer has a context that is done. `Roster`
  equates `workers` and `tunnelAccepts` with sets of phases, and says that no tunnel
  is past the check of `shutdownCh` in `attach` after a nil Shutdown. The limit needs
  `Owned`: what the worker counts is a subset of `Worker.streams`, whatever the limit
  was when those streams were opened.
- **ConnProofs**, Writer: `WriterTypes` for any number of connections, and
  `WriterSynchronous`, `WriterNilMeansWritten`, `WriterGoAway` for a process with one
  connection (`SingleConn`), any number of submitters and any queue size. `Exclusive`
  says that a done channel is in the pool or has one holder. `Pending` says that until
  `writeDeadCh` is closed every intent the writer holds or will take is `Live` (its
  submitter is still in the same `submit`, with an empty channel) and that no two
  share a channel. `Replies` says that an ok in a channel is awaited by the goroutine
  whose frame it is about. `GoAwayBeforeClose` adds `Death` (why the writer may have
  stopped) and `GoAwayOut`. With a second connection `Pending` fails, and the run
  `Writer_shared_pool` shows the consequence.

What a recursive function computes (a total, a concatenation) is proved by induction
over its domain, which SequenceLemmas derives from the least element of a set of
naturals (`LeastNatural`, `SetInduction`).

Every safety property of a passing run, and every refinement, is the statement of a
theorem. Model-checked only: liveness (TLAPS handles neither fairness nor ENABLED),
that is `DeadReleasesWriters`, `EveryBodyIsSent`, `SubmitReturns`,
`TeardownCompletes`, `ReadReturns`, `TunnelLossReleases`, `ProxyShutdownEnds`,
`DrainEnds`, `ShutdownEnds`, `SilentPeerDetected` and `ShutdownDrains`. The
violations of section 6 are counterexamples of TLC.

## 5. What the models leave out

Frame contents, HPACK, header formatting and filtering, URL parsing beyond accepted
or rejected, TLS, logging. A write to the transport returns: a peer that stops
reading, and so stalls the writer goroutine, is not modelled. Frames are atomic.
Receive-side flow control credits each byte on arrival and has no state. The proxy's
selector is any choice among the workers on offer, since `Options` accepts any
`Selector`; the two that are supplied are pure choices. `ListenAndServePublic` is
modelled by the base context it gives its requests; the rest of it and the public API
delegate to net/http and to the parts above. An increment that would wrap an int32
window is one that RFC 9113 forbids, and the peer of FlowControl does not send it. In
Proxy a stream object is its request: the recycling of objects is StreamPool's
subject. The error, header and status tables are data.

## 6. Where the code and its comments disagree

With a run of their own:

- `Writer_shared_pool`: a submit that returned because the writer died gives its done
  channel back to the process-wide pool while its intent may still be answered. A
  submit on another connection can take that channel, is released by the stale reply,
  and returns before its own frame is processed (`h2/writer.go:118`, against the
  comment at 245).
- `StreamPool_shared`: between lookup and use a Stream object can be released and
  re-acquired by another connection, so that a frame acts on a foreign request: in
  TLC's trace its END_STREAM ends the other request's body (`h2/conn.go:569`, against
  the comment at 559).
- `ServeLoop_drain_kills`: `RemoveStream` counts under the lock and loads `draining`
  after it. If a stream opens and the drain begins in between, the drain completes at
  once and the new stream is failed (`h2/conn.go:252`, against 338 and
  `drain_test.go:21`).

Found while modelling, without a run; the formula or setting that shows each:

- The proxy reads the initial window before the stream is registered
  (`proxy/forward.go:73`): a SETTINGS change in between misses it. `StreamCreditExact`
  without its condition on `role` fails.
- DATA reserved before a SETTINGS frame that lowers the initial window can be queued
  behind its ACK (`h2/flow.go:60`, `h2/writer.go:146`): `PeerNeverOverrun`
  without its condition `Raised` fails.
- `Close` returns the buffer of a half-read chunk and keeps the slice
  (`h2/stream.go:233`): a handler that reads a body it has closed is handed bytes of a
  buffer that may be someone else's. `BufferedBytesOwned` fails with
  `ReadsAfterClose = TRUE`.
- `Release` drains the queue and clears the object's fields without the lock
  (`h2/stream.go:85`, "drains and returns any queued DATA buffers"). A DATA handler that
  looked the stream up before `RemoveStream` can push in between, and that buffer never
  returns to the pool: `AllBuffersReturned` fails in StreamBody. The comment of
  `FailAllStreams` (`h2/conn.go:270`) guards against this race for teardown only.
- A Content-Length that is empty, or set after `prepare`, is forwarded
  (`writer.go:100`): `ForwardsOnlyLengths` fails in Response.
- `SetIdleDeadline` can overwrite a poke (`h2/conn.go:616`): `PokeReachesReader` fails
  in ServeLoop. The loop still ends on its next idle tick, which is what `DrainEnds`
  and `ShutdownEnds` establish.
- `Shutdown` misses a tunnel registered after its snapshot; if that tunnel's peer never
  sends SETTINGS, nothing ends it (`pool.go:59`): `ShutdownDrains` fails under
  `FairSpec`.
- `Pool.Shutdown` "drains in-flight requests within your deadline" (README of the
  repository, line 19), but the serve loop it wakes fails every registered stream
  (`handler.go:19`): what it waits for, and what `ShutdownDrains` and
  `NilMeansDrained` speak of, are goroutines and tunnels, not requests.
- A slot whose tunnel drains waits out the dial back-off, where the comment in
  `connection.go:139` speaks of an immediate replacement.
- A silent peer is given up after two intervals, where a test's comment says interval
  plus timeout (`h2/conn.go:360`): `DeadByPingTimeout` fails in Watchdog.
- HEADERS on a stream that is still registered (request trailers) are ignored without
  being decoded (`handler.go:125`, "ignore to stay forgiving"), so that the HPACK
  table misses their block; on a stream whose handler has returned they open a new one.
  The proxy of this repository sends no trailers. Not modelled: the table is data.
- `NextStreamID` adds 2 for ever (`h2/conn.go:223`): nothing retires a tunnel before its
  IDs pass 2^31 - 1. Not modelled: a request's ID is its name.

On the proxy, each a behaviour of module Proxy, Forward or Relay unless noted:

- A worker is attached before its SETTINGS have been read (`proxy/tunnel.go:93`), so
  streams may be opened while the limit is still unknown. `LimitRespected` is stated
  for tunnels that have reached their frame loop.
- Interim (1xx) HEADERS are taken for the response (`proxy/worker.go:194`);
  `ResponseRelayed` excepts them.
- An early response or RST_STREAM does not wake a pump parked in `Reserve`
  (`h2/flow.go:56`), and `forward` joins the pump (`proxy/forward.go:49`): with a body
  larger than the window it returns only when the tunnel dies.
- After a disconnect in the middle of a response nothing wakes the body reader but what
  the worker sends (`proxy/forward.go:120`).
- `streamRequestBody` "returns promptly if the worker has detached"
  (`proxy/forward.go:178`), but it looks at `worker.done` between two reads only: a pump
  in `body.Read`, or in `body.Close` after it, goes on when the client sends or leaves,
  and `forward` joins it. `w.Write` in the copy loop waits for the client likewise.
  `TunnelLossReleases` excepts forwards that are `HeldByClient`, and fails without that.
- `Shutdown` promises public callers "a clean 502" (`proxy/proxy.go:281`; "5xx to public"
  in the repository's README, line 247). For requests that came in through
  `ListenAndServePublic` it also cancels their context (`proxy/proxy.go:265`), and a
  forward that sees this first leaves without a status (`proxy/forward.go:99`), which
  net/http turns into an empty 200. `CleanShutdown` fails in Proxy; `ClientAnswered`
  excepts requests that Shutdown has cancelled.
- `Options.MaxConcurrentStreams` speaks of serialisation when a worker is at its limit
  (`proxy/proxy.go:48`); `openStream` refuses and the client gets 503
  (`proxy/worker.go:147`), which is what `Refuse` models. The option is also what the
  proxy advertises to workers, which open no streams.
- The watcher's select may find the context and its own done channel both ready after
  the copy has ended, and reset a stream that is finished (`proxy/forward.go:146`).
  Not modelled: it needs the stream object's ID after `Release`.
- Streams of the proxy are acquired off the frame reader, so the stale use of
  `StreamPool_shared` needs only one tunnel there.
- A chunked response whose tunnel is lost half-way ends cleanly at the client
  (`proxy/forward.go:166`). `ResponseRelayed` is stated for ends that were the worker's.
- A GOAWAY between the checks of `openStream` and its registration completes the drain
  on an empty registry, and the tunnel ends under the new stream, which is answered 502
  (`proxy/worker.go:144`, `proxy/tunnel.go:208`).
- `Shutdown`: a connection accepted before the listener closed may be counted after
  `Wait` saw zero (`proxy/proxy.go:237`); `attach` then refuses it. A tunnel that
  attaches between its check and the snapshot is not woken, and the reads of preface
  and first SETTINGS have no deadline, so `ProxyShutdownEnds` excepts tunnels that are
  `Stalled`. A listener registered after `Shutdown` has looked is not closed, and
  `ListenAndServePublic` does not return on `Shutdown` (`proxy/proxy.go:258`).

## 7. Plan

1. Writer with a transport that stalls, the tunnel's teardown in that case, and two
   ends with full queues facing each other.
2. Header blocks and the HPACK table across refused streams.
3. A tunnel composed of ServeLoop, StreamPool and Writer; StreamPool in the proxy's
   role.
4. The supplied selectors as operators against a reference definition.
5. Proofs: stream credit on the proxy from the registration of a stream on, and that
   Proxy's forwards implement Relay's for each request.
