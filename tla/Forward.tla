------------------------------ MODULE Forward ------------------------------
(***************************************************************************)
(* The proxy's forwards (internal/proxy/forward.go) on their tunnels       *)
(* (internal/proxy/worker.go): a request picks a worker, opens a stream    *)
(* under streamsMu, waits for the response, copies it, joins its body pump *)
(* and leaves both registries.  The tunnel's frame reader, its teardown    *)
(* and the proxy around it are module Proxy.                               *)
(*                                                                         *)
(* The frames of the worker take effect when the frame reader handles      *)
(* them; bytes are not counted here (Relay and FlowControl do that).       *)
(***************************************************************************)
EXTENDS Integers, FiniteSets

CONSTANTS
    Requests,      \* public requests; each is forwarded once
    WithBody,      \* those that carry a body
    Tunnels,       \* connections of workers; each is accepted once
    Limits,        \* the SETTINGS_MAX_CONCURRENT_STREAMS of the workers
    MaxLoad        \* bound on requests started plus disconnects, transport
                   \* failures, GOAWAYs and, counted twice, Shutdown

ASSUME LimitAssumption ==
    Limits \subseteq Nat /\ IsFiniteSet(Requests) /\ IsFiniteSet(Tunnels)

(* Stands for 2^32 - 1, which no number of streams reaches.  A first        *)
(* SETTINGS without a limit leaves it at this: then it is one of Limits.    *)
NoStreamLimit == Cardinality(Requests) + 1

VARIABLES
    workers,             \* Proxy.workers (in attach order)
    phase,               \* per tunnel: where its accept goroutine is
    limit,               \* Conn.peerMaxStreams
    draining, drained,   \* Conn.draining, Conn.drainDone closed
    broken,              \* the transport fails: writes fail, reads will
    shutdown,            \* Shutdown: "idle", "closing", "poking", "wait", "nil", "ctx"
    streams,             \* keys of Worker.streams
    registry,            \* keys of Conn.streams
    streamsMu,           \* requests inside openStream on this tunnel
    fwd,                 \* per request: where forward is
    at,                  \* the worker picked for it
    resp,                \* respOnce: "none", "headers" or "failed"
    body,                \* the response body: "open", "eof" or "err"
    pump,                \* streamRequestBody: "none" if there is no body,
                         \* "read", "send", "closing", or its outcome
    ctx,                 \* req.Context(): "live", or done because the client
                         \* has "left" or Shutdown has "cancelled" it
    rst,                 \* we have sent RST_STREAM
    peer,                \* the worker's end of the stream
    answer               \* what the public client was told

tunnelVars == <<workers, phase, limit, draining, drained, broken>>
registryVars == <<streams, registry, streamsMu>>
requestVars == <<fwd, at, resp, body, pump, ctx, rst, peer, answer>>

NoWorker == "nil"

ForwardInit ==
    /\ workers = {}
    /\ phase = [t \in Tunnels |-> "none"]
    /\ limit = [t \in Tunnels |-> NoStreamLimit]
    /\ draining = [t \in Tunnels |-> FALSE]
    /\ drained = [t \in Tunnels |-> FALSE]
    /\ broken = [t \in Tunnels |-> FALSE]
    /\ streams = [t \in Tunnels |-> {}]
    /\ registry = [t \in Tunnels |-> {}]
    /\ streamsMu = [t \in Tunnels |-> {}]
    /\ fwd = [r \in Requests |-> "pick"]
    /\ at = [r \in Requests |-> NoWorker]
    /\ resp = [r \in Requests |-> "none"]
    /\ body = [r \in Requests |-> "open"]
    /\ pump = [r \in Requests |-> IF r \in WithBody THEN "read" ELSE "none"]
    /\ ctx = [r \in Requests |-> "live"]
    /\ rst = [r \in Requests |-> FALSE]
    /\ peer = [r \in Requests |-> "idle"]
    /\ answer = [r \in Requests |-> "none"]

-----------------------------------------------------------------------------
(* The writer goroutine takes intents until ShutdownWriter. *)
Writable(t) == ~broken[t] /\ phase[t] \in {"settings", "loop", "dead", "failed"}

(* Send.MarkDead has run. *)
Dead(t) == phase[t] \in {"dead", "failed", "detached", "closing", "gone"}

Detached_never(t) == FALSE  \* mutant: w.detach is not called

(* Worker.shutdownCh is closed. *)
Detached(t) == phase[t] \in {"detached", "closing", "gone"}

Load ==
    Cardinality({r \in Requests : fwd[r] # "pick"})
    + Cardinality({r \in Requests : ctx[r] = "left"})
    + Cardinality({t \in Tunnels : broken[t]}) + Cardinality({t \in Tunnels : draining[t]})
    + (IF shutdown = "idle" THEN 0 ELSE 2)

Unlocked(t) == streamsMu[t] = {}

Goto(r, l) == fwd' = [fwd EXCEPT ![r] = l]

Answer_refusals(r, a) ==  \* mutant: a 502 is not written
    IF a = "502" THEN UNCHANGED answer ELSE answer' = [answer EXCEPT ![r] = a]

Answer(r, a) == answer' = [answer EXCEPT ![r] = a]

SendRST_lost(r) == UNCHANGED rst  \* mutant: RST_STREAM is not queued

SendRST(r) == rst' = [rst EXCEPT ![r] = @ \/ Writable(at[r])]

(* RemoveStream: while draining, the last removal completes the drain.  The *)
(* code loads draining after it has counted; ServeLoop has those two steps. *)
RemoveStream(r) ==
    LET t == at[r] IN
    /\ registry' = [registry EXCEPT ![t] = @ \ {r}]
    /\ drained' = [drained EXCEPT ![t] = @ \/ (draining[t] /\ registry[t] \subseteq {r})]

-----------------------------------------------------------------------------
(* availableWorkers and Selector.Pick.  A selector may be the user's: it    *)
(* picks any worker on offer, or none.  The worker's inFlight counts its    *)
(* forwards from here to "done".                                            *)

Available == {t \in workers : ~draining[t]}

Pick(r) ==
    /\ fwd[r] = "pick" /\ Load < MaxLoad
    /\ \/ /\ Answer(r, "503")
          /\ Goto(r, "done")
          /\ UNCHANGED at
       \/ \E t \in Available :
             /\ at' = [at EXCEPT ![r] = t]
             /\ Goto(r, "open")
             /\ UNCHANGED answer
    /\ UNCHANGED <<tunnelVars, registryVars, resp, body, pump, ctx, rst, peer>>

-----------------------------------------------------------------------------
(* openStream. *)

Saturated_past(t) == Cardinality(streams[t]) > limit[t]  \* mutant: one too many

Saturated(t) == Cardinality(streams[t]) >= limit[t]

Refuse(r) ==
    LET t == at[r] IN
    /\ fwd[r] = "open"
    /\ Unlocked(t)
    /\ draining[t] \/ Saturated(t)
    /\ Answer(r, "503")
    /\ Goto(r, "done")
    /\ UNCHANGED <<tunnelVars, registryVars, at, resp, body, pump, ctx, rst, peer>>

OpenCheck(r) ==
    LET t == at[r] IN
    /\ fwd[r] = "open"
    /\ Unlocked(t)
    /\ ~draining[t] /\ ~Saturated(t)
    /\ streamsMu' = [streamsMu EXCEPT ![t] = {r}]
    /\ Goto(r, "register")
    /\ UNCHANGED <<tunnelVars, streams, registry, at, resp, body, pump, ctx, rst,
                   peer, answer>>

Register(r) ==
    LET t == at[r] IN
    /\ fwd[r] = "register"
    /\ registry' = [registry EXCEPT ![t] = @ \cup {r}]
    /\ streams' = [streams EXCEPT ![t] = @ \cup {r}]
    /\ Goto(r, "send")
    /\ UNCHANGED <<tunnelVars, streamsMu, at, resp, body, pump, ctx, rst, peer, answer>>

SendRequestHeaders(r) ==
    LET t == at[r] IN
    /\ fwd[r] = "send"
    /\ Writable(t)
    /\ streamsMu' = [streamsMu EXCEPT ![t] = {}]
    /\ peer' = [peer EXCEPT ![r] = "open"]
    /\ Goto(r, "wait")
    /\ UNCHANGED <<tunnelVars, streams, registry, at, resp, body, pump, ctx, rst, answer>>

(* submit returned an error: roll back and answer 502. *)
RollBack(r) ==
    LET t == at[r] IN
    /\ fwd[r] = "send"
    /\ ~Writable(t)
    /\ streams' = [streams EXCEPT ![t] = @ \ {r}]
    /\ RemoveStream(r)
    /\ streamsMu' = [streamsMu EXCEPT ![t] = {}]
    /\ Answer(r, "502")
    /\ Goto(r, "done")
    /\ UNCHANGED <<workers, phase, limit, draining, broken, at, resp, body, pump,
                   ctx, rst, peer>>
-----------------------------------------------------------------------------
(* waitForResponseHeaders: one branch of the select per action. *)

Respond(r) ==
    /\ fwd[r] = "wait"
    /\ \/ /\ resp[r] = "headers"
          /\ Answer(r, "200")
          /\ Goto(r, "copy") \/ Goto(r, "write")
       \/ resp[r] = "failed" /\ Answer(r, "502") /\ Goto(r, "join")
    /\ UNCHANGED <<tunnelVars, registryVars, at, resp, body, pump, ctx, rst, peer>>

(* Nothing is written: net/http makes an empty 200 of it, if the client is   *)
(* still there.                                                             *)
Cancel(r) ==
    /\ fwd[r] = "wait"
    /\ ctx[r] # "live"
    /\ SendRST(r)
    /\ Goto(r, "join")
    /\ UNCHANGED <<tunnelVars, registryVars, at, resp, body, pump, ctx, peer, answer>>

Disconnected(r) ==
    /\ fwd[r] = "wait"
    /\ Detached(at[r])
    /\ Answer(r, "502")
    /\ Goto(r, "join")
    /\ UNCHANGED <<tunnelVars, registryVars, at, resp, body, pump, ctx, rst, peer>>

-----------------------------------------------------------------------------
(* writeResponse: the copy loop waits for the body ("copy") or has bytes of  *)
(* it to write ("write"), which takes as long as the client takes to read   *)
(* them; its watcher resets the stream when the context is done.            *)

CopyEnds(r) ==
    /\ fwd[r] = "copy"
    /\ body[r] # "open"
    /\ Goto(r, "join")
    /\ UNCHANGED <<tunnelVars, registryVars, at, resp, body, pump, ctx, rst, peer, answer>>

CopyWrites(r) ==
    /\ fwd[r] = "write"
    /\ Goto(r, "copy")
    /\ UNCHANGED <<tunnelVars, registryVars, at, resp, body, pump, ctx, rst, peer, answer>>

CopyWriteFails(r) ==
    /\ fwd[r] = "write"
    /\ SendRST(r)
    /\ Goto(r, "join")
    /\ UNCHANGED <<tunnelVars, registryVars, at, resp, body, pump, ctx, peer, answer>>

Watch(r) ==
    /\ fwd[r] \in {"copy", "write"}
    /\ ctx[r] # "live"
    /\ Writable(at[r]) /\ ~rst[r]
    /\ SendRST(r)
    /\ UNCHANGED <<tunnelVars, registryVars, fwd, at, resp, body, pump, ctx, peer, answer>>

-----------------------------------------------------------------------------
(* <-bodyErrCh and the deferred cleanup of forward. *)

PumpDone(r) == pump[r] \in {"none", "ended", "reset", "failed"}

Join(r) ==
    /\ fwd[r] = "join"
    /\ PumpDone(r)
    /\ RemoveStream(r)
    /\ Goto(r, "deregister")
    /\ UNCHANGED <<workers, phase, limit, draining, broken, streams, streamsMu, at,
                   resp, body, pump, ctx, rst, peer, answer>>

Deregister(r) ==
    /\ fwd[r] = "deregister"
    /\ Unlocked(at[r])
    /\ streams' = [streams EXCEPT ![at[r]] = @ \ {r}]
    /\ resp' = [resp EXCEPT ![r] = "none"]
    /\ body' = [body EXCEPT ![r] = "open"]
    /\ Goto(r, "done")
    /\ UNCHANGED <<tunnelVars, registry, streamsMu, at, pump, ctx, rst, peer, answer>>

-----------------------------------------------------------------------------
(* streamRequestBody.  In "read" it is at its select or in body.Read, which *)
(* returns when the client sends or leaves and does not watch the tunnel;   *)
(* in "send" it has bytes for Reserve and SendData.  Bytes that come with   *)
(* an error count as read before it.                                        *)

Pumping(r) == fwd[r] \notin {"pick", "open", "register", "send", "done"}

PumpTo(r, p) ==
    /\ pump' = [pump EXCEPT ![r] = p]
    /\ UNCHANGED <<tunnelVars, registryVars, fwd, at, resp, body, ctx, peer, answer>>

PumpReads(r) ==
    /\ Pumping(r) /\ pump[r] = "read"
    /\ ctx[r] # "left"
    /\ PumpTo(r, "send") /\ UNCHANGED rst

(* io.EOF: the empty DATA frame with END_STREAM. *)
PumpEnds(r) ==
    /\ Pumping(r) /\ pump[r] = "read"
    /\ PumpTo(r, IF Writable(at[r]) THEN "ended" ELSE "failed") /\ UNCHANGED rst

(* Any other error of body.Read. *)
PumpResets(r) ==
    /\ Pumping(r) /\ pump[r] = "read"
    /\ SendRST(r)
    /\ PumpTo(r, "reset")

(* The select sees worker.done(). *)
PumpDetached(r) ==
    /\ Pumping(r) /\ pump[r] = "read"
    /\ Detached(at[r])
    /\ PumpTo(r, "closing") /\ UNCHANGED rst

(* Reserve grants what is left of the windows, or waits for the worker to   *)
(* credit them; no worker need do so.                                       *)
PumpSends(r) ==
    /\ pump[r] = "send"
    /\ Writable(at[r])
    /\ PumpTo(r, "read") /\ UNCHANGED rst

(* Granted, but SendData fails. *)
PumpSendFails(r) ==
    /\ pump[r] = "send"
    /\ ~Writable(at[r])
    /\ PumpTo(r, "closing") /\ UNCHANGED rst

(* MarkDead wakes Reserve. *)
PumpDead(r) ==
    /\ pump[r] = "send"
    /\ Dead(at[r])
    /\ PumpTo(r, "closing") /\ UNCHANGED rst

(* The deferred body.Close: net/http reads on for the end of a body that    *)
(* has not been seen, again at the client's pace.                           *)
PumpCloses(r) ==
    /\ pump[r] = "closing"
    /\ PumpTo(r, "failed") /\ UNCHANGED rst

(* The public connection is gone.  Before or after the points where forward *)
(* and its pump notice, it makes no difference.                             *)
Disconnect(r) ==
    /\ ctx[r] # "left" /\ Load < MaxLoad
    /\ fwd[r] \in {"wait", "copy", "write"} \/ (fwd[r] = "join" /\ ~PumpDone(r))
    /\ ctx' = [ctx EXCEPT ![r] = "left"]
    /\ UNCHANGED <<tunnelVars, registryVars, fwd, at, resp, body, pump, rst, peer, answer>>
=============================================================================
