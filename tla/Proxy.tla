------------------------------- MODULE Proxy -------------------------------
(***************************************************************************)
(* The proxy around the forwards of module Forward: the accept loop and    *)
(* Shutdown (internal/proxy/proxy.go), and the life of a tunnel with its   *)
(* frame loop (internal/proxy/tunnel.go).  The phases of a tunnel are      *)
(*    none, handshake, preface, attach, append, settings, loop,            *)
(*    dead, failed, detached, closing, gone                                *)
(* where dead to closing are the deferred calls of serveTunnel and         *)
(* acceptTunnel in their order.                                            *)
(***************************************************************************)
EXTENDS Forward

VARIABLES
    accept,         \* runTunnelAccept: "idle", "accept", "conn" or "returned"
    tunnelListener, \* "nil", "set", or "closed" by Shutdown
    accepts,        \* the counter of tunnelAccepts
    poked           \* Shutdown has moved the tunnel's read deadline

proxyVars == <<accept, tunnelListener, accepts, poked, shutdown>>
vars == <<tunnelVars, registryVars, requestVars, proxyVars>>

Init ==
    /\ ForwardInit
    /\ accept = "idle"
    /\ tunnelListener = "nil"
    /\ accepts = 0
    /\ poked = [t \in Tunnels |-> FALSE]
    /\ shutdown = "idle"

Phases == {"none", "handshake", "preface", "attach", "append", "settings", "loop",
           "dead", "failed", "detached", "closing", "gone"}

ShuttingDown == shutdown # "idle"

-----------------------------------------------------------------------------
(* runTunnelAccept. *)

Listen ==
    /\ accept = "idle"
    /\ tunnelListener' = "set"
    /\ accept' = "accept"
    /\ UNCHANGED <<tunnelVars, registryVars, requestVars, accepts, poked, shutdown>>

(* Accept has returned a connection; the goroutine is not counted yet. *)
Accept ==
    /\ accept = "accept"
    /\ tunnelListener # "closed"
    /\ \E t \in Tunnels : phase[t] = "none"
    /\ accept' = "conn"
    /\ UNCHANGED <<tunnelVars, registryVars, requestVars, tunnelListener, accepts,
                   poked, shutdown>>

Spawn(t) ==
    /\ accept = "conn"
    /\ phase[t] = "none"
    /\ accepts' = accepts + 1
    /\ phase' = [phase EXCEPT ![t] = "handshake"]
    /\ accept' = "accept"
    /\ UNCHANGED <<workers, limit, draining, drained, broken, registryVars, requestVars,
                   tunnelListener, poked, shutdown>>

(* Closed by Shutdown, or an error of the listener itself that is not       *)
(* temporary.                                                               *)
AcceptFails ==
    /\ accept = "accept"
    /\ tunnelListener = "closed" \/ Load < MaxLoad
    /\ accept' = "returned"
    /\ tunnelListener' = "nil"
    /\ UNCHANGED <<tunnelVars, registryVars, requestVars, accepts, poked, shutdown>>

-----------------------------------------------------------------------------
(* acceptTunnel and serveTunnel of one tunnel. *)

Step(t, from, to) ==
    /\ phase[t] = from
    /\ phase' = [phase EXCEPT ![t] = to]

OnlyPhase == UNCHANGED <<workers, limit, draining, drained, broken, registryVars,
                         requestVars, proxyVars>>

(* Under a deadline of 10 s. *)
Handshake(t) ==
    /\ \/ Step(t, "handshake", "preface")
       \/ Step(t, "handshake", "closing")
    /\ OnlyPhase

(* No deadline: the goroutine waits for as long as the worker is silent. *)
Preface(t) ==
    /\ \/ Step(t, "preface", "attach")
       \/ Step(t, "preface", "closing")
    /\ OnlyPhase

AttachCheck_missing(t) == Step(t, "attach", "append") /\ OnlyPhase  \* mutant: no check

(* attach reads shutdownCh, and appends in a later step. *)
AttachCheck(t) ==
    /\ \/ ShuttingDown /\ Step(t, "attach", "closing")
       \/ ~ShuttingDown /\ Step(t, "attach", "append")
    /\ OnlyPhase

Attach(t) ==
    /\ Step(t, "append", "settings")
    /\ workers' = workers \cup {t}
    /\ UNCHANGED <<limit, draining, drained, broken, registryVars, requestVars, proxyVars>>

(* The first SETTINGS; everything before it is skipped. *)
Settings(t) ==
    /\ ~broken[t]
    /\ Step(t, "settings", "loop")
    /\ \E l \in Limits : limit' = [limit EXCEPT ![t] = l]
    /\ UNCHANGED <<workers, draining, drained, broken, registryVars, requestVars, proxyVars>>

SettingsFails(t) ==
    /\ broken[t] \/ poked[t]
    /\ Step(t, "settings", "dead")
    /\ OnlyPhase

(* A frame that ends the tunnel: a GOAWAY with an error, a protocol error,  *)
(* SETTINGS that do not apply; or SendOrCheckPing gives the worker up.      *)
FatalFrame(t) ==
    /\ ~broken[t] /\ Load < MaxLoad
    /\ Step(t, "settings", "dead") \/ Step(t, "loop", "dead")
    /\ OnlyPhase

LoopEnds_unaware(t) ==  \* mutant: shutdownCh is not looked at
    /\ drained[t] \/ broken[t]
    /\ Step(t, "loop", "dead")
    /\ OnlyPhase

(* The frame loop returns: shutdown, a completed drain or a read error. *)
LoopEnds(t) ==
    /\ ShuttingDown \/ drained[t] \/ broken[t]
    /\ Step(t, "loop", "dead")
    /\ OnlyPhase

(* failAllStreams: cs.fail on every stream of Worker.streams. *)
FailAllStreams(t) ==
    /\ Unlocked(t)
    /\ Step(t, "dead", "failed")
    /\ resp' = [r \in Requests |->
                  IF r \in streams[t] /\ resp[r] = "none" THEN "failed" ELSE resp[r]]
    /\ body' = [r \in Requests |->
                  IF r \in streams[t] /\ body[r] = "open" THEN "err" ELSE body[r]]
    /\ UNCHANGED <<workers, limit, draining, drained, broken, registryVars, fwd, at,
                   pump, ctx, rst, peer, answer, proxyVars>>

(* SendGoAway, ShutdownWriter and w.detach. *)
DetachWorker(t) == Step(t, "failed", "detached") /\ OnlyPhase

DetachProxy(t) ==
    /\ Step(t, "detached", "closing")
    /\ workers' = workers \ {t}
    /\ UNCHANGED <<limit, draining, drained, broken, registryVars, requestVars, proxyVars>>

(* The connection is closed and the goroutine counted out. *)
Done(t) ==
    /\ Step(t, "closing", "gone")
    /\ accepts' = accepts - 1
    /\ UNCHANGED <<workers, limit, draining, drained, broken, registryVars, requestVars,
                   accept, tunnelListener, poked, shutdown>>

Break(t) ==
    /\ phase[t] \in {"settings", "loop"} /\ ~broken[t] /\ Load < MaxLoad
    /\ broken' = [broken EXCEPT ![t] = TRUE]
    /\ UNCHANGED <<workers, phase, limit, draining, drained, registryVars, requestVars,
                   proxyVars>>

-----------------------------------------------------------------------------
(* handleProxyFrame, for the frames that touch a forward or the drain.  The *)
(* worker may still be sending on a stream we have reset; the RST_STREAM    *)
(* that a frame for a stream no longer registered gets settles nothing that *)
(* forward had not settled (StreamSettled).                                 *)

Reading(t) == t \in Tunnels /\ phase[t] = "loop" /\ ~broken[t]

(* deliverResponse. *)
PeerHeaders(r) ==
    LET t == at[r] IN
    /\ peer[r] = "open"
    /\ Reading(t) /\ Unlocked(t) /\ r \in streams[t]
    /\ peer' = [peer EXCEPT ![r] = "headed"]
    /\ resp' = [resp EXCEPT ![r] = IF @ = "none" THEN "headers" ELSE @]
    /\ UNCHANGED <<tunnelVars, registryVars, fwd, at, body, pump, ctx, rst, answer,
                   proxyVars>>

(* END_STREAM, on DATA or on the HEADERS: CloseData. *)
PeerEnds(r) ==
    LET t == at[r] IN
    /\ peer[r] = "headed"
    /\ Reading(t) /\ r \in registry[t]
    /\ peer' = [peer EXCEPT ![r] = "ended"]
    /\ body' = [body EXCEPT ![r] = IF @ = "open" THEN "eof" ELSE @]
    /\ UNCHANGED <<tunnelVars, registryVars, fwd, at, resp, pump, ctx, rst, answer,
                   proxyVars>>

(* RST_STREAM: also after an early response whose request has not ended. *)
PeerResets(r) ==
    LET t == at[r] IN
    /\ peer[r] \in {"open", "headed"} \/ (peer[r] = "ended" /\ ~PumpDone(r))
    /\ Reading(t) /\ Unlocked(t) /\ r \in streams[t]
    /\ peer' = [peer EXCEPT ![r] = "reset"]
    /\ resp' = [resp EXCEPT ![r] = IF @ = "none" THEN "failed" ELSE @]
    /\ body' = [body EXCEPT ![r] = IF @ = "open" THEN "err" ELSE @]
    /\ UNCHANGED <<tunnelVars, registryVars, fwd, at, pump, ctx, rst, answer, proxyVars>>

(* A later SETTINGS may move the limit, below the streams in flight too. *)
LaterSettings(t) ==
    /\ Reading(t) /\ Load < MaxLoad
    /\ \E l \in Limits : limit' = [limit EXCEPT ![t] = l]
    /\ UNCHANGED <<workers, phase, draining, drained, broken, registryVars, requestVars,
                   proxyVars>>

(* DATA for a copy loop that waits. *)
PeerData(r) ==
    LET t == at[r] IN
    /\ fwd[r] = "copy" /\ peer[r] = "headed"
    /\ Reading(t) /\ r \in registry[t]
    /\ Goto(r, "write")
    /\ UNCHANGED <<tunnelVars, registryVars, at, resp, body, pump, ctx, rst, peer, answer,
                   proxyVars>>

(* A graceful GOAWAY: BeginDrain. *)
GoAway(t) ==
    /\ Reading(t) /\ ~draining[t] /\ Load < MaxLoad
    /\ draining' = [draining EXCEPT ![t] = TRUE]
    /\ drained' = [drained EXCEPT ![t] = registry[t] = {}]
    /\ UNCHANGED <<workers, phase, limit, broken, registryVars, requestVars, proxyVars>>

-----------------------------------------------------------------------------
(* Shutdown. *)

CloseShutdownCh ==
    /\ shutdown = "idle" /\ Load + 1 < MaxLoad
    /\ shutdown' = "closing"
    /\ UNCHANGED <<tunnelVars, registryVars, requestVars, accept, tunnelListener,
                   accepts, poked>>

CloseListener ==
    /\ shutdown = "closing"
    /\ shutdown' = "poking"
    /\ tunnelListener' = IF tunnelListener = "set" THEN "closed" ELSE tunnelListener
    /\ UNCHANGED <<tunnelVars, registryVars, requestVars, accept, accepts, poked>>

PokeWorkers ==
    /\ shutdown = "poking"
    /\ shutdown' = "wait"
    /\ poked' = [t \in Tunnels |-> t \in workers]
    /\ UNCHANGED <<tunnelVars, registryVars, requestVars, accept, tunnelListener, accepts>>

WaitReturns ==
    /\ shutdown = "wait"
    /\ accepts = 0
    /\ shutdown' = "nil"
    /\ UNCHANGED <<tunnelVars, registryVars, requestVars, accept, tunnelListener,
                   accepts, poked>>

CtxDone ==
    /\ shutdown = "wait"
    /\ shutdown' = "ctx"
    /\ UNCHANGED <<tunnelVars, registryVars, requestVars, accept, tunnelListener,
                   accepts, poked>>

(* The base context of ListenAndServePublic: closing shutdownCh cancels the  *)
(* requests that came in through it.  A server of the user's own around     *)
(* Handler need not do so.                                                  *)
BaseCancelled(r) ==
    /\ ShuttingDown
    /\ ctx[r] = "live" /\ fwd[r] \in {"wait", "copy", "write"}
    /\ ctx' = [ctx EXCEPT ![r] = "cancelled"]
    /\ UNCHANGED <<tunnelVars, registryVars, fwd, at, resp, body, pump, rst, peer, answer,
                   proxyVars>>

-----------------------------------------------------------------------------
(* The goroutine of a public request and its pump, where they do not wait   *)
(* for the client.                                                          *)
Forwarding(r) ==
    /\ \/ Pick(r) \/ Refuse(r) \/ OpenCheck(r) \/ Register(r)
       \/ SendRequestHeaders(r) \/ RollBack(r)
       \/ Respond(r) \/ Cancel(r) \/ Disconnected(r)
       \/ CopyEnds(r) \/ Join(r) \/ Deregister(r)
    /\ UNCHANGED proxyVars

PumpSteps(r) ==
    /\ PumpDead(r)
    /\ UNCHANGED proxyVars

(* A call that waits for the client returns: body.Read or body.Close in the *)
(* pump, w.Write in forward.                                                *)
BodyReturns(r) ==
    /\ PumpEnds(r) \/ PumpResets(r) \/ PumpCloses(r)
    /\ UNCHANGED proxyVars

WriteReturns(r) ==
    /\ CopyWrites(r) \/ CopyWriteFails(r)
    /\ UNCHANGED proxyVars

Environment(r) ==
    /\ \/ PumpReads(r) \/ PumpDetached(r) \/ PumpSends(r) \/ PumpSendFails(r)
       \/ Watch(r) \/ Disconnect(r)
    /\ UNCHANGED proxyVars

(* The goroutine of a tunnel, where it does not wait for its worker. *)
Serving(t) ==
    \/ Handshake(t) \/ AttachCheck(t) \/ Attach(t) \/ SettingsFails(t) \/ LoopEnds(t)
    \/ FailAllStreams(t) \/ DetachWorker(t) \/ DetachProxy(t) \/ Done(t)

Shutdown == CloseListener \/ PokeWorkers \/ WaitReturns

Next ==
    \/ \E r \in Requests :
          \/ Forwarding(r) \/ PumpSteps(r) \/ BodyReturns(r) \/ WriteReturns(r)
          \/ Environment(r) \/ BaseCancelled(r)
          \/ PeerHeaders(r) \/ PeerData(r) \/ PeerEnds(r) \/ PeerResets(r)
    \/ \E t \in Tunnels :
          \/ Spawn(t) \/ Preface(t) \/ Settings(t) \/ LaterSettings(t) \/ Serving(t)
          \/ GoAway(t) \/ FatalFrame(t) \/ Break(t)
    \/ Listen \/ Accept \/ AcceptFails
    \/ CloseShutdownCh \/ Shutdown \/ CtxDone

(* The goroutines of the proxy run.  No worker is assumed to send anything, *)
(* no context to expire and no client to send, to read or to leave; a call  *)
(* on the connection of a client that has left returns.                     *)
Fairness ==
    /\ \A r \in Requests :
          /\ WF_vars(Forwarding(r) \/ (ctx[r] = "left" /\ WriteReturns(r)))
          /\ WF_vars(PumpSteps(r) \/ (ctx[r] = "left" /\ BodyReturns(r)))
    /\ \A t \in Tunnels : WF_vars(Serving(t)) /\ WF_vars(Spawn(t))
    /\ WF_vars(Shutdown)

Spec == Init /\ [][Next]_vars /\ Fairness

-----------------------------------------------------------------------------
TypeOK ==
    /\ workers \subseteq Tunnels
    /\ phase \in [Tunnels -> Phases]
    /\ limit \in [Tunnels -> Limits \cup {NoStreamLimit}]
    /\ draining \in [Tunnels -> BOOLEAN] /\ drained \in [Tunnels -> BOOLEAN]
    /\ broken \in [Tunnels -> BOOLEAN] /\ poked \in [Tunnels -> BOOLEAN]
    /\ streams \in [Tunnels -> SUBSET Requests]
    /\ registry \in [Tunnels -> SUBSET Requests]
    /\ streamsMu \in [Tunnels -> SUBSET Requests]
    /\ fwd \in [Requests -> {"pick", "open", "register", "send", "wait", "copy",
                             "write", "join", "deregister", "done"}]
    /\ at \in [Requests -> Tunnels \cup {NoWorker}]
    /\ resp \in [Requests -> {"none", "headers", "failed"}]
    /\ body \in [Requests -> {"open", "eof", "err"}]
    /\ pump \in [Requests -> {"none", "read", "send", "closing", "ended", "reset", "failed"}]
    /\ ctx \in [Requests -> {"live", "left", "cancelled"}]
    /\ rst \in [Requests -> BOOLEAN]
    /\ peer \in [Requests -> {"idle", "open", "headed", "ended", "reset"}]
    /\ answer \in [Requests -> {"none", "200", "502", "503"}]
    /\ accept \in {"idle", "accept", "conn", "returned"}
    /\ tunnelListener \in {"nil", "set", "closed"}
    /\ accepts \in Nat
    /\ shutdown \in {"idle", "closing", "poking", "wait", "nil", "ctx"}

(* The streams that a worker counts against its limit: opened, and neither  *)
(* reset nor ended on both sides.                                           *)
PeerCounts(t) ==
    {r \in Requests :
        /\ at[r] = t
        /\ ~rst[r]
        /\ \/ peer[r] \in {"open", "headed"}
           \/ peer[r] = "ended" /\ pump[r] \notin {"none", "ended"}}

(* forward never returns from a live tunnel with its stream still open at   *)
(* the worker: every early exit of waitForResponseHeaders, writeResponse    *)
(* and streamRequestBody has sent RST_STREAM, or the worker has.            *)
StreamSettled ==
    \A t \in Tunnels : \A r \in PeerCounts(t) :
        fwd[r] = "done" => Dead(t) \/ broken[t]

(* openStream admits a stream only below the limit that the worker has last *)
(* sent, as the worker counts its streams: forwards that have returned      *)
(* included, whatever SETTINGS did to the limit while they ran.             *)
LimitRespected ==
    [][\A r \in Requests :
          fwd[r] = "open" /\ fwd'[r] = "register" /\ Reading(at[r]) =>
              Cardinality(PeerCounts(at[r])) < limit[at[r]]]_vars

(* A public request that forward leaves without a status is one whose       *)
(* client has left, or one whose context Shutdown has cancelled (the base   *)
(* context of ListenAndServePublic): every other exit of forward, openStream *)
(* failing after the tunnel is lost included, has written one.              *)
ClientAnswered ==
    \A r \in Requests :
        fwd[r] = "done" /\ answer[r] = "none" =>
            ctx[r] = "left" \/ (ctx[r] = "cancelled" /\ ShuttingDown)

(* "a clean 502" for every caller that is still there, as the comment of    *)
(* Shutdown has it.  Not an invariant: forward may see the cancelled        *)
(* context before failAllStreams reaches it, and writes nothing.            *)
CleanShutdown ==
    \A r \in Requests : fwd[r] = "done" /\ answer[r] = "none" => ctx[r] = "left"

(* Shutdown returning nil means no worker is attached, then or later, and   *)
(* no goroutine of a tunnel serves forwards.                                *)
NilMeansNoWorkers ==
    shutdown = "nil" => workers = {} /\ \A t \in Tunnels : phase[t] # "loop"

(* forward or its pump is in a call on a public connection whose client is  *)
(* there and neither sends nor reads.                                       *)
HeldByClient(r) ==
    /\ ctx[r] # "left"
    /\ fwd[r] = "write" \/ (fwd[r] = "join" /\ pump[r] \in {"read", "closing"})

(* A forward on a tunnel that is lost returns, unless its own client holds  *)
(* it in w.Write, body.Read or body.Close: failAllStreams, MarkDead, a      *)
(* failing SendData or worker.done reaches it wherever else it waits, a     *)
(* forward that opened its stream after failAllStreams included.            *)
TunnelLossReleases ==
    <>[](\A t \in Tunnels, r \in Requests :
            Dead(t) /\ at[r] = t => fwd[r] = "done" \/ HeldByClient(r))

(* Tunnels on which Shutdown may wait for ever: the reads of the preface    *)
(* and of the first SETTINGS have no deadline, and the second is woken only *)
(* if the worker was attached when Shutdown took its snapshot.              *)
Stalled ==
    \E t \in Tunnels : phase[t] = "preface" \/ (phase[t] = "settings" /\ ~poked[t])

(* Shutdown returns unless a tunnel is stalled. *)
ProxyShutdownEnds == <>[](shutdown = "wait" => Stalled)
=============================================================================
