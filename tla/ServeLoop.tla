----------------------------- MODULE ServeLoop ------------------------------
(***************************************************************************)
(* The worker's frame loop on one tunnel (handler.go, serve) with the      *)
(* stream registry and the graceful drain of internal/h2/conn.go.          *)
(*                                                                         *)
(* Three kinds of goroutines meet here: the frame reader; the handler of   *)
(* each stream, whose RemoveStream may complete a drain; and Pool.Shutdown.*)
(* The last two wake a reader that is blocked in ReadFrame by moving its   *)
(* read deadline into the past.                                            *)
(***************************************************************************)
EXTENDS Naturals

CONSTANTS
    Streams,   \* streams the peer may open, each once
    None

ASSUME NoneAssumption == None \notin Streams

VARIABLES
    pc,          \* the frame reader
    ready,       \* readyCh is closed: the peer's SETTINGS have been applied
    deadline,    \* read deadline: "none", "armed" (PingInterval away), "past"
    cont,        \* contStreamID: the stream of an unfinished header block
    pingPending,
    reason,      \* why serve returned
    killed,      \* streams that FailAllStreams found registered
    peer,        \* what the peer has sent: "open", "goaway", or it is "silent"
    streams,     \* keys of Conn.streams
    handler,     \* per stream: its goroutine
    draining, drainDone,
    shutdownCh,  \* closed by Pool.Shutdown ...
    pool         \* ... which is "up", "closed" (yet to poke) or "poked"

reader == <<pc, ready, cont, pingPending, reason, killed>>
drain == <<draining, drainDone>>
vars == <<reader, deadline, peer, streams, handler, drain, shutdownCh, pool>>

Init ==
    /\ pc = "settings"
    /\ ready = FALSE
    /\ deadline = "none"
    /\ cont = None
    /\ pingPending = FALSE
    /\ reason = "none"
    /\ killed = {}
    /\ peer = "open"
    /\ streams = {}
    /\ handler = [s \in Streams |-> "none"]
    /\ draining = FALSE
    /\ drainDone = FALSE
    /\ shutdownCh = FALSE
    /\ pool = "up"

-----------------------------------------------------------------------------
(* The frame reader. *)

Exit(why) == pc' = "teardown" /\ reason' = why

(* Until the peer's first SETTINGS the reader has no deadline of its own,   *)
(* and every error, a past deadline included, ends serve.                   *)
AwaitSettings ==
    /\ pc = "settings"
    /\ \/ /\ peer # "silent"
          /\ pc' = "check" /\ ready' = TRUE
          /\ UNCHANGED reason
       \/ /\ peer # "silent" \/ deadline = "past"
          /\ Exit("error")
          /\ UNCHANGED ready
    /\ UNCHANGED <<deadline, cont, pingPending, killed, peer, streams, handler,
                   drain, shutdownCh, pool>>

(* Mutant: shutdownCh is looked at on timeouts only. *)
Check_drain ==
    /\ pc = "check"
    /\ IF drainDone THEN Exit("drained") ELSE pc' = "arm" /\ UNCHANGED reason
    /\ UNCHANGED <<ready, deadline, cont, pingPending, killed, peer, streams,
                   handler, drain, shutdownCh, pool>>

(* Top of the loop: shutdownCh, then DrainComplete. *)
Check ==
    /\ pc = "check"
    /\ IF shutdownCh THEN Exit("shutdown")
       ELSE IF drainDone THEN Exit("drained")
       ELSE pc' = "arm" /\ UNCHANGED reason
    /\ UNCHANGED <<ready, deadline, cont, pingPending, killed, peer, streams,
                   handler, drain, shutdownCh, pool>>

(* Mutant: the deadline is not armed. *)
SetIdleDeadline_missing ==
    /\ pc = "arm"
    /\ pc' = "read"
    /\ UNCHANGED <<ready, deadline, cont, pingPending, reason, killed, peer,
                   streams, handler, drain, shutdownCh, pool>>

SetIdleDeadline ==
    /\ pc = "arm"
    /\ deadline' = "armed"
    /\ pc' = "read"
    /\ UNCHANGED <<ready, cont, pingPending, reason, killed, peer, streams,
                   handler, drain, shutdownCh, pool>>

(* ReadFrame returned a timeout. *)
ReadTimeout ==
    /\ pc = "read"
    /\ deadline = "past"
    /\ IF shutdownCh THEN Exit("shutdown") /\ UNCHANGED pingPending
       ELSE IF drainDone THEN Exit("drained") /\ UNCHANGED pingPending
       ELSE IF pingPending THEN Exit("ping") /\ UNCHANGED pingPending
       ELSE pc' = "check" /\ pingPending' = TRUE /\ UNCHANGED reason
    /\ UNCHANGED <<ready, deadline, cont, killed, peer, streams, handler, drain,
                   shutdownCh, pool>>

(* ReadFrame failed, or the frame is a connection error: a bad SETTINGS or  *)
(* HPACK block, a GOAWAY with an error code.                                *)
ReadFails ==
    /\ pc = "read"
    /\ peer # "silent"
    /\ Exit("error")
    /\ UNCHANGED <<ready, deadline, cont, pingPending, killed, peer, streams,
                   handler, drain, shutdownCh, pool>>

(* A frame arrives outside a header block; the peer is still sending.       *)
Receive == pc = "read" /\ peer # "silent" /\ cont = None

Dispatch(s) ==
    /\ streams' = streams \cup {s}
    /\ handler' = [handler EXCEPT ![s] = "running"]

(* A peer opens no stream after its GOAWAY. *)
ReadHeaders(s) ==
    /\ Receive
    /\ peer = "open"
    /\ handler[s] = "none"
    /\ \/ Dispatch(s) /\ UNCHANGED cont
       \/ cont' = s /\ UNCHANGED <<streams, handler>>
    /\ pc' = "check"
    /\ UNCHANGED <<ready, deadline, pingPending, reason, killed, peer, drain,
                   shutdownCh, pool>>

(* CONTINUATION, with or without END_HEADERS; any other frame is an error.  *)
ReadContinuation ==
    /\ pc = "read"
    /\ peer # "silent"
    /\ cont # None
    /\ \/ /\ Dispatch(cont)
          /\ cont' = None
          /\ pc' = "check"
          /\ UNCHANGED reason
       \/ /\ pc' = "check"
          /\ UNCHANGED <<cont, streams, handler, reason>>
       \/ /\ Exit("interleaved")
          /\ UNCHANGED <<cont, streams, handler>>
    /\ UNCHANGED <<ready, deadline, pingPending, killed, peer, drain,
                   shutdownCh, pool>>

(* HandlePingAck for our PING, or a frame that leaves all of this alone.    *)
ReadOther ==
    /\ Receive
    /\ pingPending' \in {pingPending, FALSE}
    /\ pc' = "check"
    /\ UNCHANGED <<ready, deadline, cont, reason, killed, peer, streams, handler,
                   drain, shutdownCh, pool>>

(* GOAWAY(NO_ERROR): BeginDrain stores draining ... *)
ReadGoAway ==
    /\ Receive
    /\ peer' = "goaway"
    /\ draining' = TRUE
    /\ pc' = "count"
    /\ UNCHANGED <<ready, deadline, cont, pingPending, reason, killed, streams,
                   handler, drainDone, shutdownCh, pool>>

(* Mutant: an idle connection is not noticed. *)
CountStreams_missing ==
    /\ pc = "count"
    /\ pc' = "check"
    /\ UNCHANGED <<ready, deadline, cont, pingPending, reason, killed, peer,
                   streams, handler, drain, shutdownCh, pool>>

(* ... and then looks at the registry; finishDrain acts once.               *)
CountStreams ==
    /\ pc = "count"
    /\ IF streams = {} /\ ~drainDone
       THEN drainDone' = TRUE /\ pc' = "poke"
       ELSE pc' = "check" /\ UNCHANGED drainDone
    /\ UNCHANGED <<ready, deadline, cont, pingPending, reason, killed, peer,
                   streams, handler, draining, shutdownCh, pool>>

PokeSelf ==
    /\ pc = "poke"
    /\ deadline' = "past"
    /\ pc' = "check"
    /\ UNCHANGED <<ready, cont, pingPending, reason, killed, peer, streams,
                   handler, drain, shutdownCh, pool>>

(* serve's deferred function: FailAllStreams, then GOAWAY and Close.        *)
Teardown ==
    /\ pc = "teardown"
    /\ killed' = streams
    /\ pc' = "gone"
    /\ UNCHANGED <<ready, deadline, cont, pingPending, reason, peer, streams,
                   handler, drain, shutdownCh, pool>>

-----------------------------------------------------------------------------
(* serveStream's end: RemoveStream deletes and counts under streamsMu ...   *)
RemoveStream(s) ==
    /\ handler[s] = "running"
    /\ streams' = streams \ {s}
    /\ handler' = [handler EXCEPT ![s] = IF streams = {s} THEN "last" ELSE "done"]
    /\ UNCHANGED <<reader, deadline, peer, drain, shutdownCh, pool>>

(* ... and, when it removed the last stream, loads draining afterwards.     *)
LoadDraining(s) ==
    /\ handler[s] = "last"
    /\ IF draining /\ ~drainDone
       THEN drainDone' = TRUE /\ handler' = [handler EXCEPT ![s] = "poke"]
       ELSE handler' = [handler EXCEPT ![s] = "done"] /\ UNCHANGED drainDone
    /\ UNCHANGED <<reader, deadline, peer, streams, draining, shutdownCh, pool>>

Poke(s) ==
    /\ handler[s] = "poke"
    /\ deadline' = "past"
    /\ handler' = [handler EXCEPT ![s] = "done"]
    /\ UNCHANGED <<reader, peer, streams, drain, shutdownCh, pool>>

-----------------------------------------------------------------------------
(* Pool.Shutdown closes shutdownCh, then pokes the registered connections.  *)
CloseShutdownCh ==
    /\ pool = "up"
    /\ shutdownCh' = TRUE
    /\ pool' = "closed"
    /\ UNCHANGED <<reader, deadline, peer, streams, handler, drain>>

PoolPokes ==
    /\ pool = "closed"
    /\ deadline' = "past"
    /\ pool' = "poked"
    /\ UNCHANGED <<reader, peer, streams, handler, drain, shutdownCh>>

(* PingInterval passes without a frame. *)
IdleTick ==
    /\ pc = "read"
    /\ deadline = "armed"
    /\ deadline' = "past"
    /\ UNCHANGED <<reader, peer, streams, handler, drain, shutdownCh, pool>>

PeerGoesSilent ==
    /\ peer # "silent"
    /\ peer' = "silent"
    /\ UNCHANGED <<reader, deadline, streams, handler, drain, shutdownCh, pool>>

-----------------------------------------------------------------------------
Handler(s) == RemoveStream(s) \/ LoadDraining(s) \/ Poke(s)

Frame == \/ \E s \in Streams : ReadHeaders(s)
         \/ ReadContinuation \/ ReadOther \/ ReadGoAway \/ ReadFails

Reader == \/ Check \/ SetIdleDeadline \/ ReadTimeout
          \/ CountStreams \/ PokeSelf \/ Teardown
          \/ (deadline = "past" /\ AwaitSettings)

Next ==
    \/ AwaitSettings \/ Reader \/ Frame
    \/ \E s \in Streams : Handler(s)
    \/ CloseShutdownCh \/ PoolPokes
    \/ IdleTick \/ PeerGoesSilent

Spec == Init /\ [][Next]_vars

(* Goroutines run, handlers return, time passes.  The peer need not send    *)
(* anything.                                                                *)
Fairness ==
    /\ WF_vars(Reader) /\ WF_vars(IdleTick) /\ WF_vars(PoolPokes)
    /\ \A s \in Streams : WF_vars(Handler(s))

FairSpec == Spec /\ Fairness

-----------------------------------------------------------------------------
TypeOK ==
    /\ pc \in {"settings", "check", "arm", "read", "count", "poke", "teardown",
               "gone"}
    /\ deadline \in {"none", "armed", "past"}
    /\ cont \in Streams \cup {None}
    /\ reason \in {"none", "error", "shutdown", "drained", "ping", "interleaved"}
    /\ {ready, pingPending, draining, drainDone, shutdownCh} \subseteq BOOLEAN
    /\ killed \in SUBSET Streams
    /\ peer \in {"open", "goaway", "silent"}
    /\ streams \in SUBSET Streams
    /\ handler \in [Streams -> {"none", "running", "last", "poke", "done"}]
    /\ pool \in {"up", "closed", "poked"}

(* The end of a drain is never missed: BeginDrain stores draining before it *)
(* counts the streams, RemoveStream deletes before it loads draining, so    *)
(* one of the two sees the other.                                           *)
DrainNotMissed ==
    draining /\ streams = {} =>
        drainDone \/ pc = "count" \/ \E s \in Streams : handler[s] = "last"

(* A connection whose peer drains it ends once the handlers have returned,  *)
(* whoever of BeginDrain and RemoveStream completes the drain, and even if  *)
(* finishDrain's poke of the read deadline is lost.                         *)
DrainEnds == draining ~> pc = "gone"

(* A connection that Pool.Shutdown has poked ends, even if the frame loop   *)
(* overwrites the poke, and whatever the peer goes on sending.              *)
ShutdownEnds == pool = "poked" ~> pc = "gone"

(* The PING watchdog: a tunnel whose peer falls silent is given up.         *)
SilentPeerDetected == (ready /\ peer = "silent") ~> pc = "gone"

(* A graceful drain spares the streams in flight: they are all finished     *)
(* when serve returns because of it.                                        *)
DrainSparesStreams == reason = "drained" => killed = {}

(* A poke reaches the reader: once a completed drain or a shutdown has      *)
(* poked, the reader does not sit in ReadFrame on a deadline of its own.    *)
(* Does not hold: SetIdleDeadline overwrites a poke that came after Check.  *)
PokeReachesReader ==
    pc = "read" /\ ((drainDone /\ \A s \in Streams : handler[s] # "poke")
                    \/ pool = "poked")
        => deadline = "past"

=============================================================================
