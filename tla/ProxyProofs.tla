---------------------------- MODULE ProxyProofs ----------------------------
(***************************************************************************)
(* Proofs about module Proxy, for any requests, tunnels and limits.        *)
(*                                                                         *)
(* None of the invariants is inductive.  Tied speaks of one request: where *)
(* forward is, against its tunnel, the worker's end of the stream and the  *)
(* outcome of the body pump.  Roster speaks of the tunnels: which phases   *)
(* are attached and counted, and what Shutdown has seen.                   *)
(***************************************************************************)
EXTENDS Proxy, FiniteSetTheorems, TLAPS

Lost(t) == Dead(t) \/ broken[t]

Live == {"settings", "loop", "dead", "failed", "detached"}

Served == Live \cup {"closing", "gone"}

Tied(r) ==
    /\ fwd[r] \notin {"pick", "done"} => at[r] \in Tunnels /\ phase[at[r]] \in Served
    /\ fwd[r] \in {"pick", "open", "register", "send"} => peer[r] = "idle"
    /\ Pumping(r) => peer[r] # "idle"
    /\ fwd[r] = "pick" \/ at[r] \notin Tunnels =>
          peer[r] = "idle" /\ resp[r] = "none" /\ body[r] = "open"
    /\ peer[r] = "idle" => pump[r] \in {"none", "read"}
    /\ fwd[r] \in {"send", "wait", "copy", "write", "join", "deregister"} =>
          r \in streams[at[r]]
    /\ fwd[r] \in {"copy", "write"} => answer[r] # "none"
    /\ fwd[r] \in {"join", "deregister", "done"} =>
          /\ answer[r] # "none" \/ ctx[r] # "live"
          /\ peer[r] \in {"open", "headed"} => rst[r] \/ Lost(at[r])
    /\ fwd[r] \in {"deregister", "done"} => PumpDone(r) \/ peer[r] = "idle"
    /\ ctx[r] = "cancelled" => ShuttingDown
    /\ pump[r] = "reset" => rst[r] \/ Lost(at[r])
    /\ pump[r] \in {"closing", "failed"} => Lost(at[r])
    /\ resp[r] = "failed" => peer[r] = "reset" \/ Dead(at[r])
    /\ body[r] = "eof" => peer[r] \in {"ended", "reset"}
    /\ body[r] = "err" => peer[r] = "reset" \/ Dead(at[r])

Owned ==
    \A t \in Tunnels : \A r \in streams[t] : at[r] = t /\ fwd[r] \notin {"pick", "open", "done"}

Counted == {t \in Tunnels : phase[t] \notin {"none", "gone"}}

Roster ==
    /\ workers = {t \in Tunnels : phase[t] \in Live}
    /\ accepts = Cardinality(Counted)
    /\ shutdown = "nil" => \A t \in Tunnels : phase[t] \notin Live \cup {"append"}

IndInv == TypeOK /\ Owned /\ Roster /\ \A r \in Requests : Tied(r)

-----------------------------------------------------------------------------
(* The tunnels that the limiter counts are finitely many. *)
LEMMA CountedFinite == IsFiniteSet(Counted) /\ Cardinality(Counted) \in Nat
  <1>1. Counted \subseteq Tunnels  BY DEF Counted
  <1> QED  BY <1>1, LimitAssumption, FS_Subset, FS_CardinalityType

(* A new proxy satisfies the inductive invariant. *)
LEMMA InitHolds == Init => IndInv
  <1> SUFFICES ASSUME Init PROVE IndInv
    OBVIOUS
  <1> USE DEF Init, ForwardInit
  <1>1. Counted = {}  BY DEF Counted
  <1>2. Cardinality(Counted) = 0  BY <1>1, FS_EmptySet
  <1>3. TypeOK
    <2>1. NoStreamLimit \in Limits \cup {NoStreamLimit}
      OBVIOUS
    <2> QED  BY <2>1 DEF TypeOK, Phases, NoWorker
  <1>4. Roster  BY <1>2 DEF Roster, Live
  <1>5. Owned  BY DEF Owned
  <1>6. \A r \in Requests : Tied(r)  BY DEF Tied, PumpDone, Pumping
  <1> QED  BY <1>3, <1>4, <1>5, <1>6 DEF IndInv

-----------------------------------------------------------------------------
(* Forward and the pump of one request. *)
LEMMA ForwardingTypes ==
  ASSUME NEW r \in Requests, TypeOK,
         \/ Forwarding(r) \/ PumpSteps(r) \/ BodyReturns(r) \/ WriteReturns(r)
         \/ Environment(r)
  PROVE  TypeOK'
  <1> USE DEF TypeOK, tunnelVars, registryVars, requestVars, proxyVars, Goto, Answer
  <1>1. CASE Pick(r) /\ UNCHANGED proxyVars
    <2>1. at' \in [Requests -> Tunnels \cup {NoWorker}]
      BY <1>1 DEF Pick, Available
    <2>2. answer' \in [Requests -> {"none", "200", "502", "503"}]
      BY <1>1 DEF Pick
    <2>3. fwd' \in [Requests -> {"pick", "open", "register", "send", "wait", "copy",
                                 "write", "join", "deregister", "done"}]
      BY <1>1 DEF Pick
    <2> QED  BY <1>1, <2>1, <2>2, <2>3 DEF Pick
  <1>2. CASE Refuse(r) /\ UNCHANGED proxyVars
    <2>1. answer' \in [Requests -> {"none", "200", "502", "503"}]
      BY <1>2 DEF Refuse
    <2> QED  BY <1>2, <2>1 DEF Refuse
  <1>13. CASE OpenCheck(r) /\ UNCHANGED proxyVars
    <2>1. streamsMu' \in [Tunnels -> SUBSET Requests]
      BY <1>13 DEF OpenCheck
    <2> QED  BY <1>13, <2>1 DEF OpenCheck
  <1>3. CASE Register(r) /\ UNCHANGED proxyVars
    <2>1. streams' \in [Tunnels -> SUBSET Requests]
      BY <1>3 DEF Register
    <2>2. registry' \in [Tunnels -> SUBSET Requests]
      BY <1>3 DEF Register
    <2> QED  BY <1>3, <2>1, <2>2 DEF Register
  <1>14. CASE SendRequestHeaders(r) /\ UNCHANGED proxyVars
    <2>1. streamsMu' \in [Tunnels -> SUBSET Requests]
      BY <1>14 DEF SendRequestHeaders
    <2> QED  BY <1>14, <2>1 DEF SendRequestHeaders
  <1>4. CASE RollBack(r) /\ UNCHANGED proxyVars
    <2>1. streams' \in [Tunnels -> SUBSET Requests]
      BY <1>4 DEF RollBack
    <2>2. registry' \in [Tunnels -> SUBSET Requests]
      BY <1>4 DEF RollBack, RemoveStream
    <2>3. streamsMu' \in [Tunnels -> SUBSET Requests]
      BY <1>4 DEF RollBack
    <2>4. drained' \in [Tunnels -> BOOLEAN]
      BY <1>4 DEF RollBack, RemoveStream
    <2> QED  BY <1>4, <2>1, <2>2, <2>3, <2>4 DEF RollBack
  <1>5. CASE Respond(r) /\ UNCHANGED proxyVars
    <2>1. answer' \in [Requests -> {"none", "200", "502", "503"}]
      BY <1>5 DEF Respond
    <2> QED  BY <1>5, <2>1 DEF Respond
  <1>15. CASE Disconnected(r) /\ UNCHANGED proxyVars
    BY <1>15 DEF Disconnected
  <1>6. CASE (Cancel(r) \/ CopyWriteFails(r) \/ Watch(r)) /\ UNCHANGED proxyVars
    <2>1. rst' \in [Requests -> BOOLEAN]
      BY <1>6 DEF Cancel, CopyWriteFails, Watch, SendRST
    <2>2. CASE Cancel(r)  BY <1>6, <2>1, <2>2 DEF Cancel
    <2>3. CASE CopyWriteFails(r)  BY <1>6, <2>1, <2>3 DEF CopyWriteFails
    <2>4. CASE Watch(r)  BY <1>6, <2>1, <2>4 DEF Watch
    <2> QED  BY <1>6, <2>2, <2>3, <2>4
  <1>7. CASE (CopyEnds(r) \/ CopyWrites(r)) /\ UNCHANGED proxyVars
    BY <1>7 DEF CopyEnds, CopyWrites
  <1>8. CASE Join(r) /\ UNCHANGED proxyVars
    <2>1. registry' \in [Tunnels -> SUBSET Requests]
      BY <1>8 DEF Join, RemoveStream
    <2>2. drained' \in [Tunnels -> BOOLEAN]
      BY <1>8 DEF Join, RemoveStream
    <2> QED  BY <1>8, <2>1, <2>2 DEF Join
  <1>9. CASE Deregister(r) /\ UNCHANGED proxyVars
    BY <1>9 DEF Deregister
  <1>10. CASE (PumpReads(r) \/ PumpDetached(r) \/ PumpSends(r) \/ PumpSendFails(r)
               \/ PumpDead(r) \/ PumpCloses(r)) /\ UNCHANGED proxyVars
    BY <1>10 DEF PumpReads, PumpDetached, PumpSends, PumpSendFails, PumpDead, PumpCloses,
       PumpTo
  <1>16. CASE PumpEnds(r) /\ UNCHANGED proxyVars
    BY <1>16 DEF PumpEnds, PumpTo
  <1>11. CASE PumpResets(r) /\ UNCHANGED proxyVars
    BY <1>11 DEF PumpResets, PumpTo, SendRST
  <1>12. CASE Disconnect(r) /\ UNCHANGED proxyVars
    BY <1>12 DEF Disconnect
  <1> QED
    BY <1>1, <1>2, <1>3, <1>4, <1>5, <1>6, <1>7, <1>8, <1>9, <1>10, <1>11, <1>12,
       <1>13, <1>14, <1>15, <1>16
    DEF Forwarding, PumpSteps, BodyReturns, WriteReturns, Environment

(* The steps of a tunnel keep the types. *)
LEMMA TunnelTypes ==
  ASSUME NEW t \in Tunnels, TypeOK, Roster,
         \/ Spawn(t) \/ Preface(t) \/ Settings(t) \/ LaterSettings(t) \/ Serving(t)
         \/ GoAway(t) \/ FatalFrame(t) \/ Break(t)
  PROVE  TypeOK'
  <1> USE DEF TypeOK, Phases, tunnelVars, registryVars, requestVars, proxyVars, OnlyPhase, Step
  <1>1. CASE Spawn(t)
    BY <1>1 DEF Spawn
  <1>2. CASE Preface(t) \/ Handshake(t) \/ AttachCheck(t)
    BY <1>2 DEF Preface, Handshake, AttachCheck
  <1>3. CASE SettingsFails(t)
    BY <1>3 DEF SettingsFails
  <1>12. CASE LoopEnds(t)
    BY <1>12 DEF LoopEnds
  <1>10. CASE DetachWorker(t) \/ FatalFrame(t)
    BY <1>10 DEF DetachWorker, FatalFrame
  <1>4. CASE Attach(t)
    BY <1>4 DEF Attach
  <1>11. CASE DetachProxy(t)
    BY <1>11 DEF DetachProxy
  <1>5. CASE Settings(t) \/ LaterSettings(t)
    BY <1>5 DEF Settings, LaterSettings
  <1>6. CASE FailAllStreams(t)
    <2>1. resp' \in [Requests -> {"none", "headers", "failed"}]
      BY <1>6 DEF FailAllStreams
    <2>2. body' \in [Requests -> {"open", "eof", "err"}]
      BY <1>6 DEF FailAllStreams
    <2> QED  BY <1>6, <2>1, <2>2 DEF FailAllStreams
  <1>7. CASE Done(t)
    <2>1. t \in Counted  BY <1>7 DEF Done, Counted
    <2>2. accepts \in Nat /\ accepts # 0
      BY <2>1, CountedFinite, FS_EmptySet DEF Roster
    <2>3. accepts' \in Nat  BY <1>7, <2>2 DEF Done
    <2> QED  BY <1>7, <2>3 DEF Done
  <1>8. CASE GoAway(t)
    <2>1. drained' \in [Tunnels -> BOOLEAN]
      BY <1>8 DEF GoAway
    <2> QED  BY <1>8, <2>1 DEF GoAway
  <1>9. CASE Break(t)
    BY <1>9 DEF Break
  <1> QED
    BY <1>1, <1>2, <1>3, <1>4, <1>5, <1>6, <1>7, <1>8, <1>9, <1>10, <1>11, <1>12
    DEF Serving

(* Every step keeps the types. *)
LEMMA TypeStep == TypeOK /\ Roster /\ [Next]_vars => TypeOK'
  <1> SUFFICES ASSUME TypeOK, Roster, [Next]_vars PROVE TypeOK'
    OBVIOUS
  <1> USE DEF TypeOK, tunnelVars, registryVars, requestVars, proxyVars
  <1>1. ASSUME NEW r \in Requests,
               \/ PeerHeaders(r) \/ PeerData(r) \/ PeerEnds(r) \/ PeerResets(r)
               \/ BaseCancelled(r)
        PROVE  TypeOK'
    <2>1. CASE PeerHeaders(r)
      BY <2>1 DEF PeerHeaders
    <2>2. CASE PeerEnds(r)
      BY <2>2 DEF PeerEnds
    <2>3. CASE PeerResets(r)
      BY <2>3 DEF PeerResets
    <2>4. CASE PeerData(r)
      BY <2>4 DEF PeerData, Goto
    <2>5. CASE BaseCancelled(r)
      BY <2>5 DEF BaseCancelled
    <2> QED  BY <1>1, <2>1, <2>2, <2>3, <2>4, <2>5
  <1>2. CASE Listen \/ Accept \/ AcceptFails
    BY <1>2 DEF Listen, Accept, AcceptFails
  <1>3. CASE CloseShutdownCh \/ Shutdown \/ CtxDone
    <2>1. [t \in Tunnels |-> t \in workers] \in [Tunnels -> BOOLEAN]
      <3>1. \A t \in Tunnels : (t \in workers) \in BOOLEAN
        OBVIOUS
      <3> QED  BY <3>1, Zenon
    <2>2. poked' = poked \/ poked' = [t \in Tunnels |-> t \in workers]
      BY <1>3 DEF CloseShutdownCh, Shutdown, CloseListener, PokeWorkers, WaitReturns, CtxDone
    <2>3. poked' \in [Tunnels -> BOOLEAN]
      BY <2>1, <2>2
    <2> QED
      BY <1>3, <2>3 DEF CloseShutdownCh, Shutdown, CloseListener, PokeWorkers, WaitReturns,
                        CtxDone
  <1>4. CASE UNCHANGED vars
    BY <1>4 DEF vars
  <1> HIDE DEF TypeOK
  <1> QED
    BY <1>1, <1>2, <1>3, <1>4, ForwardingTypes, TunnelTypes DEF Next

-----------------------------------------------------------------------------
(* The tunnels, attached and counted. *)
Moves(from, to) ==
    \/ from = "handshake" /\ to = "preface"
    \/ from = "preface" /\ to = "attach"
    \/ from \in {"handshake", "preface", "attach"} /\ to = "closing"
    \/ from = "attach" /\ to = "append" /\ shutdown = "idle"
    \/ from = "settings" /\ to \in {"loop", "dead"}
    \/ from = "loop" /\ to = "dead"
    \/ from = "dead" /\ to = "failed"
    \/ from = "failed" /\ to = "detached"

(* The steps of a tunnel that attach, detach and count nothing. *)
LEMMA TunnelMoves ==
  ASSUME NEW t \in Tunnels,
         \/ Preface(t) \/ Settings(t) \/ Handshake(t) \/ AttachCheck(t)
         \/ SettingsFails(t) \/ LoopEnds(t) \/ FailAllStreams(t) \/ DetachWorker(t)
         \/ FatalFrame(t)
  PROVE  /\ \E to : Step(t, phase[t], to) /\ Moves(phase[t], to)
         /\ UNCHANGED <<workers, accepts, shutdown, broken>>
  <1> USE DEF Step, Moves, OnlyPhase, proxyVars
  <1>1. CASE Handshake(t) \/ Preface(t)
    BY <1>1 DEF Handshake, Preface
  <1>2. CASE AttachCheck(t)
    BY <1>2 DEF AttachCheck, ShuttingDown
  <1>3. CASE Settings(t)
    BY <1>3 DEF Settings
  <1>4. CASE SettingsFails(t) \/ LoopEnds(t) \/ FatalFrame(t)
    BY <1>4 DEF SettingsFails, LoopEnds, FatalFrame
  <1>5. CASE FailAllStreams(t) \/ DetachWorker(t)
    BY <1>5 DEF FailAllStreams, DetachWorker
  <1> QED  BY <1>1, <1>2, <1>3, <1>4, <1>5

(* The registry, the limiter and the tunnels' phases agree after every      *)
(* step.                                                                    *)
LEMMA RosterStep == TypeOK /\ Roster /\ [Next]_vars => Roster'
  <1> SUFFICES ASSUME TypeOK, Roster, [Next]_vars PROVE Roster'
    OBVIOUS
  <1> USE DEF tunnelVars, registryVars, requestVars, proxyVars
  <1>1. CASE UNCHANGED <<workers, phase, accepts, shutdown>>
    BY <1>1 DEF Roster, Counted
  <1>2. ASSUME NEW r \in Requests,
               \/ Forwarding(r) \/ PumpSteps(r) \/ BodyReturns(r) \/ WriteReturns(r)
               \/ Environment(r) \/ BaseCancelled(r)
               \/ PeerHeaders(r) \/ PeerData(r) \/ PeerEnds(r) \/ PeerResets(r)
        PROVE  UNCHANGED <<workers, phase, accepts, shutdown>>
    BY <1>2 DEF Forwarding, PumpSteps, BodyReturns, WriteReturns, Environment,
       BaseCancelled, PeerHeaders, PeerData, PeerEnds, PeerResets, Pick, Refuse, OpenCheck, Register, SendRequestHeaders, RollBack, Respond, Cancel,
       Disconnected, CopyEnds, CopyWrites, CopyWriteFails, Watch, Join, Deregister, PumpTo,
       PumpReads, PumpEnds, PumpResets, PumpDetached, PumpSends, PumpSendFails, PumpDead,
       PumpCloses, Disconnect
  <1>3. ASSUME NEW t \in Tunnels,
               \/ Preface(t) \/ Settings(t) \/ Handshake(t) \/ AttachCheck(t)
               \/ SettingsFails(t) \/ LoopEnds(t) \/ FailAllStreams(t) \/ DetachWorker(t)
               \/ FatalFrame(t)
        PROVE  Roster'
    <2>1. PICK to : /\ Step(t, phase[t], to) /\ Moves(phase[t], to)
                    /\ UNCHANGED <<workers, accepts, shutdown>>
      BY <1>3, TunnelMoves
    <2>2. /\ phase[t] \notin {"none", "gone"} /\ to \notin {"none", "gone"}
          /\ phase[t] \in Live <=> to \in Live
          /\ to = "append" => shutdown = "idle"
      BY <2>1 DEF Moves, Live
    <2>3. Counted' = Counted
      BY <2>1, <2>2 DEF Step, Counted, TypeOK
    <2>5. workers' = {u \in Tunnels : phase'[u] \in Live}
      BY <2>1, <2>2 DEF Step, Roster, TypeOK
    <2>6. shutdown' = "nil" => \A u \in Tunnels : phase'[u] \notin Live \cup {"append"}
      BY <2>1, <2>2 DEF Step, Roster, TypeOK
    <2> QED  BY <2>1, <2>3, <2>5, <2>6 DEF Roster
  <1>4. ASSUME NEW t \in Tunnels, Attach(t) \/ DetachProxy(t)
        PROVE  Roster'
    <2>1. Counted' = Counted
      BY <1>4 DEF Attach, DetachProxy, Step, Counted, TypeOK
    <2> QED  BY <1>4, <2>1 DEF Attach, DetachProxy, Step, Roster, Live, TypeOK
  <1>5. ASSUME NEW t \in Tunnels, Spawn(t)
        PROVE  Roster'
    <2>1. Counted' = Counted \cup {t} /\ t \notin Counted
      BY <1>5 DEF Spawn, Counted, TypeOK
    <2>2. Cardinality(Counted') = Cardinality(Counted) + 1
      BY <2>1, CountedFinite, FS_AddElement
    <2> QED  BY <1>5, <2>2 DEF Spawn, Roster, Live, TypeOK
  <1>6. ASSUME NEW t \in Tunnels, Done(t)
        PROVE  Roster'
    <2>1. Counted' = Counted \ {t} /\ t \in Counted
      BY <1>6 DEF Done, Step, Counted, TypeOK
    <2>2. Cardinality(Counted') = Cardinality(Counted) - 1
      BY <2>1, CountedFinite, FS_RemoveElement
    <2> QED  BY <1>6, <2>2 DEF Done, Step, Roster, Live, TypeOK
  <1>7. ASSUME NEW t \in Tunnels, GoAway(t) \/ Break(t) \/ LaterSettings(t)
        PROVE  UNCHANGED <<workers, phase, accepts, shutdown>>
    BY <1>7 DEF GoAway, Break, LaterSettings
  <1>8. CASE Listen \/ Accept \/ AcceptFails \/ UNCHANGED vars
    BY <1>1, <1>8 DEF Listen, Accept, AcceptFails, vars
  <1>9. CASE CloseShutdownCh \/ CloseListener \/ PokeWorkers \/ CtxDone
    BY <1>9 DEF CloseShutdownCh, CloseListener, PokeWorkers, CtxDone, Roster, Counted
  <1>10. CASE WaitReturns
    <2>1. Counted = {}
      BY <1>10, CountedFinite, FS_EmptySet DEF WaitReturns, Roster
    <2>2. \A t \in Tunnels : phase[t] \notin Live \cup {"append"}
      BY <2>1 DEF Counted, Live
    <2> QED  BY <1>10, <2>2 DEF WaitReturns, Roster, Counted
  <1> QED
    BY <1>1, <1>2, <1>3, <1>4, <1>5, <1>6, <1>7, <1>8, <1>9, <1>10
    DEF Next, Serving, Shutdown

-----------------------------------------------------------------------------
(* A request, when others move: it keeps its place and its stream, and its  *)
(* tunnel only moves on.                                                    *)
Same(q) ==
    /\ fwd'[q] = fwd[q] /\ at'[q] = at[q] /\ resp'[q] = resp[q] /\ body'[q] = body[q]
    /\ pump'[q] = pump[q] /\ ctx'[q] = ctx[q] /\ rst'[q] = rst[q] /\ peer'[q] = peer[q]
    /\ answer'[q] = answer[q]

Onward ==
    /\ \A t \in Tunnels :
          /\ phase[t] \in Served => phase'[t] \in Served
          /\ Dead(t) => Dead(t)'
          /\ broken[t] => broken'[t]
    /\ ShuttingDown => ShuttingDown'

Kept(q) == \A t \in Tunnels : q \in streams[t] => q \in streams'[t]

(* shutdownCh stays closed. *)
LEMMA ShutdownStays == [Next]_vars /\ ShuttingDown => ShuttingDown'
  <1> SUFFICES ASSUME [Next]_vars, ShuttingDown, ~ShuttingDown' PROVE FALSE
    OBVIOUS
  <1> USE DEF ShuttingDown, proxyVars
  <1>1. ASSUME NEW r \in Requests,
               \/ Forwarding(r) \/ PumpSteps(r) \/ BodyReturns(r) \/ WriteReturns(r)
               \/ Environment(r) \/ BaseCancelled(r)
               \/ PeerHeaders(r) \/ PeerData(r) \/ PeerEnds(r) \/ PeerResets(r)
        PROVE  FALSE
    BY <1>1 DEF Forwarding, PumpSteps, BodyReturns, WriteReturns, Environment,
       BaseCancelled, PeerHeaders, PeerData, PeerEnds, PeerResets
  <1>2. ASSUME NEW t \in Tunnels,
               \/ Spawn(t) \/ Preface(t) \/ Settings(t) \/ LaterSettings(t) \/ Serving(t)
               \/ GoAway(t) \/ FatalFrame(t) \/ Break(t)
        PROVE  FALSE
    BY <1>2 DEF Spawn, Preface, Settings, LaterSettings, Serving, GoAway, FatalFrame, Break,
       Handshake, AttachCheck, Attach, SettingsFails, LoopEnds, FailAllStreams,
       DetachWorker, DetachProxy, Done, OnlyPhase
  <1>3. CASE Listen \/ Accept \/ AcceptFails \/ CloseShutdownCh \/ Shutdown \/ CtxDone
             \/ UNCHANGED vars
    BY <1>3 DEF Listen, Accept, AcceptFails, CloseShutdownCh, Shutdown, CloseListener,
       PokeWorkers, WaitReturns, CtxDone, vars
  <1> QED  BY <1>1, <1>2, <1>3 DEF Next

(* A tunnel that is dead or broken never comes back. *)
LEMMA OnwardStep == TypeOK /\ [Next]_vars => Onward
  <1> SUFFICES ASSUME TypeOK, [Next]_vars PROVE Onward
    OBVIOUS
  <1> USE DEF tunnelVars, registryVars, requestVars, proxyVars
  <1>6. ShuttingDown => ShuttingDown'
    BY ShutdownStays
  <1>1. CASE UNCHANGED <<phase, broken>>
    BY <1>1, <1>6 DEF Onward, Dead
  <1>2. ASSUME NEW r \in Requests,
               \/ Forwarding(r) \/ PumpSteps(r) \/ BodyReturns(r) \/ WriteReturns(r)
               \/ Environment(r) \/ BaseCancelled(r)
               \/ PeerHeaders(r) \/ PeerData(r) \/ PeerEnds(r) \/ PeerResets(r)
        PROVE  UNCHANGED <<phase, broken>>
    BY <1>2 DEF Forwarding, PumpSteps, BodyReturns, WriteReturns, Environment,
       BaseCancelled, PeerHeaders, PeerData, PeerEnds, PeerResets, Pick, Refuse, OpenCheck, Register, SendRequestHeaders, RollBack, Respond, Cancel,
       Disconnected, CopyEnds, CopyWrites, CopyWriteFails, Watch, Join, Deregister, PumpTo,
       PumpReads, PumpEnds, PumpResets, PumpDetached, PumpSends, PumpSendFails, PumpDead,
       PumpCloses, Disconnect
  <1>3. ASSUME NEW t \in Tunnels,
               Spawn(t) \/ Preface(t) \/ Settings(t) \/ Serving(t) \/ FatalFrame(t)
        PROVE  Onward
    <2>1. CASE Spawn(t) \/ Attach(t)
      BY <2>1, <1>6 DEF Spawn, Attach, Step, Served, Live, Onward, Dead, TypeOK
    <2>2. CASE DetachProxy(t) \/ Done(t)
      BY <2>2, <1>6 DEF DetachProxy, Done, Step, Served, Live, Onward, Dead, TypeOK
    <2>3. CASE ~(Spawn(t) \/ Attach(t) \/ DetachProxy(t) \/ Done(t))
      <3>1. PICK to : Step(t, phase[t], to) /\ Moves(phase[t], to) /\ UNCHANGED broken
        BY <1>3, <2>3, TunnelMoves DEF Serving
      <3>2. phase[t] \in Served => to \in Served
        BY <3>1 DEF Moves, Served, Live
      <3> QED  BY <3>1, <3>2, <1>6 DEF Moves, Step, Onward, Dead, TypeOK
    <2> QED  BY <2>1, <2>2, <2>3
  <1>4. ASSUME NEW t \in Tunnels, GoAway(t) \/ Break(t) \/ LaterSettings(t)
        PROVE  Onward
    BY <1>4, <1>6 DEF GoAway, Break, LaterSettings, Onward, Dead, TypeOK
  <1>5. CASE Listen \/ Accept \/ AcceptFails \/ CloseShutdownCh \/ Shutdown \/ CtxDone
             \/ UNCHANGED vars
    BY <1>1, <1>5 DEF Listen, Accept, AcceptFails, CloseShutdownCh, Shutdown, CloseListener,
       PokeWorkers, WaitReturns, CtxDone, vars
  <1> QED  BY <1>1, <1>2, <1>3, <1>4, <1>5 DEF Next

(* All that the steps below use of the types. *)
Shaped ==
    /\ DOMAIN fwd = Requests /\ DOMAIN at = Requests /\ DOMAIN resp = Requests
    /\ body \in [Requests -> {"open", "eof", "err"}]
    /\ DOMAIN pump = Requests /\ DOMAIN ctx = Requests
    /\ DOMAIN rst = Requests /\ DOMAIN peer = Requests /\ DOMAIN answer = Requests
    /\ DOMAIN phase = Tunnels /\ DOMAIN broken = Tunnels
    /\ streams \in [Tunnels -> SUBSET Requests]

(* The part of TypeOK that the steps of a request use. *)
LEMMA TypesShape == TypeOK => Shaped
  BY DEF TypeOK, Shaped

(* A request that a step leaves alone keeps its tie to its tunnel. *)
LEMMA Undisturbed ==
  ASSUME NEW q \in Requests, Shaped, Tied(q), Same(q), Onward, Kept(q)
  PROVE  Tied(q)'
  BY DEF Shaped, Tied, Same, Onward, Kept, Lost, PumpDone, Dead, Pumping

(* SendRST either queues the frame or the tunnel is lost. *)
LEMMA ResetOrLost ==
  ASSUME NEW r \in Requests, Shaped, at[r] \in Tunnels, phase[at[r]] \in Served, SendRST(r)
  PROVE  rst'[r] \/ Lost(at[r])
  BY DEF Shaped, SendRST, Writable, Lost, Dead, Served, Live

(* The steps of forward on its own request. *)
LEMMA ForwardTied ==
  ASSUME NEW r \in Requests, Shaped, Roster, Owned, Tied(r), UNCHANGED shutdown,
         Forwarding(r) \/ WriteReturns(r)
  PROVE  Tied(r)'
  <1> USE DEF Shaped, Tied, tunnelVars, registryVars, Goto, Answer, PumpDone, Lost, Dead,
             ShuttingDown, Pumping
  <1>1. CASE Pick(r)
    <2>1. CASE Goto(r, "done") /\ Answer(r, "503") /\ UNCHANGED at
      BY <1>1, <2>1 DEF Pick
    <2>2. ASSUME NEW t \in Available, at' = [at EXCEPT ![r] = t], Goto(r, "open")
          PROVE  Tied(r)'
      <3>1. t \in Tunnels /\ phase[t] \in Served
        BY <2>2 DEF Available, Roster, Served
      <3> QED  BY <1>1, <2>2, <3>1 DEF Pick
    <2> QED  BY <1>1, <2>1, <2>2 DEF Pick
  <1>2. CASE Refuse(r)
    BY <1>2 DEF Refuse
  <1>3. CASE OpenCheck(r)
    BY <1>3 DEF OpenCheck
  <1>4. CASE Register(r)
    BY <1>4 DEF Register
  <1>5. CASE SendRequestHeaders(r)
    BY <1>5 DEF SendRequestHeaders
  <1>6. CASE RollBack(r)
    BY <1>6 DEF RollBack
  <1>7. CASE Respond(r)
    BY <1>7 DEF Respond
  <1>8. CASE Cancel(r) \/ CopyWriteFails(r)
    <2>1. rst'[r] \/ Lost(at[r])
      BY <1>8, ResetOrLost DEF Cancel, CopyWriteFails
    <2>2. CASE Cancel(r)  BY <2>1, <2>2 DEF Cancel
    <2>3. CASE CopyWriteFails(r)  BY <2>1, <2>3 DEF CopyWriteFails
    <2> QED  BY <1>8, <2>2, <2>3
  <1>9. CASE Disconnected(r)
    BY <1>9 DEF Disconnected, Detached
  <1>10. CASE CopyEnds(r)
    BY <1>10 DEF CopyEnds
  <1>13. CASE CopyWrites(r)
    BY <1>13 DEF CopyWrites
  <1>11. CASE Join(r)
    BY <1>11 DEF Join
  <1>12. CASE Deregister(r)
    BY <1>12 DEF Deregister
  <1> QED
    BY <1>1, <1>2, <1>3, <1>4, <1>5, <1>6, <1>7, <1>8, <1>9, <1>10, <1>11, <1>12, <1>13
    DEF Forwarding, WriteReturns

(* The pump, the watcher, the client and the worker, on the request. *)
LEMMA AroundTied ==
  ASSUME NEW r \in Requests, Shaped, Owned, Tied(r), UNCHANGED shutdown,
         \/ PumpSteps(r) \/ BodyReturns(r) \/ Environment(r) \/ BaseCancelled(r)
         \/ PeerHeaders(r) \/ PeerData(r) \/ PeerEnds(r) \/ PeerResets(r)
  PROVE  Tied(r)'
  <1> USE DEF Shaped, Tied, tunnelVars, registryVars, ShuttingDown, Pumping
  <1>1. CASE PumpReads(r) \/ PumpSends(r) \/ PumpCloses(r)
    BY <1>1 DEF PumpReads, PumpSends, PumpCloses, PumpTo, PumpDone, Lost, Dead
  <1>2. CASE PumpDead(r) \/ PumpDetached(r)
    BY <1>2 DEF PumpDead, PumpDetached, Detached, PumpTo, PumpDone, Lost, Dead
  <1>12. CASE PumpSendFails(r)
    <2>1. Lost(at[r])
      BY <1>12 DEF PumpSendFails, PumpDone, Lost, Dead, Writable, Served, Live
    <2> QED  BY <1>12, <2>1 DEF PumpSendFails, PumpTo, PumpDone, Lost, Dead
  <1>9. CASE PumpEnds(r)
    BY <1>9 DEF PumpEnds, PumpTo, PumpDone, Lost, Dead, Writable, Served, Live
  <1>3. CASE PumpResets(r)
    <2>1. rst'[r] \/ Lost(at[r])
      BY <1>3, ResetOrLost DEF PumpResets
    <2> QED  BY <1>3, <2>1 DEF PumpResets, PumpTo, SendRST, PumpDone, Lost, Dead
  <1>4. CASE Watch(r)
    BY <1>4 DEF Watch, SendRST, PumpDone, Lost, Dead
  <1>5. CASE Disconnect(r)
    BY <1>5 DEF Disconnect, PumpDone, Lost, Dead
  <1>6. CASE PeerHeaders(r)
    BY <1>6 DEF PeerHeaders, PumpDone, Lost, Dead
  <1>7. CASE PeerEnds(r)
    BY <1>7 DEF PeerEnds, PumpDone, Lost, Dead
  <1>8. CASE PeerResets(r)
    BY <1>8 DEF PeerResets, PumpDone, Lost, Dead
  <1>10. CASE PeerData(r)
    BY <1>10 DEF PeerData, Goto, PumpDone, Lost, Dead
  <1>11. CASE BaseCancelled(r)
    BY <1>11 DEF BaseCancelled, PumpDone, Lost, Dead
  <1> QED
    BY <1>1, <1>2, <1>3, <1>4, <1>5, <1>6, <1>7, <1>8, <1>9, <1>10, <1>11, <1>12
    DEF PumpSteps, BodyReturns, Environment

-----------------------------------------------------------------------------
(* The steps of forward and of its pump keep every request tied to its      *)
(* tunnel.                                                                  *)
LEMMA RequestStep ==
  ASSUME NEW r \in Requests, Shaped, Roster, Owned, Onward, \A q \in Requests : Tied(q),
         \/ Forwarding(r) \/ PumpSteps(r) \/ BodyReturns(r) \/ WriteReturns(r)
         \/ Environment(r) \/ BaseCancelled(r)
         \/ PeerHeaders(r) \/ PeerData(r) \/ PeerEnds(r) \/ PeerResets(r)
  PROVE  Owned' /\ \A q \in Requests : Tied(q)'
  <1> USE DEF Shaped, tunnelVars, registryVars, Goto, Answer
  <1>1. \A q \in Requests \ {r} : Same(q) /\ Kept(q)
    <2>1. CASE Forwarding(r) \/ WriteReturns(r)
      <3>1. CASE Pick(r)
        BY <3>1 DEF Pick, Same, Kept
      <3>2. CASE Refuse(r) \/ OpenCheck(r)
        BY <3>2 DEF Refuse, OpenCheck, Same, Kept
      <3>3. CASE Register(r) \/ SendRequestHeaders(r)
        <4>1. CASE Register(r)  BY <4>1 DEF Register, Same, Kept
        <4>2. CASE SendRequestHeaders(r)  BY <4>2 DEF SendRequestHeaders, Same, Kept
        <4> QED  BY <3>3, <4>1, <4>2
      <3>4. CASE RollBack(r)
        BY <3>4 DEF RollBack, Same, Kept
      <3>5. CASE Respond(r) \/ Disconnected(r) \/ CopyEnds(r) \/ CopyWrites(r)
        BY <3>5 DEF Respond, Disconnected, CopyEnds, CopyWrites, Same, Kept
      <3>6. CASE Cancel(r) \/ CopyWriteFails(r)
        BY <3>6 DEF Cancel, CopyWriteFails, SendRST, Same, Kept
      <3>7. CASE Join(r)
        BY <3>7 DEF Join, Same, Kept
      <3>8. CASE Deregister(r)
        BY <3>8 DEF Deregister, Same, Kept
      <3> QED
        BY <2>1, <3>1, <3>2, <3>3, <3>4, <3>5, <3>6, <3>7, <3>8 DEF Forwarding, WriteReturns
    <2>2. CASE PumpSteps(r) \/ BodyReturns(r) \/ Environment(r)
      BY <2>2 DEF PumpSteps, BodyReturns, Environment, PumpTo, PumpReads, PumpEnds,
         PumpResets, PumpDetached, PumpSends, PumpSendFails, PumpDead, PumpCloses,
         Disconnect, Watch, SendRST, Same, Kept
    <2>3. CASE PeerHeaders(r) \/ PeerData(r) \/ PeerEnds(r) \/ PeerResets(r) \/ BaseCancelled(r)
      BY <2>3 DEF PeerHeaders, PeerData, PeerEnds, PeerResets, BaseCancelled, Same, Kept
    <2> QED  BY <2>1, <2>2, <2>3
  <1>2. Owned'
    <2>1. CASE Forwarding(r) \/ WriteReturns(r)
      <3>1. CASE Pick(r)
        <4>1. \A t \in Tunnels : r \notin streams[t]
          BY <3>1 DEF Pick, Owned
        <4>2. streams' = streams /\ \A q \in Requests \ {r} : at'[q] = at[q] /\ fwd'[q] = fwd[q]
          BY <3>1 DEF Pick
        <4>3. \A t \in Tunnels : \A q \in streams'[t] : q \in Requests \ {r} /\ q \in streams[t]
          BY <4>1, <4>2
        <4> QED  BY <4>2, <4>3 DEF Owned
      <3>2. CASE Refuse(r)
        <4>1. \A t \in Tunnels : r \notin streams[t]
          BY <3>2 DEF Refuse, Owned
        <4>2. UNCHANGED <<streams, at>> /\ \A q \in Requests \ {r} : fwd'[q] = fwd[q]
          BY <3>2 DEF Refuse
        <4>3. \A t \in Tunnels : \A q \in streams'[t] : q \in Requests \ {r} /\ q \in streams[t]
          BY <4>1, <4>2
        <4> QED  BY <4>2, <4>3 DEF Owned
      <3>3. CASE Register(r)
        BY <3>3 DEF Register, Owned
      <3>4. CASE \/ OpenCheck(r) \/ SendRequestHeaders(r) \/ Respond(r) \/ Disconnected(r)
                 \/ CopyEnds(r) \/ CopyWrites(r) \/ Join(r) \/ Cancel(r) \/ CopyWriteFails(r)
        <4>1. \E l \in {"register", "wait", "copy", "write", "join", "deregister"} :
                 UNCHANGED <<streams, at>> /\ Goto(r, l)
          BY <3>4 DEF OpenCheck, SendRequestHeaders, Respond, Disconnected, CopyEnds,
             CopyWrites, Join, Cancel, CopyWriteFails
        <4> QED  BY <4>1 DEF Owned
      <3>5. CASE RollBack(r) \/ Deregister(r)
        <4>1. \A t \in Tunnels : r \notin streams'[t] /\ streams'[t] \subseteq streams[t]
          <5>1. streams' = [streams EXCEPT ![at[r]] = @ \ {r}]
            BY <3>5 DEF RollBack, Deregister
          <5> QED  BY <5>1 DEF Owned
        <4>2. at' = at /\ \A q \in Requests \ {r} : fwd'[q] = fwd[q]
          <5>1. at' = at /\ Goto(r, "done")
            BY <3>5 DEF RollBack, Deregister
          <5> QED  BY <5>1
        <4>3. \A t \in Tunnels : \A q \in streams'[t] : q \in Requests \ {r} /\ q \in streams[t]
          BY <4>1, <4>2
        <4> QED  BY <4>2, <4>3 DEF Owned
      <3> QED
        BY <2>1, <3>1, <3>2, <3>3, <3>4, <3>5 DEF Forwarding, WriteReturns
    <2>2. CASE PumpSteps(r) \/ BodyReturns(r) \/ Environment(r)
      BY <2>2 DEF PumpSteps, BodyReturns, Environment, PumpTo, PumpReads, PumpEnds,
         PumpResets, PumpDetached, PumpSends, PumpSendFails, PumpDead, PumpCloses,
         Disconnect, Watch, Owned
    <2>3. CASE PeerHeaders(r) \/ PeerEnds(r) \/ PeerResets(r) \/ BaseCancelled(r)
      BY <2>3 DEF PeerHeaders, PeerEnds, PeerResets, BaseCancelled, Owned
    <2>4. CASE PeerData(r)
      <3>1. UNCHANGED <<streams, at>> /\ Goto(r, "write")
        BY <2>4 DEF PeerData
      <3> QED  BY <3>1 DEF Owned
    <2> QED  BY <2>1, <2>2, <2>3, <2>4
  <1> HIDE DEF Shaped
  <1>3. \A q \in Requests \ {r} : Tied(q)'
    BY <1>1, Undisturbed
  <1>4. UNCHANGED shutdown
    BY DEF Forwarding, PumpSteps, BodyReturns, WriteReturns, Environment, BaseCancelled,
       PeerHeaders, PeerData, PeerEnds, PeerResets, proxyVars
  <1>5. Tied(r)'
    BY <1>4, ForwardTied, AroundTied
  <1> QED  BY <1>2, <1>3, <1>5

(* failAllStreams keeps every request of the dead tunnel tied to it. *)
LEMMA FailAllTied ==
  ASSUME NEW t \in Tunnels, Shaped, Owned, Onward, FailAllStreams(t),
         NEW q \in Requests, Tied(q)
  PROVE  Tied(q)'
  <1> USE DEF Shaped
  <1>1. Dead(t)' /\ Kept(q)
    BY DEF FailAllStreams, Step, Dead, Kept, registryVars
  <1>2. CASE q \notin streams[t]
    <2>1. Same(q)  BY <1>2 DEF FailAllStreams, Same
    <2> QED  BY <1>1, <2>1, Undisturbed
  <1>3. CASE q \in streams[t]
    <2>1. at[q] = t /\ fwd[q] \notin {"pick", "open", "done"}  BY <1>3 DEF Owned
    <2>2. /\ fwd'[q] = fwd[q] /\ at'[q] = t /\ pump'[q] = pump[q] /\ ctx'[q] = ctx[q]
          /\ rst'[q] = rst[q] /\ peer'[q] = peer[q] /\ answer'[q] = answer[q]
          /\ body'[q] = "eof" => body[q] = "eof"
      BY <2>1 DEF FailAllStreams
    <2>3. phase'[t] \in Served  BY DEF FailAllStreams, Step, Served, Live
    <2>4. Lost(t)'  BY <1>1 DEF Lost
    <2>5. ShuttingDown => ShuttingDown'  BY DEF Onward
    <2> QED
      BY <1>1, <1>3, <2>1, <2>2, <2>3, <2>4, <2>5 DEF Tied, Kept, PumpDone, Pumping
  <1> QED  BY <1>2, <1>3

(* The invariant is inductive. *)
LEMMA IndStep == IndInv /\ [Next]_vars => IndInv'
  <1> SUFFICES ASSUME IndInv, [Next]_vars PROVE IndInv'
    OBVIOUS
  <1> USE DEF IndInv
  <1>1. TypeOK' /\ Roster' /\ Onward /\ Shaped
    BY TypeStep, RosterStep, OnwardStep, TypesShape
  <1>2. ASSUME NEW r \in Requests,
               \/ Forwarding(r) \/ PumpSteps(r) \/ BodyReturns(r) \/ WriteReturns(r)
               \/ Environment(r) \/ BaseCancelled(r)
               \/ PeerHeaders(r) \/ PeerData(r) \/ PeerEnds(r) \/ PeerResets(r)
        PROVE  Owned' /\ \A q \in Requests : Tied(q)'
    BY <1>1, <1>2, RequestStep
  <1>3. ASSUME NEW t \in Tunnels, FailAllStreams(t)
        PROVE  Owned' /\ \A q \in Requests : Tied(q)'
    <2>1. Owned'  BY <1>3 DEF FailAllStreams, Owned, registryVars
    <2> QED  BY <1>1, <1>3, <2>1, FailAllTied
  <1>4. CASE UNCHANGED <<requestVars, streams>>
    <2>1. Owned'  BY <1>4 DEF Owned, requestVars
    <2>2. \A q \in Requests : Same(q) /\ Kept(q)
      BY <1>4 DEF Same, Kept, requestVars
    <2> QED  BY <1>1, <2>1, <2>2, Undisturbed
  <1>5. CASE \E t \in Tunnels :
                \/ Spawn(t) \/ Preface(t) \/ Settings(t) \/ LaterSettings(t) \/ GoAway(t)
                \/ FatalFrame(t)
                \/ Break(t) \/ Handshake(t) \/ AttachCheck(t) \/ Attach(t)
                \/ SettingsFails(t) \/ LoopEnds(t) \/ DetachWorker(t) \/ DetachProxy(t)
                \/ Done(t)
    <2>1. UNCHANGED <<requestVars, streams>>
      BY <1>5 DEF Spawn, Preface, Settings, LaterSettings, GoAway, FatalFrame, Break, Handshake,
         AttachCheck, Attach, SettingsFails, LoopEnds, DetachWorker, DetachProxy, Done,
         OnlyPhase, registryVars
    <2> QED  BY <1>4, <2>1
  <1>6. CASE Listen \/ Accept \/ AcceptFails \/ CloseShutdownCh \/ Shutdown \/ CtxDone
             \/ UNCHANGED vars
    <2>1. UNCHANGED <<requestVars, streams>>
      BY <1>6 DEF Listen, Accept, AcceptFails, CloseShutdownCh, Shutdown, CloseListener,
         PokeWorkers, WaitReturns, CtxDone, vars, registryVars
    <2> QED  BY <1>4, <2>1
  <1> QED  BY <1>1, <1>2, <1>3, <1>5, <1>6 DEF Next, Serving

-----------------------------------------------------------------------------
(* The inductive invariant. *)
THEOREM ProxyInvariant == Spec => []IndInv
  BY InitHolds, IndStep, PTL DEF Spec

(* The variables keep their types; the WaitGroup of the accept goroutines   *)
(* is never negative.                                                       *)
THEOREM ProxyTypes == Spec => []TypeOK
  <1>1. IndInv => TypeOK  BY DEF IndInv
  <1> QED  BY <1>1, ProxyInvariant, PTL

(* The invariant implies that no stream is left open. *)
LEMMA Settles == IndInv => StreamSettled
  BY DEF IndInv, Tied, StreamSettled, PeerCounts, PumpDone, Lost, TypeOK

(* No forward leaves its stream open at the worker of a live tunnel. *)
THEOREM ProxyStreamsSettled == Spec => []StreamSettled
  BY Settles, ProxyInvariant, PTL

(* Every request is answered, unless its client has left or Shutdown has    *)
(* cancelled its context: that no other exit of forward is silent rests on  *)
(* the answer being written before the copy loop and before each join.      *)
THEOREM ProxyClientsAnswered == Spec => []ClientAnswered
  <1>1. IndInv => ClientAnswered  BY DEF IndInv, Tied, ClientAnswered, TypeOK
  <1> QED  BY <1>1, ProxyInvariant, PTL

(* When Shutdown has returned nil, no worker is attached or ever will be.   *)
THEOREM ProxyNilMeansNoWorkers == Spec => []NilMeansNoWorkers
  <1>1. IndInv => NilMeansNoWorkers
    BY DEF IndInv, Roster, NilMeansNoWorkers, Live
  <1> QED  BY <1>1, ProxyInvariant, PTL

(* Only OpenCheck admits a stream. *)
LEMMA AdmittedByCheck ==
  ASSUME TypeOK, [Next]_vars, NEW r \in Requests, fwd[r] = "open", fwd'[r] = "register"
  PROVE  OpenCheck(r)
  <1> USE DEF tunnelVars, registryVars, requestVars, proxyVars
  <1>1. ASSUME NEW q \in Requests,
               Forwarding(q) \/ WriteReturns(q) \/ PeerData(q), ~OpenCheck(q)
        PROVE  FALSE
    <2>1. \E l \in {"done", "open", "send", "wait", "copy", "write", "join", "deregister"} :
             Goto(q, l)
      BY <1>1 DEF Forwarding, WriteReturns, PeerData, Pick, Refuse, Register,
         SendRequestHeaders, RollBack, Respond, Cancel, Disconnected, CopyEnds, CopyWrites,
         CopyWriteFails, Join, Deregister
    <2> QED  BY <2>1 DEF Goto, TypeOK
  <1>2. ASSUME NEW q \in Requests, OpenCheck(q)
        PROVE  q = r
    BY <1>2 DEF OpenCheck, Goto, TypeOK
  <1>3. ASSUME NEW q \in Requests,
               \/ PumpSteps(q) \/ BodyReturns(q) \/ Environment(q) \/ BaseCancelled(q)
               \/ PeerHeaders(q) \/ PeerEnds(q) \/ PeerResets(q)
        PROVE  UNCHANGED fwd
    BY <1>3 DEF PumpSteps, BodyReturns, Environment, BaseCancelled, PeerHeaders, PeerEnds,
       PeerResets, Watch, PumpTo, PumpReads, PumpEnds, PumpResets, PumpDetached, PumpSends,
       PumpSendFails, PumpDead, PumpCloses, Disconnect
  <1>4. ASSUME NEW t \in Tunnels,
               \/ Spawn(t) \/ Preface(t) \/ Settings(t) \/ LaterSettings(t) \/ Serving(t)
               \/ GoAway(t) \/ FatalFrame(t) \/ Break(t)
        PROVE  UNCHANGED fwd
    BY <1>4 DEF Spawn, Preface, Settings, LaterSettings, Serving, GoAway, FatalFrame, Break,
       Handshake, AttachCheck, Attach, SettingsFails, LoopEnds, FailAllStreams,
       DetachWorker, DetachProxy, Done, OnlyPhase
  <1>5. CASE Listen \/ Accept \/ AcceptFails \/ CloseShutdownCh \/ Shutdown \/ CtxDone
             \/ UNCHANGED vars
    BY <1>5 DEF Listen, Accept, AcceptFails, CloseShutdownCh, Shutdown, CloseListener,
       PokeWorkers, WaitReturns, CtxDone, vars
  <1> QED  BY <1>1, <1>2, <1>3, <1>4, <1>5 DEF Next

(* The worker's limit, as the worker counts, is respected whatever the      *)
(* number of requests and whatever SETTINGS do to it meanwhile: what the worker counts is registered in              *)
(* Worker.streams, because every forward that has returned is settled.      *)
THEOREM ProxyLimitRespected == Spec => LimitRespected
  <1> DEFINE Admits == \A r \in Requests :
                fwd[r] = "open" /\ fwd'[r] = "register" /\ Reading(at[r]) =>
                    Cardinality(PeerCounts(at[r])) < limit[at[r]]
  <1>1. ASSUME IndInv, [Next]_vars PROVE Admits
    <2> SUFFICES ASSUME NEW r \in Requests, fwd[r] = "open", fwd'[r] = "register",
                        Reading(at[r])
                 PROVE  Cardinality(PeerCounts(at[r])) < limit[at[r]]
      OBVIOUS
    <2> DEFINE t == at[r]
    <2>1. t \in Tunnels /\ phase[t] = "loop" /\ ~broken[t]  BY DEF Reading
    <2>2. streams[t] \subseteq Requests /\ IsFiniteSet(streams[t])
      BY <1>1, <2>1, LimitAssumption, FS_Subset DEF IndInv, TypeOK
    <2>8. limit[t] \in Nat
      <3>1. Cardinality(Requests) \in Nat  BY LimitAssumption, FS_CardinalityType
      <3>2. NoStreamLimit \in Nat  BY <3>1 DEF NoStreamLimit
      <3>3. limit[t] \in Limits \cup {NoStreamLimit}  BY <1>1, <2>1, Zenon DEF IndInv, TypeOK
      <3> QED  BY <3>2, <3>3, LimitAssumption
    <2>3. Cardinality(streams[t]) < limit[t]
      <3>1. OpenCheck(r)  BY <1>1, AdmittedByCheck DEF IndInv
      <3>2. ~(Cardinality(streams[t]) >= limit[t])
        BY <3>1 DEF OpenCheck, Saturated
      <3>3. Cardinality(streams[t]) \in Nat  BY <2>2, FS_CardinalityType
      <3>5. \A a, b \in Nat : a >= b \/ a < b
        OBVIOUS
      <3> QED  BY <2>8, <3>2, <3>3, <3>5, Zenon
    <2>4. PeerCounts(t) \subseteq streams[t]
      <3> SUFFICES ASSUME NEW q \in PeerCounts(t) PROVE q \in streams[t]
        OBVIOUS
      <3>1. q \in Requests /\ at[q] = t /\ peer[q] # "idle"  BY DEF PeerCounts
      <3>2. fwd[q] # "done"
        BY <1>1, <2>1, Settles DEF StreamSettled, Dead
      <3> QED  BY <1>1, <3>1, <3>2 DEF IndInv, Tied, TypeOK
    <2>5. Cardinality(PeerCounts(t)) <= Cardinality(streams[t])
      BY <2>2, <2>4, FS_Subset
    <2>6. Cardinality(PeerCounts(t)) \in Nat /\ Cardinality(streams[t]) \in Nat
      BY <2>2, <2>4, FS_Subset, FS_CardinalityType
    <2>7. \A a, b, c \in Nat : a <= b /\ b < c => a < c
      OBVIOUS
    <2>9. Cardinality(PeerCounts(t)) < limit[t]
      BY <2>3, <2>5, <2>6, <2>7, <2>8, Zenon
    <2> QED  BY <2>9, Zenon
  <1> QED  BY <1>1, ProxyInvariant, PTL DEF LimitRespected, Spec
=============================================================================
