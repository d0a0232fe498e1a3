----------------------------- MODULE PoolProofs -----------------------------
(***************************************************************************)
(* Proofs about Pool, for any number of slots, tunnels and callers: the    *)
(* WaitGroup counters are exact, Shutdown can reach every tunnel that is   *)
(* waited for, and a nil Shutdown leaves nothing behind.                   *)
(***************************************************************************)
EXTENDS Pool, FiniteSetTheorems, TLAPS

(* What the counters count. *)
Live == {s \in Slots : pc[s] # "exited"}
Reaping == {c \in Conns : reaper[c] # "none"}
Unready == {s \in Slots : ~once[s]}

(* TypeOK without the counters, whose sign follows from CountersExact. *)
Types ==
    /\ pc \in [Slots -> {"check", "dial", "register", "await", "serving",
                         "backoff", "exited"}]
    /\ conn \in [Slots -> Conns \cup {NoConn}]
    /\ once \in [Slots -> BOOLEAN]
    /\ state \in [Conns -> {"none", "settings", "ready", "draining", "ended"}]
    /\ readyCh \in [Conns -> BOOLEAN]
    /\ drainStarted \in [Conns -> BOOLEAN]
    /\ poked \in [Conns -> BOOLEAN]
    /\ reaper \in [Conns -> {"none", "wait", "done"}]
    /\ conns \in SUBSET Conns
    /\ snapshot \in SUBSET Conns
    /\ shutdownOnce \in {"no", "snapshot", "poke", "done"}
    /\ caller \in [Callers -> {"idle", "do", "nil", "ctx"}]

(* Every tunnel belongs to one slot or to its reaper, which deregisters it  *)
(* before it lets go.                                                       *)
Owned ==
    /\ \A s \in Slots : pc[s] = "exited" => once[s]
    /\ \A s \in Slots : conn[s] # NoConn <=> pc[s] \in {"register", "await", "serving"}
    /\ \A s \in Slots : conn[s] # NoConn =>
          state[conn[s]] # "none" /\ reaper[conn[s]] = "none"
    /\ \A s, u \in Slots : s # u /\ conn[s] # NoConn => conn[s] # conn[u]
    /\ \A c \in Conns : state[c] # "none" =>
          reaper[c] # "none" \/ \E s \in Slots : conn[s] = c
    /\ \A c \in Conns : reaper[c] # "none" => state[c] # "none"
    /\ \A c \in Conns : c \in conns => state[c] # "none" /\ reaper[c] # "done"

(* Once a Shutdown has returned nil, the counter stays at zero. *)
Drained == \A k \in Callers : caller[k] = "nil" => maintainers = 0

IndInv == Types /\ CountersExact /\ Owned /\ WaitedForIsRegistered /\ Drained

-----------------------------------------------------------------------------
(* The sets that the counters count are finite. *)
LEMMA Finite == IsFiniteSet(Live) /\ IsFiniteSet(Reaping) /\ IsFiniteSet(Unready)
  <1>1. Live \subseteq Slots /\ Reaping \subseteq Conns /\ Unready \subseteq Slots
    BY DEF Live, Reaping, Unready
  <1> QED  BY <1>1, SlotAssumption, FS_Subset

(* Their sizes are natural numbers. *)
LEMMA CountsAreNat ==
    Cardinality(Live) \in Nat /\ Cardinality(Reaping) \in Nat /\ Cardinality(Unready) \in Nat
  BY Finite, FS_CardinalityType

(* CountersExact in terms of those sets. *)
LEMMA Counts ==
    CountersExact <=> /\ maintainers = Cardinality(Live) + Cardinality(Reaping)
                      /\ ready = Cardinality(Unready)
  BY DEF CountersExact, Live, Reaping, Unready

(* A new pool satisfies the inductive invariant. *)
LEMMA InitHolds == Init => IndInv
  <1> SUFFICES ASSUME Init PROVE IndInv  OBVIOUS
  <1>1. Types  BY SlotAssumption DEF Init, Types
  <1>2. Live = Slots /\ Reaping = {} /\ Unready = Slots
    BY DEF Init, Live, Reaping, Unready
  <1>3. CountersExact
    BY <1>2, Counts, SlotAssumption, FS_EmptySet, FS_CardinalityType DEF Init
  <1>4. Owned /\ WaitedForIsRegistered /\ Drained
    BY SlotAssumption DEF Init, Owned, WaitedForIsRegistered, Drained
  <1> QED  BY <1>1, <1>3, <1>4 DEF IndInv

-----------------------------------------------------------------------------
(* Every step of a slot, a reaper and Shutdown keeps the types. *)
LEMMA TypeStep == Types /\ Owned /\ [Next]_vars => Types'
  <1> SUFFICES ASSUME Types, Owned, [Next]_vars PROVE Types'  OBVIOUS
  <1> USE DEF Types
  <1>1. ASSUME NEW s \in Slots, Slot(s) PROVE Types'
    <2>1. CASE Stop(s) \/ AwaitReady(s)
      <3>1. once' \in [Slots -> BOOLEAN]
        BY <2>1, Zenon DEF Stop, AwaitReady, OnceReadyDone
      <3>2. pc' \in [Slots -> {"check", "dial", "register", "await", "serving", "backoff",
                              "exited"}]
        BY <2>1 DEF Stop, AwaitReady, Goto
      <3> QED  BY <2>1, <3>1, <3>2, Zenon DEF Stop, AwaitReady, tunnelVars, shutdownVars
    <2>2. CASE (CheckShutdown(s) \/ Backoff(s) \/ DialFails(s)) /\ ~Stop(s)
      BY <2>2 DEF CheckShutdown, Backoff, DialFails, Goto, tunnelVars, shutdownVars
    <2>3. CASE RegisterConn(s)
      <3>1. conn[s] \in Conns  BY <2>3 DEF RegisterConn, Owned
      <3> QED  BY <2>3, <3>1 DEF RegisterConn, Goto, tunnelVars, shutdownVars
    <2>4. CASE StartConnection(s)
      BY <2>4 DEF StartConnection, Goto, shutdownVars
    <2>5. CASE TunnelEnded(s)
      BY <2>5 DEF TunnelEnded, Collect, Goto, shutdownVars
    <2>6. CASE HandOver(s)
      BY <2>6 DEF HandOver, StartReaper, Goto, tunnelVars, shutdownVars
    <2> QED  BY <1>1, <2>1, <2>2, <2>3, <2>4, <2>5, <2>6 DEF Slot, CheckShutdown, Backoff
  <1>2. ASSUME NEW c \in Conns, Reaper(c) \/ Settings(c) \/ GoAway(c) \/ Fails(c) \/ Ends(c)
        PROVE Types'
    <2>1. CASE Reaper(c)
      BY <2>1 DEF Reaper, ReaperDeregisters, ReaperExits, Collect, slotVars, tunnelVars,
                  shutdownVars
    <2>2. CASE Settings(c) \/ GoAway(c)
      BY <2>2 DEF Settings, GoAway, Serve, slotVars, shutdownVars
    <2>3. CASE Fails(c) \/ Ends(c)
      BY <2>3 DEF Fails, Ends, Serve, slotVars, shutdownVars
    <2> QED  BY <1>2, <2>1, <2>2, <2>3
  <1>3. ASSUME NEW k \in Callers, Shutdown(k) \/ Wait(k) \/ CloseShutdownCh(k) PROVE Types'
    BY <1>3 DEF Shutdown, Wait, CloseShutdownCh, slotVars, tunnelVars
  <1>4. CASE SnapshotConns \/ PokeConns
    BY <1>4 DEF SnapshotConns, PokeConns, slotVars, tunnelVars
  <1>5. CASE UNCHANGED vars
    BY <1>5 DEF vars, slotVars, tunnelVars, shutdownVars
  <1> QED  BY <1>1, <1>2, <1>3, <1>4, <1>5 DEF Next, ShutdownBody

-----------------------------------------------------------------------------
(* The WaitGroup and the ready counter follow the goroutines they count. *)
LEMMA CountStep == Types /\ Owned /\ CountersExact /\ [Next]_vars => CountersExact'
  <1> SUFFICES ASSUME Types, Owned, CountersExact, [Next]_vars PROVE CountersExact'
    OBVIOUS
  <1>c. /\ maintainers = Cardinality(Live) + Cardinality(Reaping)
        /\ ready = Cardinality(Unready)
    BY Counts
  <1>p. CountersExact' <=> /\ maintainers' = Cardinality(Live') + Cardinality(Reaping')
                           /\ ready' = Cardinality(Unready')
    BY DEF CountersExact, Live, Reaping, Unready
  <1>1. ASSUME NEW s \in Slots, OnceReadyDone(s) PROVE ready' = Cardinality(Unready')
    <2>1. CASE once[s]
      <3>1. Unready' = Unready  BY <1>1, <2>1, Zenon DEF OnceReadyDone, Unready, Types
      <3> QED  BY <1>1, <2>1, <3>1, <1>c DEF OnceReadyDone
    <2>2. CASE ~once[s]
      <3>1. s \in Unready  BY <2>2 DEF Unready
      <3>2. Unready' = Unready \ {s}
        BY <1>1, <2>2, Zenon DEF OnceReadyDone, Unready, Types
      <3>3. Cardinality(Unready \ {s}) = Cardinality(Unready) - 1
        BY <3>1, Finite, FS_RemoveElement
      <3> QED  BY <1>1, <2>2, <3>2, <3>3, <1>c DEF OnceReadyDone
    <2> QED  BY <2>1, <2>2
  <1>2. ASSUME NEW s \in Slots, Stop(s), pc[s] # "exited" PROVE CountersExact'
    <2>1. s \in Live  BY <1>2 DEF Live
    <2>2. Live' = Live \ {s}  BY <1>2 DEF Stop, Goto, Live, Types
    <2>3. Cardinality(Live \ {s}) = Cardinality(Live) - 1
      BY <2>1, Finite, FS_RemoveElement
    <2>4. Reaping' = Reaping  BY <1>2 DEF Stop, Reaping
    <2>5. maintainers' = maintainers - 1  BY <1>2 DEF Stop
    <2>6. ready' = Cardinality(Unready')  BY <1>2, <1>1 DEF Stop
    <2> QED  BY <2>2, <2>3, <2>4, <2>5, <2>6, <1>c, <1>p, CountsAreNat
  <1>3. ASSUME NEW s \in Slots, AwaitReady(s) PROVE CountersExact'
    <2>1. Live' = Live  BY <1>3 DEF AwaitReady, Goto, Live, Types
    <2>2. Reaping' = Reaping /\ maintainers' = maintainers  BY <1>3 DEF AwaitReady, Reaping
    <2>3. ready' = Cardinality(Unready')  BY <1>3, <1>1 DEF AwaitReady
    <2> QED  BY <2>1, <2>2, <2>3, <1>c, <1>p
  <1>4. ASSUME NEW s \in Slots, HandOver(s) PROVE CountersExact'
    <2>1. Live' = Live  BY <1>4 DEF HandOver, Goto, Live, Types
    <2>2. Unready' = Unready /\ ready' = ready  BY <1>4 DEF HandOver, Unready
    <2>3. conn[s] \in Conns /\ reaper[conn[s]] = "none"
      BY <1>4 DEF HandOver, Owned, Types
    <2>4. conn[s] \notin Reaping /\ Reaping' = Reaping \cup {conn[s]}
      BY <1>4, <2>3 DEF HandOver, StartReaper, Reaping, Types
    <2>5. Cardinality(Reaping \cup {conn[s]}) = Cardinality(Reaping) + 1
      BY <2>4, Finite, FS_AddElement
    <2>6. maintainers' = maintainers + 1  BY <1>4 DEF HandOver, StartReaper
    <2> QED  BY <2>1, <2>2, <2>4, <2>5, <2>6, <1>c, <1>p, CountsAreNat
  <1>5. ASSUME NEW c \in Conns, ReaperExits(c) PROVE CountersExact'
    <2>1. Live' = Live /\ Unready' = Unready /\ ready' = ready
      BY <1>5 DEF ReaperExits, slotVars, Live, Unready
    <2>2. c \in Reaping /\ Reaping' = Reaping \ {c}
      BY <1>5 DEF ReaperExits, Reaping, Types
    <2>3. Cardinality(Reaping \ {c}) = Cardinality(Reaping) - 1
      BY <2>2, Finite, FS_RemoveElement
    <2>4. maintainers' = maintainers - 1  BY <1>5 DEF ReaperExits
    <2> QED  BY <2>1, <2>2, <2>3, <2>4, <1>c, <1>p, CountsAreNat
  <1>6. ASSUME Live' = Live, Reaping' = Reaping, Unready' = Unready,
               maintainers' = maintainers, ready' = ready
        PROVE CountersExact'
    BY <1>6, <1>c, <1>p
  <1>7. ASSUME NEW s \in Slots,
               \/ (CheckShutdown(s) \/ Backoff(s)) /\ ~Stop(s)
               \/ DialFails(s) \/ StartConnection(s) \/ RegisterConn(s) \/ TunnelEnded(s)
        PROVE CountersExact'
    <2>1. Live' = Live
      BY <1>7 DEF CheckShutdown, Backoff, DialFails, StartConnection, RegisterConn,
                  TunnelEnded, Goto, Live, Types
    <2>2. once' = once /\ reaper' = reaper /\ maintainers' = maintainers /\ ready' = ready
      BY <1>7 DEF CheckShutdown, Backoff, DialFails, StartConnection, RegisterConn, TunnelEnded
    <2> QED  BY <2>1, <2>2, <1>6 DEF Reaping, Unready
  <1>8. ASSUME NEW s \in Slots, Slot(s) PROVE CountersExact'
    BY <1>8, <1>2, <1>3, <1>4, <1>7 DEF Slot, CheckShutdown, Backoff
  <1>9. ASSUME NEW c \in Conns, ReaperDeregisters(c) PROVE CountersExact'
    <2>1. Reaping' = Reaping  BY <1>9 DEF ReaperDeregisters, Reaping, Types
    <2> QED  BY <1>9, <2>1, <1>6 DEF ReaperDeregisters, slotVars, Live, Unready
  <1>10. ASSUME UNCHANGED <<pc, once, reaper, maintainers, ready>> PROVE CountersExact'
    BY <1>10, <1>6 DEF Live, Reaping, Unready
  <1>11. ASSUME NEW c \in Conns, Settings(c) \/ GoAway(c) \/ Fails(c) \/ Ends(c)
         PROVE CountersExact'
    BY <1>11, <1>10 DEF Settings, GoAway, Fails, Ends, slotVars
  <1>12. ASSUME NEW k \in Callers, Shutdown(k) \/ Wait(k) \/ CloseShutdownCh(k)
         PROVE CountersExact'
    BY <1>12, <1>10 DEF Shutdown, Wait, CloseShutdownCh, slotVars
  <1>13. CASE SnapshotConns \/ PokeConns \/ UNCHANGED vars
    BY <1>13, <1>10 DEF SnapshotConns, PokeConns, slotVars, vars
  <1> QED
    BY <1>5, <1>8, <1>9, <1>11, <1>12, <1>13 DEF Next, ShutdownBody, Reaper

-----------------------------------------------------------------------------
(* A connection stays owned by the slot or the reaper that waits for it. *)
LEMMA OwnStep ==
    Types /\ Owned /\ WaitedForIsRegistered /\ [Next]_vars => Owned' /\ WaitedForIsRegistered'
  <1> SUFFICES ASSUME Types, Owned, WaitedForIsRegistered, [Next]_vars
               PROVE Owned' /\ WaitedForIsRegistered'
    OBVIOUS
  <1> USE SlotAssumption DEF Types, Owned, WaitedForIsRegistered
  <1>1. ASSUME NEW s \in Slots, Stop(s), pc[s] \in {"check", "backoff"}
        PROVE Owned' /\ WaitedForIsRegistered'
    <2>1. once' = [once EXCEPT ![s] = TRUE]  BY <1>1 DEF Stop, OnceReadyDone
    <2>2. once'[s] /\ \A u \in Slots : once[u] => once'[u]
      BY <2>1, Zenon DEF Types
    <2>3. \A u \in Slots : pc'[u] = "exited" => once'[u]
      <3>1. \A u \in Slots : pc'[u] = "exited" => u = s \/ pc[u] = "exited"
        BY <1>1 DEF Stop, Goto
      <3> QED  BY <2>2, <3>1, Zenon
    <2> QED  BY <1>1, <2>3 DEF Stop, Goto, tunnelVars
  <1>2. ASSUME NEW s \in Slots, AwaitReady(s) PROVE Owned' /\ WaitedForIsRegistered'
    <2>1. once' = [once EXCEPT ![s] = TRUE]  BY <1>2 DEF AwaitReady, OnceReadyDone
    <2>2. once'[s] /\ \A u \in Slots : once[u] => once'[u]
      BY <2>1, Zenon DEF Types
    <2>3. \A u \in Slots : pc'[u] = "exited" => once'[u]
      <3>1. \A u \in Slots : pc'[u] = "exited" => u = s \/ pc[u] = "exited"
        BY <1>2 DEF AwaitReady, Goto
      <3> QED  BY <2>2, <3>1, Zenon
    <2> QED  BY <1>2, <2>3 DEF AwaitReady, Goto, tunnelVars
  <1>3. ASSUME NEW s \in Slots,
               ((CheckShutdown(s) \/ Backoff(s)) /\ ~Stop(s)) \/ DialFails(s)
        PROVE Owned' /\ WaitedForIsRegistered'
    BY <1>3 DEF CheckShutdown, Backoff, DialFails, Goto, tunnelVars
  <1>4. ASSUME NEW s \in Slots, StartConnection(s) PROVE Owned' /\ WaitedForIsRegistered'
    <2>1. PICK c \in Conns : /\ state[c] = "none"
                             /\ state' = [state EXCEPT ![c] = "settings"]
                             /\ conn' = [conn EXCEPT ![s] = c]
      BY <1>4 DEF StartConnection
    <2>2. /\ pc[s] = "dial" /\ pc' = [pc EXCEPT ![s] = "register"]
          /\ UNCHANGED <<once, reaper, conns>>
      BY <1>4 DEF StartConnection, Goto
    <2>3. conn[s] = NoConn /\ \A u \in Slots : conn[u] # c
      BY <2>1, <2>2
    <2>4. reaper[c] = "none" /\ c \notin conns  BY <2>1
    <2> QED  BY <2>1, <2>2, <2>3, <2>4
  <1>5. ASSUME NEW s \in Slots, RegisterConn(s) PROVE Owned' /\ WaitedForIsRegistered'
    BY <1>5 DEF RegisterConn, Goto, tunnelVars
  <1>6. ASSUME NEW s \in Slots, TunnelEnded(s) PROVE Owned' /\ WaitedForIsRegistered'
    BY <1>6 DEF TunnelEnded, Goto, Collect
  <1>7. ASSUME NEW s \in Slots, HandOver(s) PROVE Owned' /\ WaitedForIsRegistered'
    BY <1>7 DEF HandOver, Goto, StartReaper, tunnelVars
  <1>8. ASSUME NEW c \in Conns, Reaper(c) PROVE Owned' /\ WaitedForIsRegistered'
    BY <1>8 DEF Reaper, ReaperDeregisters, ReaperExits, Collect, slotVars, tunnelVars
  <1>9. ASSUME NEW c \in Conns, Settings(c) \/ GoAway(c) \/ Fails(c) \/ Ends(c)
        PROVE Owned' /\ WaitedForIsRegistered'
    BY <1>9 DEF Settings, GoAway, Fails, Ends, Serve, slotVars
  <1>10. ASSUME UNCHANGED <<slotVars, state, reaper, conns>>
         PROVE Owned' /\ WaitedForIsRegistered'
    BY <1>10 DEF slotVars
  <1>11. ASSUME NEW k \in Callers, Shutdown(k) \/ Wait(k) \/ CloseShutdownCh(k)
         PROVE Owned' /\ WaitedForIsRegistered'
    BY <1>11, <1>10 DEF Shutdown, Wait, CloseShutdownCh, tunnelVars
  <1>12. CASE SnapshotConns \/ PokeConns \/ UNCHANGED vars
    BY <1>12, <1>10 DEF SnapshotConns, PokeConns, tunnelVars, vars
  <1>13. ASSUME NEW s \in Slots, Slot(s) PROVE Owned' /\ WaitedForIsRegistered'
    BY <1>13, <1>1, <1>2, <1>3, <1>4, <1>5, <1>6, <1>7 DEF Slot, CheckShutdown, Backoff
  <1> QED
    BY <1>8, <1>9, <1>11, <1>12, <1>13 DEF Next, ShutdownBody

-----------------------------------------------------------------------------
(* With the counter at zero there is no slot and no reaper left to move. *)
LEMMA NobodyLeft ==
    ASSUME Types, CountersExact, maintainers = 0
    PROVE  (\A s \in Slots : pc[s] = "exited") /\ (\A c \in Conns : reaper[c] = "none")
  <1>1. Cardinality(Live) = 0 /\ Cardinality(Reaping) = 0
    BY Counts, CountsAreNat
  <1>2. Live = {} /\ Reaping = {}  BY <1>1, Finite, FS_EmptySet
  <1> QED  BY <1>2 DEF Live, Reaping

(* Once a Shutdown has returned nil, no goroutine is counted again. *)
LEMMA DrainedStep == IndInv /\ [Next]_vars => Drained'
  <1> SUFFICES ASSUME IndInv, [Next]_vars PROVE Drained'  OBVIOUS
  <1> USE DEF IndInv, Types
  <1>1. CASE maintainers = 0
    <2>1. (\A s \in Slots : pc[s] = "exited") /\ (\A c \in Conns : reaper[c] = "none")
      BY <1>1, NobodyLeft
    <2>2. \A s \in Slots : ~Slot(s)
      BY <2>1 DEF Slot, CheckShutdown, Backoff, DialFails, StartConnection, RegisterConn,
                  AwaitReady, TunnelEnded, HandOver
    <2>3. \A c \in Conns : ~Reaper(c)
      BY <2>1 DEF Reaper, ReaperDeregisters, ReaperExits
    <2>4. maintainers' = maintainers
      BY <2>2, <2>3 DEF Next, ShutdownBody, Settings, GoAway, Fails, Ends, Shutdown, Wait,
                        CloseShutdownCh, SnapshotConns, PokeConns, vars
    <2> QED  BY <1>1, <2>4 DEF Drained
  <1>2. CASE maintainers # 0
    <2>1. \A k \in Callers : caller[k] # "nil"  BY <1>2 DEF Drained
    <2>2. \A k \in Callers : caller'[k] # "nil"
      <3>1. ASSUME NEW k \in Callers, Shutdown(k) \/ Wait(k) \/ CloseShutdownCh(k)
            PROVE \A j \in Callers : caller'[j] # "nil"
        BY <1>2, <2>1, <3>1 DEF Shutdown, Wait, CloseShutdownCh
      <3>2. ASSUME UNCHANGED caller PROVE \A j \in Callers : caller'[j] # "nil"
        BY <2>1, <3>2
      <3>3. ASSUME NEW s \in Slots, Slot(s) PROVE UNCHANGED caller
        BY <3>3 DEF Slot, CheckShutdown, Backoff, DialFails, StartConnection, RegisterConn,
                    AwaitReady, TunnelEnded, HandOver, Stop, shutdownVars
      <3>4. ASSUME NEW c \in Conns, Reaper(c) \/ Settings(c) \/ GoAway(c) \/ Fails(c) \/ Ends(c)
            PROVE UNCHANGED caller
        BY <3>4 DEF Reaper, ReaperDeregisters, ReaperExits, Settings, GoAway, Fails, Ends,
                    shutdownVars
      <3>5. CASE SnapshotConns \/ PokeConns \/ UNCHANGED vars
        BY <3>2, <3>5 DEF SnapshotConns, PokeConns, vars, shutdownVars
      <3> QED  BY <3>1, <3>2, <3>3, <3>4, <3>5 DEF Next, ShutdownBody
    <2> QED  BY <2>2 DEF Drained
  <1> QED  BY <1>1, <1>2

(* The inductive invariant. *)
THEOREM PoolInvariant == Spec => []IndInv
  <1>1. IndInv /\ [Next]_vars => IndInv'
    BY TypeStep, CountStep, OwnStep, DrainedStep DEF IndInv
  <1> QED  BY InitHolds, <1>1, PTL DEF Spec

(* The pool's variables keep their types and its WaitGroups never go        *)
(* negative, which would panic.                                             *)
THEOREM PoolTypes == Spec => []TypeOK
  <1>1. IndInv => TypeOK
    <2> SUFFICES ASSUME IndInv PROVE TypeOK  OBVIOUS
    <2>1. maintainers \in Nat /\ ready \in Nat
      BY Counts, CountsAreNat DEF IndInv
    <2> QED  BY <2>1, Zenon DEF IndInv, Types, TypeOK
  <1> QED  BY <1>1, PoolInvariant, PTL

(* Both WaitGroups count what they are meant to count. *)
THEOREM PoolCountersExact == Spec => []CountersExact
  <1>1. IndInv => CountersExact  BY DEF IndInv
  <1> QED  BY <1>1, PoolInvariant, PTL

(* Shutdown can reach every tunnel that a slot or a reaper waits for. *)
THEOREM PoolRegistration == Spec => []WaitedForIsRegistered
  <1>1. IndInv => WaitedForIsRegistered  BY DEF IndInv
  <1> QED  BY <1>1, PoolInvariant, PTL

(* A Shutdown that returns nil leaves no slot, reaper or tunnel behind. *)
THEOREM PoolNilMeansDrained == Spec => []NilMeansDrained
  <1>1. IndInv => NilMeansDrained
    <2> SUFFICES ASSUME IndInv, NEW k \in Callers, caller[k] = "nil"
                 PROVE /\ \A s \in Slots : pc[s] = "exited"
                       /\ \A c \in Conns : state[c] = "none" /\ reaper[c] = "none"
                       /\ conns = {}
                       /\ ready = 0
      BY DEF NilMeansDrained
    <2>1. maintainers = 0  BY DEF IndInv, Drained
    <2>2. (\A s \in Slots : pc[s] = "exited") /\ (\A c \in Conns : reaper[c] = "none")
      BY <2>1, NobodyLeft DEF IndInv
    <2>3. \A s \in Slots : conn[s] = NoConn  BY <2>2 DEF IndInv, Owned
    <2>4. \A c \in Conns : state[c] = "none"
      BY <2>2, <2>3, SlotAssumption DEF IndInv, Owned
    <2>5. conns = {}  BY <2>4 DEF IndInv, Owned, Types
    <2>6. Unready = {}  BY <2>2 DEF IndInv, Owned, Unready
    <2>7. ready = 0  BY <2>6, Counts, FS_EmptySet DEF IndInv
    <2> QED  BY <2>2, <2>4, <2>5, <2>7
  <1> QED  BY <1>1, PoolInvariant, PTL
=============================================================================
