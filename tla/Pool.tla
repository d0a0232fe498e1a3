-------------------------------- MODULE Pool --------------------------------
(***************************************************************************)
(* The worker's connection pool (pool.go, connection.go): one              *)
(* maintainConnection goroutine per slot dials, registers and watches a    *)
(* tunnel; a tunnel that drains is handed to a reaper while its slot dials *)
(* again; Shutdown closes shutdownCh, pokes the registered tunnels and     *)
(* waits for slots and reapers.                                            *)
(*                                                                         *)
(* A tunnel's serve goroutine is abstracted to its phases; ServeLoop has   *)
(* the detail.  It is "ended" when serve has returned, all its teardown    *)
(* included, and its result is in errCh.                                   *)
(***************************************************************************)
EXTENDS Integers, FiniteSets

CONSTANTS
    Slots,     \* opts.NBConn maintainer goroutines
    Conns,     \* bound: tunnels that exist at a time; reused when collected
    Callers,   \* goroutines that call Shutdown
    NoConn

ASSUME SlotAssumption ==
    IsFiniteSet(Slots) /\ IsFiniteSet(Conns) /\ NoConn \notin Conns

VARIABLES
    pc, conn,        \* per slot: where maintainConnection is, and its tunnel
    once,            \* per slot: once has fired
    state,           \* per tunnel: its serve goroutine
    readyCh,         \* per tunnel: readyCh is closed
    drainStarted,    \* per tunnel
    poked,           \* per tunnel: Shutdown has set its read deadline
    reaper,          \* per tunnel: its reaper goroutine
    conns,           \* Pool.conns
    ready, maintainers,  \* counters of the two WaitGroups
    shutdownCh,      \* it is closed
    snapshot,        \* tunnels Shutdown found registered
    shutdownOnce,    \* "no", or the step its function has reached, or "done"
    caller           \* per caller of Shutdown

slotVars == <<pc, conn, once>>
tunnelVars == <<state, readyCh, drainStarted, poked>>
shutdownVars == <<shutdownCh, snapshot, shutdownOnce, caller>>
vars == <<slotVars, tunnelVars, reaper, conns, ready, maintainers, shutdownVars>>

(* NewConnectionPool. *)
Init ==
    /\ pc = [s \in Slots |-> "check"]
    /\ conn = [s \in Slots |-> NoConn]
    /\ once = [s \in Slots |-> FALSE]
    /\ state = [c \in Conns |-> "none"]
    /\ readyCh = [c \in Conns |-> FALSE]
    /\ drainStarted = [c \in Conns |-> FALSE]
    /\ poked = [c \in Conns |-> FALSE]
    /\ reaper = [c \in Conns |-> "none"]
    /\ conns = {}
    /\ ready = Cardinality(Slots)
    /\ maintainers = Cardinality(Slots)
    /\ shutdownCh = FALSE
    /\ snapshot = {}
    /\ shutdownOnce = "no"
    /\ caller = [k \in Callers |-> "idle"]

-----------------------------------------------------------------------------
(* maintainConnection. *)

Goto(s, l) == pc' = [pc EXCEPT ![s] = l]

(* Mutant: without sync.Once. *)
OnceReadyDone_always(s) == ready' = ready - 1 /\ once' = [once EXCEPT ![s] = TRUE]

OnceReadyDone(s) ==
    /\ once' = [once EXCEPT ![s] = TRUE]
    /\ ready' = IF once[s] THEN ready ELSE ready - 1

(* shutdownCh is closed: release Ready's waiters and return. *)
Stop(s) ==
    /\ shutdownCh
    /\ OnceReadyDone(s)
    /\ maintainers' = maintainers - 1
    /\ Goto(s, "exited")
    /\ UNCHANGED <<conn, tunnelVars, reaper, conns, shutdownVars>>

(* Mutant: only the back-off looks at shutdownCh. *)
CheckShutdown_missing(s) ==
    /\ pc[s] = "check"
    /\ Goto(s, "dial")
    /\ UNCHANGED <<conn, once, tunnelVars, reaper, conns, ready,
                   maintainers, shutdownVars>>

CheckShutdown(s) ==
    /\ pc[s] = "check"
    /\ \/ Stop(s)
       \/ /\ ~shutdownCh
          /\ Goto(s, "dial")
          /\ UNCHANGED <<conn, once, tunnelVars, reaper, conns, ready,
                         maintainers, shutdownVars>>

(* One second or more, unless shutdownCh closes. *)
Backoff(s) ==
    /\ pc[s] = "backoff"
    /\ \/ Stop(s)
       \/ /\ Goto(s, "check")
          /\ UNCHANGED <<conn, once, tunnelVars, reaper, conns, ready,
                         maintainers, shutdownVars>>

-----------------------------------------------------------------------------
(* dial. *)

(* TCP, TLS, ALPN or the preface fails. *)
DialFails(s) ==
    /\ pc[s] = "dial"
    /\ Goto(s, "backoff")
    /\ UNCHANGED <<conn, once, tunnelVars, reaper, conns, ready, maintainers,
                   shutdownVars>>

(* startConnection: serve is running from here on. *)
StartConnection(s) ==
    /\ pc[s] = "dial"
    /\ \E c \in Conns :
          /\ state[c] = "none"
          /\ state' = [state EXCEPT ![c] = "settings"]
          /\ conn' = [conn EXCEPT ![s] = c]
    /\ Goto(s, "register")
    /\ UNCHANGED <<once, readyCh, drainStarted, poked, reaper, conns,
                   ready, maintainers, shutdownVars>>

(* Mutant: the tunnel is not registered. *)
RegisterConn_missing(s) ==
    /\ pc[s] = "register"
    /\ Goto(s, "await")
    /\ UNCHANGED <<conn, once, tunnelVars, reaper, conns, ready,
                   maintainers, shutdownVars>>

RegisterConn(s) ==
    /\ pc[s] = "register"
    /\ conns' = conns \cup {conn[s]}
    /\ Goto(s, "await")
    /\ UNCHANGED <<conn, once, tunnelVars, reaper, ready, maintainers,
                   shutdownVars>>

AwaitReady(s) ==
    /\ pc[s] = "await"
    /\ readyCh[conn[s]]
    /\ OnceReadyDone(s)
    /\ Goto(s, "serving")
    /\ UNCHANGED <<conn, tunnelVars, reaper, conns, maintainers,
                   shutdownVars>>

(* The tunnel's goroutines are gone and nothing refers to it any more.      *)
Collect(c) ==
    /\ state' = [state EXCEPT ![c] = "none"]
    /\ readyCh' = [readyCh EXCEPT ![c] = FALSE]
    /\ drainStarted' = [drainStarted EXCEPT ![c] = FALSE]
    /\ poked' = [poked EXCEPT ![c] = FALSE]

(* errCh, while waiting for SETTINGS or while serving: deregisterConn.      *)
TunnelEnded(s) ==
    /\ pc[s] \in {"await", "serving"}
    /\ state[conn[s]] = "ended"
    /\ conns' = conns \ {conn[s]}
    /\ Collect(conn[s])
    /\ conn' = [conn EXCEPT ![s] = NoConn]
    /\ Goto(s, "backoff")
    /\ UNCHANGED <<once, reaper, ready, maintainers, shutdownVars>>

(* Mutant: the reaper is not counted as a maintainer. *)
StartReaper_uncounted(c) ==
    reaper' = [reaper EXCEPT ![c] = "wait"] /\ UNCHANGED maintainers

StartReaper(c) ==
    /\ maintainers' = maintainers + 1
    /\ reaper' = [reaper EXCEPT ![c] = "wait"]

(* DrainStarted: start the reaper and give the slot back. *)
HandOver(s) ==
    /\ pc[s] = "serving"
    /\ drainStarted[conn[s]]
    /\ StartReaper(conn[s])
    /\ conn' = [conn EXCEPT ![s] = NoConn]
    /\ Goto(s, "backoff")
    /\ UNCHANGED <<once, tunnelVars, conns, ready, shutdownVars>>

ReaperDeregisters(c) ==
    /\ reaper[c] = "wait"
    /\ state[c] = "ended"
    /\ conns' = conns \ {c}
    /\ reaper' = [reaper EXCEPT ![c] = "done"]
    /\ UNCHANGED <<slotVars, tunnelVars, ready, maintainers, shutdownVars>>

ReaperExits(c) ==
    /\ reaper[c] = "done"
    /\ maintainers' = maintainers - 1
    /\ reaper' = [reaper EXCEPT ![c] = "none"]
    /\ Collect(c)
    /\ UNCHANGED <<slotVars, conns, ready, shutdownVars>>

-----------------------------------------------------------------------------
(* The serve goroutine of a tunnel. *)

Serve(c, from, to) ==
    /\ state[c] \in from
    /\ state' = [state EXCEPT ![c] = to]

Settings(c) ==
    /\ Serve(c, {"settings"}, "ready")
    /\ readyCh' = [readyCh EXCEPT ![c] = TRUE]
    /\ UNCHANGED <<slotVars, drainStarted, poked, reaper, conns, ready,
                   maintainers, shutdownVars>>

GoAway(c) ==
    /\ Serve(c, {"ready"}, "draining")
    /\ drainStarted' = [drainStarted EXCEPT ![c] = TRUE]
    /\ UNCHANGED <<slotVars, readyCh, poked, reaper, conns, ready, maintainers,
                   shutdownVars>>

(* The transport or the peer fails. *)
Fails(c) ==
    /\ Serve(c, {"settings", "ready", "draining"}, "ended")
    /\ UNCHANGED <<slotVars, readyCh, drainStarted, poked, reaper, conns, ready,
                   maintainers, shutdownVars>>

(* The loop sees shutdownCh (at the latest on its next idle tick), or the   *)
(* drain completes; before SETTINGS only a past deadline ends ReadFrame.    *)
Ends(c) ==
    /\ \/ shutdownCh /\ Serve(c, {"ready", "draining"}, "ended")
       \/ Serve(c, {"draining"}, "ended")
       \/ poked[c] /\ Serve(c, {"settings"}, "ended")
    /\ UNCHANGED <<slotVars, readyCh, drainStarted, poked, reaper, conns, ready,
                   maintainers, shutdownVars>>

-----------------------------------------------------------------------------
(* Shutdown. *)

Shutdown(k) ==
    /\ caller[k] = "idle"
    /\ caller' = [caller EXCEPT ![k] = "do"]
    /\ UNCHANGED <<slotVars, tunnelVars, reaper, conns, ready, maintainers,
                   shutdownCh, snapshot, shutdownOnce>>

CloseShutdownCh(k) ==
    /\ caller[k] = "do"
    /\ shutdownOnce = "no"
    /\ shutdownCh' = TRUE
    /\ shutdownOnce' = "snapshot"
    /\ UNCHANGED <<slotVars, tunnelVars, reaper, conns, ready, maintainers,
                   snapshot, caller>>

SnapshotConns ==
    /\ shutdownOnce = "snapshot"
    /\ snapshot' = conns
    /\ shutdownOnce' = "poke"
    /\ UNCHANGED <<slotVars, tunnelVars, reaper, conns, ready, maintainers,
                   shutdownCh, caller>>

(* SetReadDeadline on each; one that has closed since takes no notice.      *)
PokeConns ==
    /\ shutdownOnce = "poke"
    /\ poked' = [c \in Conns |-> poked[c] \/ (c \in snapshot /\ state[c] # "none")]
    /\ shutdownOnce' = "done"
    /\ UNCHANGED <<slotVars, state, readyCh, drainStarted, reaper, conns, ready,
                   maintainers, shutdownCh, snapshot, caller>>

Wait(k) ==
    /\ caller[k] = "do"
    /\ shutdownOnce = "done"
    /\ \/ maintainers = 0 /\ caller' = [caller EXCEPT ![k] = "nil"]
       \/ caller' = [caller EXCEPT ![k] = "ctx"]
    /\ UNCHANGED <<slotVars, tunnelVars, reaper, conns, ready, maintainers,
                   shutdownCh, snapshot, shutdownOnce>>

-----------------------------------------------------------------------------
Slot(s) ==
    \/ CheckShutdown(s) \/ Backoff(s) \/ DialFails(s) \/ StartConnection(s)
    \/ RegisterConn(s) \/ AwaitReady(s) \/ TunnelEnded(s) \/ HandOver(s)

Reaper(c) == ReaperDeregisters(c) \/ ReaperExits(c)

ShutdownBody == (\E k \in Callers : CloseShutdownCh(k)) \/ SnapshotConns \/ PokeConns

Next ==
    \/ \E s \in Slots : Slot(s)
    \/ \E c \in Conns : Reaper(c) \/ Settings(c) \/ GoAway(c) \/ Fails(c) \/ Ends(c)
    \/ \E k \in Callers : Shutdown(k) \/ Wait(k)
    \/ ShutdownBody

Spec == Init /\ [][Next]_vars

(* Goroutines run; a dial returns; a tunnel that can end does (idle ticks   *)
(* come, handlers return).                                                  *)
FairSpec ==
    /\ Spec
    /\ \A s \in Slots : WF_vars(Slot(s))
    /\ \A c \in Conns : WF_vars(Reaper(c)) /\ WF_vars(Ends(c))
    /\ WF_vars(ShutdownBody)

(* In addition every peer answers: its SETTINGS arrive or the tunnel fails. *)
AnsweringSpec == FairSpec /\ \A c \in Conns : WF_vars(Settings(c))

-----------------------------------------------------------------------------
TypeOK ==
    /\ pc \in [Slots -> {"check", "dial", "register", "await", "serving",
                         "backoff", "exited"}]
    /\ conn \in [Slots -> Conns \cup {NoConn}]
    /\ once \in [Slots -> BOOLEAN]
    /\ state \in [Conns -> {"none", "settings", "ready", "draining", "ended"}]
    /\ readyCh \in [Conns -> BOOLEAN]
    /\ drainStarted \in [Conns -> BOOLEAN]
    /\ poked \in [Conns -> BOOLEAN]
    /\ reaper \in [Conns -> {"none", "wait", "done"}]
    /\ conns \in SUBSET Conns
    /\ ready \in Nat /\ maintainers \in Nat
    /\ snapshot \in SUBSET Conns
    /\ shutdownOnce \in {"no", "snapshot", "poke", "done"}
    /\ caller \in [Callers -> {"idle", "do", "nil", "ctx"}]

(* A Shutdown that returns nil leaves nothing behind: every slot and reaper *)
(* has exited, every tunnel has ended and is deregistered, and nobody can   *)
(* still be blocked on Ready.                                               *)
NilMeansDrained ==
    (\E k \in Callers : caller[k] = "nil") =>
        /\ \A s \in Slots : pc[s] = "exited"
        /\ \A c \in Conns : state[c] = "none" /\ reaper[c] = "none"
        /\ conns = {}
        /\ ready = 0

(* The WaitGroups count what they are meant to count: a negative counter    *)
(* panics, and Ready must be reached through every slot exactly once.       *)
CountersExact ==
    /\ maintainers = Cardinality({s \in Slots : pc[s] # "exited"})
                     + Cardinality({c \in Conns : reaper[c] # "none"})
    /\ ready = Cardinality({s \in Slots : ~once[s]})

(* Shutdown can reach every tunnel that a slot or a reaper is waiting for:  *)
(* it is in conns until its goroutine has ended.                            *)
WaitedForIsRegistered ==
    /\ \A s \in Slots : pc[s] \in {"await", "serving"} => conn[s] \in conns
    /\ \A c \in Conns : reaper[c] = "wait" => c \in conns

(* Shutdown drains the pool.                                                *)
ShutdownDrains == shutdownCh ~> maintainers = 0

=============================================================================
