----------------------------- MODULE SendCredit -----------------------------
(***************************************************************************)
(* Send-side flow control of one connection (internal/h2/flow.go) together *)
(* with everything that touches it: the two loops that spend credit (the   *)
(* worker's responseWriter.Write and the proxy's streamRequestBody), the   *)
(* frame reader that adds credit, and the opening of a stream, which reads *)
(* the peer's initial window.                                              *)
(*                                                                         *)
(* A critical section of SendCredit.mu is one action.  cond.Wait puts the  *)
(* writer in state "parked"; Broadcast moves every parked writer to        *)
(* "woken", from where it competes for the mutex again.                    *)
(***************************************************************************)
EXTENDS Integers

CONSTANTS
    Streams,              \* streams the connection carries; each is opened once
    Increments,           \* WINDOW_UPDATE increments the peer may send
    Windows,              \* SETTINGS_INITIAL_WINDOW_SIZE values it may send
    DefaultInitialWindow, \* 65535 in the code
    MaxFrameSize,         \* 16384 in the code: one Reserve asks for no more
    MaxWrite,             \* bound: bytes handed to one Write / read from a body
    MaxInt32,             \* 2^31 - 1 in the code
    MaxCredit             \* bound: total of the increments for one window

ASSUME BoundAssumption == /\ MaxFrameSize \in Nat \ {0}
                          /\ MaxWrite \in Nat \ {0}
                          /\ MaxCredit \in Nat
                          /\ MaxInt32 \in Nat \ {0}
ASSUME WindowAssumption == /\ Increments \subseteq 1..MaxInt32
                           /\ Windows \subseteq 0..MaxInt32
                           /\ DefaultInitialWindow \in 0..MaxInt32

VARIABLES
    role,            \* "worker" or "proxy": who opens streams, and how
    ConnSendWindow, PeerInitWindow, dead,  \* the fields of SendCredit
    cond,            \* sc.cond # nil
    SendWindow,      \* Stream.SendWindow; while opening, the value read for it
    streams,         \* keys of Conn.streams
    reader,          \* frame reader: "read", inside ApplyPeerSettings, "gone"
    newSize,         \* the setting being applied ...
    windows,         \* ... and the snapshot of the streams it applies to
    pc, left, got,   \* per stream: its writer, bytes still to send, reserved
    connCredit, connSent, increments, sent  \* history: what the peer granted
                                            \* and what has been reserved

credit == <<ConnSendWindow, PeerInitWindow, dead, cond, SendWindow>>
readerVars == <<role, reader, newSize, windows>>
history == <<connCredit, connSent, increments, sent>>
vars == <<credit, streams, readerVars, pc, left, got, history>>

Writing == {"reserve", "parked", "woken", "send"}

Least(a, b) == IF a <= b THEN a ELSE b

Int32s == (-MaxInt32 - 1)..MaxInt32

(* int32 addition: the sum of two int32 values wraps at most once. *)
Int32(x) == IF x > MaxInt32 THEN x - 2 * (MaxInt32 + 1)
            ELSE IF x < -MaxInt32 - 1 THEN x + 2 * (MaxInt32 + 1)
            ELSE x

Init ==
    /\ role \in {"worker", "proxy"}
    /\ ConnSendWindow = DefaultInitialWindow
    /\ PeerInitWindow = DefaultInitialWindow
    /\ dead = FALSE
    /\ cond = FALSE
    /\ SendWindow = [s \in Streams |-> 0]
    /\ streams = {}
    /\ reader = "read"
    /\ newSize = 0
    /\ windows = {}
    /\ pc = [s \in Streams |-> "new"]
    /\ left = [s \in Streams |-> 0]
    /\ got = [s \in Streams |-> 0]
    /\ connCredit = DefaultInitialWindow
    /\ connSent = 0
    /\ increments = [s \in Streams |-> 0]
    /\ sent = [s \in Streams |-> 0]

-----------------------------------------------------------------------------
(* Opening and closing a stream. *)

InitialWindow_default == DefaultInitialWindow  \* mutant: SETTINGS ignored

InitialWindow == PeerInitWindow

(* Worker: dispatchInboundHeaders runs on the frame reader, so nothing can  *)
(* change PeerInitWindow between reading it and registering the stream.     *)
Dispatch(s) ==
    /\ role = "worker"
    /\ reader = "read"
    /\ pc[s] = "new"
    /\ SendWindow' = [SendWindow EXCEPT ![s] = InitialWindow]
    /\ streams' = streams \cup {s}
    /\ pc' = [pc EXCEPT ![s] = "ready"]
    /\ UNCHANGED <<ConnSendWindow, PeerInitWindow, dead, cond, readerVars,
                   left, got, history>>

(* Proxy: openForward reads the window on the request's own goroutine ...   *)
InitialStreamWindow(s) ==
    /\ role = "proxy"
    /\ pc[s] = "new"
    /\ SendWindow' = [SendWindow EXCEPT ![s] = InitialWindow]
    /\ pc' = [pc EXCEPT ![s] = "opening"]
    /\ UNCHANGED <<ConnSendWindow, PeerInitWindow, dead, cond, streams,
                   readerVars, left, got, history>>

(* ... and openStream acquires and registers the stream with it later.      *)
OpenStream(s) ==
    /\ pc[s] = "opening"
    /\ streams' = streams \cup {s}
    /\ pc' = [pc EXCEPT ![s] = "ready"]
    /\ UNCHANGED <<credit, readerVars, left, got, history>>

RemoveStream(s) ==
    /\ pc[s] \in {"ready", "failed"}
    /\ streams' = streams \ {s}
    /\ pc' = [pc EXCEPT ![s] = "closed"]
    /\ UNCHANGED <<credit, readerVars, left, got, history>>

-----------------------------------------------------------------------------
(* The writer of a stream: one Write call (or one read of the request body) *)
(* is a loop of Reserve and SendData until its bytes are gone.              *)

Write(s) ==
    /\ pc[s] = "ready"
    /\ \E n \in 1..MaxWrite : left' = [left EXCEPT ![s] = n]
    /\ pc' = [pc EXCEPT ![s] = "reserve"]
    /\ UNCHANGED <<credit, streams, readerVars, got, history>>

Want(s) == Least(left[s], MaxFrameSize)

Avail_stream(s) == SendWindow[s]  \* mutant: connection window ignored

Avail(s) == Least(SendWindow[s], ConnSendWindow)

ReserveDead(s) ==
    /\ dead
    /\ pc' = [pc EXCEPT ![s] = "failed"]
    /\ UNCHANGED <<ConnSendWindow, SendWindow, got, connSent, sent>>

(* Mutant: the connection window is charged for what was asked for. *)
ReserveTake_want(s) ==
    /\ ~dead
    /\ Avail(s) > 0
    /\ LET n == Least(Want(s), Avail(s)) IN
          /\ ConnSendWindow' = ConnSendWindow - Want(s)
          /\ SendWindow' = [SendWindow EXCEPT ![s] = @ - n]
          /\ got' = [got EXCEPT ![s] = n]
          /\ connSent' = connSent + n
          /\ sent' = [sent EXCEPT ![s] = @ + n]
    /\ pc' = [pc EXCEPT ![s] = "send"]

ReserveTake(s) ==
    /\ ~dead
    /\ Avail(s) > 0
    /\ LET n == Least(Want(s), Avail(s)) IN
          /\ ConnSendWindow' = ConnSendWindow - n
          /\ SendWindow' = [SendWindow EXCEPT ![s] = @ - n]
          /\ got' = [got EXCEPT ![s] = n]
          /\ connSent' = connSent + n
          /\ sent' = [sent EXCEPT ![s] = @ + n]
    /\ pc' = [pc EXCEPT ![s] = "send"]

ReserveWait(s) ==
    /\ ~dead
    /\ Avail(s) <= 0
    /\ pc' = [pc EXCEPT ![s] = "parked"]
    /\ UNCHANGED <<ConnSendWindow, SendWindow, got, connSent, sent>>

Reserve(s) ==
    /\ pc[s] \in {"reserve", "woken"}
    /\ cond' = TRUE
    /\ ReserveDead(s) \/ ReserveTake(s) \/ ReserveWait(s)
    /\ UNCHANGED <<PeerInitWindow, dead, streams, readerVars, left,
                   connCredit, increments>>

SendData(s) ==
    /\ pc[s] = "send"
    /\ left' = [left EXCEPT ![s] = @ - got[s]]
    /\ pc' = [pc EXCEPT ![s] = IF left[s] = got[s] THEN "ready" ELSE "reserve"]
    /\ got' = [got EXCEPT ![s] = 0]
    /\ UNCHANGED <<credit, streams, readerVars, history>>

(* SendData returned an error: Write latches it, the pump returns it.       *)
SendDataFails(s) ==
    /\ pc[s] = "send"
    /\ pc' = [pc EXCEPT ![s] = "failed"]
    /\ UNCHANGED <<credit, streams, readerVars, left, got, history>>

-----------------------------------------------------------------------------
(* The frame reader. *)

(* Mutant: Signal in place of Broadcast. *)
Broadcast_signal ==
    \/ (\A s \in Streams : pc[s] # "parked") /\ UNCHANGED pc
    \/ \E s \in Streams : pc[s] = "parked" /\ pc' = [pc EXCEPT ![s] = "woken"]

(* Go: if sc.cond != nil { sc.cond.Broadcast() } *)
Broadcast == pc' = [s \in Streams |-> IF cond /\ pc[s] = "parked"
                                      THEN "woken" ELSE pc[s]]

(* RFC 9113 6.9.1: a window never exceeds 2^31 - 1.  The code relies on the *)
(* peer for that.                                                           *)
PeerMayGrow(w, d) == w + d <= MaxInt32

(* Mutant: nobody is woken. *)
AddConn_silent(d) ==
    /\ reader = "read"
    /\ PeerMayGrow(ConnSendWindow, d)
    /\ connCredit + d <= DefaultInitialWindow + MaxCredit
    /\ ConnSendWindow' = Int32(ConnSendWindow + d)
    /\ connCredit' = connCredit + d
    /\ UNCHANGED <<PeerInitWindow, dead, cond, SendWindow, streams, readerVars,
                   pc, left, got, connSent, increments, sent>>

AddConn(d) ==
    /\ reader = "read"
    /\ PeerMayGrow(ConnSendWindow, d)
    /\ connCredit + d <= DefaultInitialWindow + MaxCredit
    /\ ConnSendWindow' = Int32(ConnSendWindow + d)
    /\ connCredit' = connCredit + d
    /\ Broadcast
    /\ UNCHANGED <<PeerInitWindow, dead, cond, SendWindow, streams, readerVars,
                   left, got, connSent, increments, sent>>

AddStream(s, d) ==
    /\ reader = "read"
    /\ s \in streams
    /\ PeerMayGrow(SendWindow[s], d)
    /\ increments[s] + d <= MaxCredit
    /\ SendWindow' = [SendWindow EXCEPT ![s] = Int32(@ + d)]
    /\ increments' = [increments EXCEPT ![s] = @ + d]
    /\ Broadcast
    /\ UNCHANGED <<ConnSendWindow, PeerInitWindow, dead, cond, streams,
                   readerVars, left, got, connCredit, connSent, sent>>

(* ApplyPeerSettings, first half: activeStreamWindows under streamsMu.      *)
ActiveStreamWindows(v) ==
    /\ reader = "read"
    /\ \A s \in streams : PeerMayGrow(SendWindow[s], v - PeerInitWindow)
    /\ newSize' = v
    /\ windows' = streams
    /\ reader' = "settings"
    /\ UNCHANGED <<role, credit, streams, pc, left, got, history>>

(* Second half: ApplyInitialWindowDelta under SendCredit.mu.                *)
ApplyInitialWindowDelta ==
    /\ reader = "settings"
    /\ LET delta == newSize - PeerInitWindow IN
          /\ PeerInitWindow' = newSize
          /\ SendWindow' = [s \in Streams |-> IF s \in windows
                                              THEN Int32(SendWindow[s] + delta)
                                              ELSE SendWindow[s]]
          /\ IF delta = 0 THEN UNCHANGED pc ELSE Broadcast
    /\ reader' = "read"
    /\ newSize' = 0
    /\ windows' = {}
    /\ UNCHANGED <<role, ConnSendWindow, dead, cond, streams, left, got, history>>

(* The reader's teardown. *)
MarkDead ==
    /\ reader = "read"
    /\ dead' = TRUE
    /\ reader' = "gone"
    /\ Broadcast
    /\ UNCHANGED <<role, ConnSendWindow, PeerInitWindow, cond, SendWindow, streams,
                   newSize, windows, left, got, history>>

-----------------------------------------------------------------------------
Writer(s) == Reserve(s) \/ SendData(s) \/ SendDataFails(s)

Reader ==
    \/ \E d \in Increments : AddConn(d)
    \/ \E s \in Streams, d \in Increments : AddStream(s, d)
    \/ \E v \in Windows : ActiveStreamWindows(v)
    \/ ApplyInitialWindowDelta
    \/ MarkDead

Next ==
    \/ \E s \in Streams : \/ Dispatch(s)
                          \/ InitialStreamWindow(s)
                          \/ OpenStream(s)
                          \/ Write(s)
                          \/ Writer(s)
                          \/ RemoveStream(s)
    \/ Reader

Spec == Init /\ [][Next]_vars

-----------------------------------------------------------------------------
TypeOK ==
    /\ role \in {"worker", "proxy"}
    /\ ConnSendWindow \in Int32s
    /\ PeerInitWindow \in 0..MaxInt32
    /\ dead \in BOOLEAN
    /\ cond \in BOOLEAN
    /\ SendWindow \in [Streams -> Int32s]
    /\ streams \in SUBSET Streams
    /\ reader \in {"read", "settings", "gone"}
    /\ newSize \in 0..MaxInt32
    /\ windows \in SUBSET Streams
    /\ pc \in [Streams -> Writing \cup {"new", "opening", "ready", "failed",
                                        "closed"}]
    /\ left \in [Streams -> Nat]
    /\ got \in [Streams -> Nat]
    /\ \A s \in Streams : pc[s] = "send" => got[s] <= left[s]
    /\ connCredit \in Nat
    /\ connSent \in Nat
    /\ increments \in [Streams -> Nat]
    /\ sent \in [Streams -> Nat]

(* No lost wake-up: a writer parked in Reserve has nothing to send with, on *)
(* a connection that is alive.  Every change of a window and MarkDead must  *)
(* therefore reach the writers that were parked before it, also the first   *)
(* writer, which creates the condition variable.                            *)
NoLostWakeup ==
    \A s \in Streams : pc[s] = "parked" => ~dead /\ cond /\ Avail(s) <= 0

(* Connection-level credit is exact: what Reserve handed to all the streams *)
(* together never exceeds what the peer granted, and no granted byte is     *)
(* lost, in spite of int32 arithmetic.                                      *)
ConnCreditExact ==
    /\ ConnSendWindow = connCredit - connSent
    /\ connSent <= connCredit

(* Stream-level credit is exact on the worker: a registered stream's window *)
(* is the peer's current initial window plus its WINDOW_UPDATEs minus what  *)
(* was reserved.  A SETTINGS change must reach every registered stream      *)
(* exactly once.  On the proxy it misses a stream that is being opened.     *)
StreamCreditExact ==
    role = "worker" =>
        \A s \in streams :
            SendWindow[s] = PeerInitWindow + increments[s] - sent[s]

(* Once the connection is marked dead no writer stays inside Write or the   *)
(* request-body pump.                                                       *)
DeadReleasesWriters == dead ~> \A s \in Streams : pc[s] \notin Writing

=============================================================================
