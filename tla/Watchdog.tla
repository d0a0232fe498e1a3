------------------------------ MODULE Watchdog ------------------------------
(***************************************************************************)
(* The read-idle watchdog of a connection in discrete time: SetIdleDeadline*)
(* before every ReadFrame, SendOrCheckPing on a read timeout, HandlePingAck*)
(* on the answer (internal/h2/conn.go, the loops in handler.go and         *)
(* internal/proxy/tunnel.go).                                              *)
(*                                                                         *)
(* The reader reacts to a passed deadline at once: time does not advance   *)
(* beyond it while the reader is still running.                            *)
(***************************************************************************)
EXTENDS Integers

CONSTANTS
    PingInterval,   \* 30 s in the code
    PingTimeout,    \* 15 s in the code
    AnswerTime,     \* a responsive peer answers a PING within this time
    MaxTime         \* bound: how long the system is observed

ASSUME TimeAssumption == /\ PingInterval \in Nat \ {0}
                         /\ PingTimeout \in Nat
                         /\ AnswerTime \in Nat
                         /\ MaxTime \in Nat

(* The constants of the code, and what it means for a peer to be responsive. *)
ASSUME PingAssumption == AnswerTime <= PingTimeout /\ PingTimeout < PingInterval

VARIABLES
    now,
    running,       \* serve has not returned
    deadline,      \* the read deadline
    pingPending, pingDeadline,
    heard,         \* when the last frame arrived
    asked,         \* when the PING was sent that the peer has yet to answer
    responsive     \* the peer answers PINGs in time; once it fails to, no more

watchVars == <<now, running, deadline, pingPending, pingDeadline, heard,
               asked, responsive>>

NoPing == -1

WatchInit ==
    /\ now = 0
    /\ running = TRUE
    /\ deadline = PingInterval
    /\ pingPending = FALSE
    /\ pingDeadline = 0
    /\ heard = 0
    /\ asked = NoPing
    /\ responsive = TRUE

SetIdleDeadline_long == deadline' = now + PingInterval + PingTimeout  \* mutant

SetIdleDeadline == deadline' = now + PingInterval

(* ReadFrame timed out. *)
SendOrCheckPing ==
    /\ running
    /\ now >= deadline
    /\ \/ /\ pingPending /\ now > pingDeadline
          /\ running' = FALSE
          /\ UNCHANGED <<deadline, pingPending, pingDeadline, asked>>
       \/ /\ pingPending /\ now <= pingDeadline
          /\ SetIdleDeadline
          /\ UNCHANGED <<running, pingPending, pingDeadline, asked>>
       \/ /\ ~pingPending
          /\ pingPending' = TRUE
          /\ pingDeadline' = now + PingTimeout
          /\ asked' = now
          /\ SetIdleDeadline
          /\ UNCHANGED running
    /\ UNCHANGED <<now, heard, responsive>>

(* Mutant: the answer is not matched to the PING. *)
HandlePingAck_unmatched ==
    /\ running
    /\ asked # NoPing
    /\ asked' = NoPing
    /\ heard' = now
    /\ SetIdleDeadline
    /\ UNCHANGED <<now, running, pingPending, pingDeadline, responsive>>

(* The answer to our PING arrives, perhaps late. *)
HandlePingAck ==
    /\ running
    /\ asked # NoPing
    /\ asked' = NoPing
    /\ pingPending' = FALSE
    /\ heard' = now
    /\ SetIdleDeadline
    /\ UNCHANGED <<now, running, pingDeadline, responsive>>

OtherFrame ==
    /\ running
    /\ heard' = now
    /\ SetIdleDeadline
    /\ UNCHANGED <<now, running, pingPending, pingDeadline, asked, responsive>>

Tick ==
    /\ now < MaxTime
    /\ running => now < deadline
    /\ responsive /\ asked # NoPing => now < asked + AnswerTime
    /\ now' = now + 1
    /\ UNCHANGED <<running, deadline, pingPending, pingDeadline, heard, asked,
                   responsive>>

PeerStalls ==
    /\ responsive
    /\ responsive' = FALSE
    /\ UNCHANGED <<now, running, deadline, pingPending, pingDeadline, heard,
                   asked>>

WatchNext == SendOrCheckPing \/ HandlePingAck \/ OtherFrame \/ Tick \/ PeerStalls

WatchSpec == WatchInit /\ [][WatchNext]_watchVars

-----------------------------------------------------------------------------
WatchTypeOK ==
    /\ now \in 0..MaxTime
    /\ running \in BOOLEAN
    /\ deadline \in Nat
    /\ pingPending \in BOOLEAN
    /\ pingDeadline \in Nat
    /\ heard \in 0..MaxTime
    /\ asked \in {NoPing} \cup 0..MaxTime
    /\ responsive \in BOOLEAN

(* A silent peer is given up after two idle intervals: the PING goes out    *)
(* after the first, and only the end of the second looks at its deadline.   *)
SilenceBounded == running => now <= heard + 2 * PingInterval

(* A peer that answers every PING in time is never given up.                *)
ResponsiveSpared == responsive => running

(* TestPingLiveness: "Without an ACK by pingInterval+pingTimeout, serve()   *)
(* must exit".  Does not hold: see SilenceBounded.                          *)
DeadByPingTimeout == running => now <= heard + PingInterval + PingTimeout

=============================================================================
