---------------------------- MODULE FlowControl ----------------------------
(***************************************************************************)
(* SendCredit closed into a loop with the peer that grants the credit: our *)
(* frames travel to the peer in the order they were queued, the peer       *)
(* accounts for them as RFC 9113 6.9 prescribes and returns credit for     *)
(* what it has consumed.  The peer is external to the repository; it is a  *)
(* conforming receiver that applies a SETTINGS change when its ACK comes.  *)
(* The connection may be torn down at any point.                           *)
(***************************************************************************)
EXTENDS SendCredit, Totals

CONSTANT MaxSettings      \* bound: SETTINGS frames the peer sends

NoStream == "conn"

ASSUME StreamAssumption == Finite(Streams) /\ NoStream \notin Streams
ASSUME IncrementAssumption == 1..MaxCredit \subseteq Increments

VARIABLES
    toPeer,     \* DATA, HEADERS and SETTINGS ACK frames, in writer-queue order
    fromPeer,   \* HEADERS, WINDOW_UPDATE and SETTINGS frames
    peerConn,   \* the peer's view of the connection window
    peerUsed,   \* per stream: its view of the window, less the initial window
    offered,    \* initial windows it has announced, the default first
    acked,      \* number of its SETTINGS that it has seen acknowledged
    due, dueStream,  \* bytes it consumed and has not credited yet
    overrun     \* DATA arrived that the peer's windows do not cover

peerVars == <<peerConn, peerUsed, offered, acked, due, dueStream, overrun>>
allVars == <<vars, toPeer, fromPeer, peerVars>>

Frame(type, s, n) == [type |-> type, stream |-> s, n |-> n]

FlowInit ==
    /\ Init
    /\ toPeer = <<>>
    /\ fromPeer = <<>>
    /\ peerConn = DefaultInitialWindow
    /\ peerUsed = [s \in Streams |-> 0]
    /\ offered = <<DefaultInitialWindow>>
    /\ acked = 0
    /\ due = 0
    /\ dueStream = [s \in Streams |-> 0]
    /\ overrun = FALSE

Emit(f) == toPeer' = Append(toPeer, f)

Arrives(type) == /\ fromPeer # <<>>
                 /\ Head(fromPeer).type = type
                 /\ fromPeer' = Tail(fromPeer)

-----------------------------------------------------------------------------
(* This side: SendCredit's actions, bound to the frames that cause them and *)
(* the frames they emit.                                                    *)

AcceptStream(s) ==
    /\ Arrives("HEADERS")
    /\ Head(fromPeer).stream = s
    /\ Dispatch(s)
    /\ UNCHANGED <<toPeer, peerVars>>

RequestStream(s) ==
    \/ InitialStreamWindow(s) /\ UNCHANGED <<toPeer, fromPeer, peerVars>>
    \/ OpenStream(s) /\ Emit(Frame("HEADERS", s, 0)) /\ UNCHANGED <<fromPeer, peerVars>>

(* One Write per stream: the whole body. *)
SendBody(s) ==
    /\ sent[s] = 0
    /\ Write(s)
    /\ UNCHANGED <<toPeer, fromPeer, peerVars>>

Spend(s) == Reserve(s) /\ UNCHANGED <<toPeer, fromPeer, peerVars>>

EmitData(s) ==
    /\ SendData(s)
    /\ Emit(Frame("DATA", s, got[s]))
    /\ UNCHANGED <<fromPeer, peerVars>>

(* SendData fails when the writer goroutine is gone, which may be before    *)
(* the frame reader notices and calls MarkDead.                             *)
DataFails(s) ==
    /\ SendDataFails(s)
    /\ UNCHANGED <<toPeer, fromPeer, peerVars>>

CloseStream(s) ==
    /\ sent[s] > 0 \/ pc[s] = "failed"
    /\ RemoveStream(s)
    /\ UNCHANGED <<toPeer, fromPeer, peerVars>>

(* HandleWindowUpdate, in its three cases. *)
HandleWindowUpdate ==
    /\ Arrives("WINDOW_UPDATE")
    /\ LET f == Head(fromPeer) IN
          IF f.stream = NoStream THEN AddConn(f.n)
          ELSE IF f.stream \in streams THEN AddStream(f.stream, f.n)
          ELSE reader = "read" /\ UNCHANGED vars
    /\ UNCHANGED <<toPeer, peerVars>>

HandleSettings ==
    /\ Arrives("SETTINGS")
    /\ ActiveStreamWindows(Head(fromPeer).n)
    /\ UNCHANGED <<toPeer, peerVars>>

FinishSettings ==
    /\ ApplyInitialWindowDelta
    /\ Emit(Frame("SETTINGS_ACK", NoStream, 0))
    /\ UNCHANGED <<fromPeer, peerVars>>

Teardown == MarkDead /\ UNCHANGED <<toPeer, fromPeer, peerVars>>

-----------------------------------------------------------------------------
(* The peer.  Nothing it does matters any more once our reader is gone. *)

PeerGrants(f) == fromPeer' = Append(fromPeer, f)

PeerOpens(s) ==
    /\ role = "worker"
    /\ pc[s] = "new"
    /\ \A i \in DOMAIN fromPeer : fromPeer[i] # Frame("HEADERS", s, 0)
    /\ PeerGrants(Frame("HEADERS", s, 0))
    /\ UNCHANGED <<vars, toPeer, peerVars>>

peerInit == offered[acked + 1]

PeerReceives ==
    /\ toPeer # <<>>
    /\ toPeer' = Tail(toPeer)
    /\ LET f == Head(toPeer) IN
         \/ /\ f.type = "HEADERS"
            /\ UNCHANGED peerVars
         \/ /\ f.type = "DATA"
            /\ overrun' = (overrun \/ f.n > peerConn
                                   \/ f.n > peerInit + peerUsed[f.stream])
            /\ peerConn' = peerConn - f.n
            /\ peerUsed' = [peerUsed EXCEPT ![f.stream] = @ - f.n]
            /\ due' = due + f.n
            /\ dueStream' = [dueStream EXCEPT ![f.stream] = @ + f.n]
            /\ UNCHANGED <<offered, acked>>
         \/ /\ f.type = "SETTINGS_ACK"
            /\ acked' = acked + 1
            /\ UNCHANGED <<offered, peerConn, peerUsed, due, dueStream, overrun>>
    /\ UNCHANGED <<vars, fromPeer>>

PeerCreditsConn ==
    /\ due > 0
    /\ due' = 0
    /\ peerConn' = peerConn + due
    /\ PeerGrants(Frame("WINDOW_UPDATE", NoStream, due))
    /\ UNCHANGED <<vars, toPeer, peerUsed, offered, acked, dueStream, overrun>>

PeerCreditsStream(s) ==
    /\ dueStream[s] > 0
    /\ dueStream' = [dueStream EXCEPT ![s] = 0]
    /\ peerUsed' = [peerUsed EXCEPT ![s] = @ + dueStream[s]]
    /\ PeerGrants(Frame("WINDOW_UPDATE", s, dueStream[s]))
    /\ UNCHANGED <<vars, toPeer, peerConn, offered, acked, due, overrun>>

PeerSendsSettings(v) ==
    /\ Len(offered) <= MaxSettings
    /\ offered' = Append(offered, v)
    /\ PeerGrants(Frame("SETTINGS", NoStream, v))
    /\ UNCHANGED <<vars, toPeer, peerConn, peerUsed, acked, due, dueStream, overrun>>

-----------------------------------------------------------------------------
Ours(s) == \/ AcceptStream(s) \/ RequestStream(s) \/ SendBody(s)
           \/ Spend(s) \/ EmitData(s) \/ DataFails(s) \/ CloseStream(s)

OurReader == HandleWindowUpdate \/ HandleSettings \/ FinishSettings

PeerCredits == PeerCreditsConn \/ \E s \in Streams : PeerCreditsStream(s)

Peer == \/ \E s \in Streams : PeerOpens(s)
        \/ PeerReceives
        \/ PeerCredits
        \/ \E v \in Windows : PeerSendsSettings(v)

FlowNext ==
    \/ \E s \in Streams : Ours(s)
    \/ OurReader \/ Teardown
    \/ ~dead /\ Peer

(* Goroutines are scheduled, the transport delivers, and the peer goes on   *)
(* reading and crediting what it has read.                                  *)
FlowSpec ==
    /\ FlowInit /\ [][FlowNext]_allVars
    /\ \A s \in Streams : /\ WF_allVars(Ours(s))
                          /\ WF_allVars(~dead /\ PeerOpens(s))
    /\ WF_allVars(OurReader)
    /\ WF_allVars(~dead /\ PeerReceives)
    /\ WF_allVars(~dead /\ PeerCredits)

-----------------------------------------------------------------------------
(* The first k SETTINGS of the peer never lower its initial window. *)
Raised(k) == \A i \in 1..k : offered[i] <= offered[i + 1]

(* Write and streamRequestBody respect both windows: no DATA frame reaches  *)
(* the peer for which the peer, by its own accounting, has not granted      *)
(* credit (RFC 9113 6.9.1 makes that a FLOW_CONTROL_ERROR).  The peer has   *)
(* not lowered its initial window: DATA reserved before the change may then *)
(* be queued behind the ACK.                                                *)
PeerNeverOverrun == Raised(acked) => ~overrun

(* For every frame, the bytes it has of the given type and streams. *)
Bytes(frames, type, s) ==
    [i \in 1..Len(frames) |->
        IF frames[i].type = type /\ frames[i].stream \in s THEN frames[i].n ELSE 0]

(* Connection-level credit is conserved round the loop: what we may still   *)
(* send, what is reserved or in flight, what the peer has yet to return and *)
(* what is on its way back add up to the initial window.  Closing a stream  *)
(* while its frames are in flight must not leak any of it.                  *)
ConnCreditConserved ==
    ConnSendWindow + SumOver(got, Streams)
        + Total(Bytes(toPeer, "DATA", Streams)) + due
        + Total(Bytes(fromPeer, "WINDOW_UPDATE", {NoStream}))
      = DefaultInitialWindow

(* A SendData has failed: what was reserved for it is never sent. *)
SomeSendFailed == \E s \in Streams : pc[s] \in {"failed", "closed"} /\ got[s] > 0

(* No flow-control deadlock: with a peer that returns the credit it has     *)
(* consumed and leaves the streams a window, every stream gets its whole    *)
(* body out and is closed, however small the windows and however the        *)
(* streams compete for the connection window, unless the connection dies or *)
(* a write on it fails.                                                     *)
EveryBodyIsSent ==
    \A s \in Streams :
        <>(pc[s] = "closed" \/ dead \/ PeerInitWindow = 0 \/ SomeSendFailed)

=============================================================================
