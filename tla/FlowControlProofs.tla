-------------------------- MODULE FlowControlProofs -------------------------
(***************************************************************************)
(* Proofs about SendCredit, and about the loop FlowControl closes round it,*)
(* for any number of streams, any window sizes and any number of SETTINGS. *)
(***************************************************************************)
EXTENDS FlowControl, SequenceLemmas

(* The initial windows are within an int32. *)
LEMMA TypeInit ==
  ASSUME Init
  PROVE  TypeOK
<1> USE BoundAssumption, WindowAssumption DEF TypeOK, Writing, Int32s
<1>1. dead \in BOOLEAN /\ cond \in BOOLEAN
  BY Zenon DEF Init
<1>2. /\ SendWindow \in [Streams -> Int32s]
      /\ left \in [Streams -> Nat] /\ got \in [Streams -> Nat]
      /\ increments \in [Streams -> Nat] /\ sent \in [Streams -> Nat]
  BY DEF Init
<1> QED BY <1>1, <1>2 DEF Init

(* Every step of the loop, the streams' goroutines and the teardown keeps   *)
(* the types.                                                               *)
LEMMA TypeStep ==
  ASSUME TypeOK, [Next]_vars
  PROVE  TypeOK'
<1> USE BoundAssumption, WindowAssumption DEF TypeOK, Writing, Int32s
<1>1. ASSUME NEW s \in Streams, Dispatch(s) PROVE TypeOK'
  BY <1>1 DEF Dispatch, InitialWindow, readerVars, history
<1>2. ASSUME NEW s \in Streams, InitialStreamWindow(s) PROVE TypeOK'
  BY <1>2 DEF InitialStreamWindow, InitialWindow, readerVars, history
<1>3. ASSUME NEW s \in Streams, OpenStream(s) PROVE TypeOK'
  BY <1>3, Zenon DEF OpenStream, credit, readerVars, history
<1>4. ASSUME NEW s \in Streams, Write(s) PROVE TypeOK'
  BY <1>4 DEF Write, credit, readerVars, history
<1>5. ASSUME NEW s \in Streams, Reserve(s) PROVE TypeOK'
  <2>1. CASE ReserveDead(s)
    BY <1>5, <2>1, Zenon DEF Reserve, ReserveDead, readerVars
  <2>2. CASE ReserveTake(s)
    BY <1>5, <2>2 DEF Reserve, ReserveTake, Avail, Want, Least, readerVars
  <2>3. CASE ReserveWait(s)
    BY <1>5, <2>3, Zenon DEF Reserve, ReserveWait, readerVars
  <2> QED BY <1>5, <2>1, <2>2, <2>3, Zenon DEF Reserve
<1>6. ASSUME NEW s \in Streams, SendData(s) PROVE TypeOK'
  BY <1>6 DEF SendData, credit, readerVars, history
<1>7. ASSUME NEW s \in Streams, SendDataFails(s) PROVE TypeOK'
  BY <1>7, Zenon DEF SendDataFails, credit, readerVars, history
<1>8. ASSUME NEW s \in Streams, RemoveStream(s) PROVE TypeOK'
  BY <1>8, Zenon DEF RemoveStream, credit, readerVars, history
<1>9. ASSUME NEW d \in Increments, AddConn(d) PROVE TypeOK'
  BY <1>9 DEF AddConn, Broadcast, Int32, readerVars
<1>10. ASSUME NEW s \in Streams, NEW d \in Increments, AddStream(s, d)
       PROVE  TypeOK'
  BY <1>10 DEF AddStream, Broadcast, Int32, readerVars
<1>11. ASSUME NEW v \in Windows, ActiveStreamWindows(v) PROVE TypeOK'
  BY <1>11, Zenon DEF ActiveStreamWindows, credit, history
<1>12. CASE ApplyInitialWindowDelta
  BY <1>12 DEF ApplyInitialWindowDelta, Broadcast, Int32, history
<1>13. CASE MarkDead
  BY <1>13, Zenon DEF MarkDead, Broadcast, history
<1>14. CASE UNCHANGED vars
  BY <1>14, Zenon DEF vars, credit, readerVars, history
<1> QED
  BY <1>1, <1>2, <1>3, <1>4, <1>5, <1>6, <1>7, <1>8, <1>9, <1>10, <1>11,
     <1>12, <1>13, <1>14, Zenon DEF Next, Writer, Reader

(* The state of every flow-control variable stays in its type.  The code    *)
(* behaviour is that of every critical section of SendCredit.mu.            *)
THEOREM TypeCorrect == Spec => []TypeOK
<1>1. Init => TypeOK
  BY TypeInit, Zenon
<1>2. TypeOK /\ [Next]_vars => TypeOK'
  BY TypeStep, Zenon
<1> QED BY <1>1, <1>2, PTL DEF Spec

-----------------------------------------------------------------------------
(* int32 addition does not wrap on sums that fit. *)
LEMMA Int32Exact ==
  ASSUME NEW x \in Int, x <= MaxInt32, -MaxInt32 - 1 <= x
  PROVE  Int32(x) = x
BY BoundAssumption DEF Int32

(* Reserve, refund and the WINDOW_UPDATE handler keep ConnSendWindow exact. *)
LEMMA ConnCreditStep ==
  ASSUME TypeOK, ConnCreditExact, [Next]_vars
  PROVE  ConnCreditExact'
<1> USE BoundAssumption, WindowAssumption DEF ConnCreditExact, Int32s
<1>1. ASSUME NEW s \in Streams, Reserve(s) PROVE ConnCreditExact'
  <2>1. CASE ReserveTake(s)
    BY <1>1, <2>1 DEF Reserve, ReserveTake, Avail, Want, Least, TypeOK
  <2>2. CASE ReserveDead(s) \/ ReserveWait(s)
    BY <1>1, <2>2, Zenon DEF Reserve, ReserveDead, ReserveWait, TypeOK
  <2> QED BY <1>1, <2>1, <2>2, Zenon DEF Reserve
<1>2. ASSUME NEW d \in Increments, AddConn(d) PROVE ConnCreditExact'
  <2>1. ConnSendWindow + d \in 0..MaxInt32
    BY <1>2 DEF AddConn, PeerMayGrow, TypeOK
  <2>2. Int32(ConnSendWindow + d) = ConnSendWindow + d
    BY <2>1, Int32Exact
  <2> QED BY <1>2, <2>2 DEF AddConn, TypeOK
<1>3. CASE UNCHANGED <<ConnSendWindow, connCredit, connSent>>
  BY <1>3, Zenon
<1> QED
  BY <1>1, <1>2, <1>3, Zenon DEF Next, Writer, Reader, Dispatch, InitialWindow,
     InitialStreamWindow, OpenStream, Write, SendData, SendDataFails,
     RemoveStream, AddStream, ActiveStreamWindows, ApplyInitialWindowDelta,
     MarkDead, vars, credit, history

(* Connection-level credit is exact: Reserve never hands out more than the  *)
(* peer granted, and AddConn loses nothing.  Only those two critical        *)
(* sections change the connection window.                                   *)
THEOREM ConnCredit == Spec => []ConnCreditExact
<1>1. Init => ConnCreditExact
  BY WindowAssumption, BoundAssumption DEF Init, ConnCreditExact
<1>2. TypeOK /\ ConnCreditExact /\ [Next]_vars => ConnCreditExact'
  BY ConnCreditStep, Zenon
<1> QED BY <1>1, <1>2, TypeCorrect, PTL DEF Spec

-----------------------------------------------------------------------------
(* No wake-up of a parked writer is ever lost: AddConn, AddStream,          *)
(* ApplyInitialWindowDelta and MarkDead broadcast whenever a writer parked  *)
(* in Reserve could go on, and the lazily created condition variable exists *)
(* by the time somebody waits on it.                                        *)
THEOREM Wakeups == Spec => []NoLostWakeup
<1> USE DEF NoLostWakeup, Avail, Least
<1>1. Init => NoLostWakeup
  BY Zenon DEF Init
<1>2. TypeOK /\ NoLostWakeup /\ [Next]_vars => NoLostWakeup'
  <2> SUFFICES ASSUME TypeOK, NoLostWakeup, [Next]_vars,
                      NEW t \in Streams, pc'[t] = "parked"
               PROVE  (~dead /\ cond /\ Avail(t) <= 0)'
    BY Zenon
  <2> USE BoundAssumption, WindowAssumption DEF TypeOK, Writing, Int32s
  <2>1. ASSUME NEW s \in Streams, Reserve(s)
        PROVE  (~dead /\ cond /\ Avail(t) <= 0)'
    <3>1. CASE ReserveTake(s)
      <4>1. t # s /\ pc[t] = "parked"
        BY <2>1, <3>1, Zenon DEF Reserve, ReserveTake
      <4>2. /\ SendWindow'[t] = SendWindow[t]
            /\ ConnSendWindow' <= ConnSendWindow /\ ConnSendWindow' \in Int
        BY <4>1, <3>1, BoundAssumption DEF ReserveTake, Want
      <4> QED BY <4>1, <4>2, <2>1 DEF Reserve
    <3>2. CASE ReserveDead(s)
      BY <2>1, <3>2, Zenon DEF Reserve, ReserveDead
    <3>3. CASE ReserveWait(s)
      BY <2>1, <3>3, Zenon DEF Reserve, ReserveWait
    <3> QED BY <2>1, <3>1, <3>2, <3>3, Zenon DEF Reserve
  <2>2. ASSUME NEW s \in Streams,
               \/ Dispatch(s) \/ InitialStreamWindow(s) \/ OpenStream(s)
               \/ Write(s) \/ SendData(s) \/ SendDataFails(s)
               \/ RemoveStream(s)
        PROVE  (~dead /\ cond /\ Avail(t) <= 0)'
    <3>1. t # s /\ pc[t] = "parked"
      BY <2>2, Zenon DEF Dispatch, InitialWindow, InitialStreamWindow, OpenStream, Write, SendData,
                  SendDataFails, RemoveStream
    <3>2. /\ SendWindow'[t] = SendWindow[t]
          /\ UNCHANGED <<ConnSendWindow, dead, cond>>
      BY <2>2, <3>1, Zenon DEF Dispatch, InitialWindow, InitialStreamWindow, OpenStream, Write,
                  SendData, SendDataFails, RemoveStream, credit
    <3> QED BY <3>1, <3>2, Zenon
  <2>3. CASE Broadcast /\ UNCHANGED cond
    BY <2>3, Zenon DEF Broadcast
  <2>4. CASE UNCHANGED <<ConnSendWindow, SendWindow, dead, cond, pc>>
    BY <2>4, Zenon
  <2>5. CASE ApplyInitialWindowDelta
    <3>1. CASE newSize = PeerInitWindow
      <4>1. SendWindow'[t] = SendWindow[t]
        BY <2>5, <3>1, Int32Exact DEF ApplyInitialWindowDelta
      <4> QED BY <2>5, <3>1, <4>1 DEF ApplyInitialWindowDelta
    <3>2. CASE newSize # PeerInitWindow
      BY <2>5, <3>2, <2>3 DEF ApplyInitialWindowDelta
    <3> QED BY <3>1, <3>2, Zenon
  <2> QED
    BY <2>1, <2>2, <2>3, <2>4, <2>5, Zenon DEF Next, Writer, Reader, AddConn,
       AddStream, ActiveStreamWindows, MarkDead, vars, credit
<1> QED BY <1>1, <1>2, TypeCorrect, PTL DEF Spec

-----------------------------------------------------------------------------
(* The strengthening that makes StreamCreditExact inductive on the worker:  *)
(* a snapshot taken by activeStreamWindows covers every registered stream   *)
(* until it is applied, only registered streams are written to, and a       *)
(* stream owes at most one full window, so no delta can wrap it.            *)
Open == Writing \cup {"ready", "failed"}

StreamInv ==
  /\ \A s \in streams :
        SendWindow[s] = PeerInitWindow + increments[s] - sent[s]
  /\ \A s \in Streams : (s \in streams) <=> (pc[s] \in Open)
  /\ \A s \in Streams : pc[s] = "new" => increments[s] = 0 /\ sent[s] = 0
  /\ \A s \in Streams : pc[s] # "opening"
  /\ \A s \in streams : sent[s] - increments[s] <= MaxInt32
  /\ reader = "settings" =>
        /\ streams \subseteq windows
        /\ \A s \in streams :
              PeerMayGrow(SendWindow[s], newSize - PeerInitWindow)

WorkerInv == role = "worker" => StreamInv

(* On the worker, the send window of every registered stream is exactly the *)
(* peer's current initial window plus its WINDOW_UPDATEs minus what was     *)
(* reserved, whatever the interleaving of SETTINGS, writers and new streams *)
(* (dispatchInboundHeaders and ApplyPeerSettings share one goroutine).      *)
THEOREM WorkerStreamCredit == Spec => []StreamCreditExact
<1> USE BoundAssumption, WindowAssumption DEF Int32s, Writing, Open
<1>1. Init => WorkerInv
  BY Zenon DEF Init, WorkerInv, StreamInv
<1>2. TypeOK /\ WorkerInv /\ [Next]_vars => WorkerInv'
  <2>0. [Next]_vars => role' = role
    BY Zenon DEF Next, Writer, Reader, Dispatch, InitialStreamWindow, OpenStream,
       Write, Reserve, SendData, SendDataFails, RemoveStream, AddConn, AddStream,
       ActiveStreamWindows, ApplyInitialWindowDelta, MarkDead, vars, readerVars
  <2> SUFFICES ASSUME TypeOK, role = "worker", StreamInv, [Next]_vars
               PROVE  StreamInv'
    BY <2>0, Zenon DEF WorkerInv
  <2> USE DEF TypeOK, StreamInv, PeerMayGrow
  <2>1. ASSUME NEW s \in Streams, Dispatch(s) PROVE StreamInv'
    BY <2>1 DEF Dispatch, InitialWindow, readerVars, history
  <2>2. ASSUME NEW s \in Streams, InitialStreamWindow(s) \/ OpenStream(s)
        PROVE  StreamInv'
    BY <2>2, role = "worker", Zenon DEF InitialStreamWindow, OpenStream
  <2>3. ASSUME NEW s \in Streams,
               Write(s) \/ SendData(s) \/ SendDataFails(s)
        PROVE  StreamInv'
    BY <2>3 DEF Write, SendData, SendDataFails, credit, readerVars, history
  <2>4. ASSUME NEW s \in Streams, Reserve(s) PROVE StreamInv'
    <3>1. CASE ReserveTake(s)
      <4> DEFINE n == Least(Want(s), Avail(s))
      <4>1. n \in Nat /\ n <= SendWindow[s] /\ s \in streams
        BY <2>4, <3>1 DEF Reserve, ReserveTake, Want, Avail, Least
      <4>2. /\ SendWindow' = [SendWindow EXCEPT ![s] = @ - n]
            /\ sent' = [sent EXCEPT ![s] = @ + n]
            /\ pc' = [pc EXCEPT ![s] = "send"]
            /\ UNCHANGED <<PeerInitWindow, streams, reader, newSize, windows,
                            increments>>
        BY <2>4, <3>1, Zenon DEF Reserve, ReserveTake, readerVars
      <4> HIDE DEF n
      <4> QED BY <4>1, <4>2
    <3>2. CASE ReserveDead(s) \/ ReserveWait(s)
      BY <2>4, <3>2, Zenon DEF Reserve, ReserveDead, ReserveWait, readerVars
    <3> QED BY <2>4, <3>1, <3>2, Zenon DEF Reserve
  <2>5. ASSUME NEW s \in Streams, RemoveStream(s) PROVE StreamInv'
    BY <2>5, Zenon DEF RemoveStream, credit, readerVars, history
  <2>6. ASSUME NEW d \in Increments, AddConn(d) PROVE StreamInv'
    BY <2>6, Zenon DEF AddConn, Broadcast, readerVars
  <2>7. ASSUME NEW s \in Streams, NEW d \in Increments, AddStream(s, d)
        PROVE  StreamInv'
    <3>1. SendWindow[s] + d \in Int32s
      BY <2>7 DEF AddStream
    <3>2. Int32(SendWindow[s] + d) = SendWindow[s] + d
      BY <3>1, Int32Exact
    <3> QED BY <2>7, <3>2 DEF AddStream, Broadcast, readerVars
  <2>8. ASSUME NEW v \in Windows, ActiveStreamWindows(v) PROVE StreamInv'
    BY <2>8, Zenon DEF ActiveStreamWindows, credit, history
  <2>9. CASE ApplyInitialWindowDelta
    <3>1. ASSUME NEW s \in streams
          PROVE  SendWindow'[s] = SendWindow[s] + (newSize - PeerInitWindow)
      <4>1. SendWindow[s] + (newSize - PeerInitWindow) \in Int32s
        BY <2>9 DEF ApplyInitialWindowDelta
      <4> QED BY <2>9, <4>1, Int32Exact DEF ApplyInitialWindowDelta
    <3>2. /\ \A s \in Streams : pc'[s] \in Open <=> pc[s] \in Open
          /\ \A s \in Streams : pc'[s] = "new" <=> pc[s] = "new"
          /\ \A s \in Streams : pc'[s] # "opening"
      BY <2>9 DEF ApplyInitialWindowDelta, Broadcast
    <3> QED BY <2>9, <3>1, <3>2 DEF ApplyInitialWindowDelta, history
  <2>10. CASE MarkDead
    BY <2>10, Zenon DEF MarkDead, Broadcast, history
  <2>11. CASE UNCHANGED vars
    BY <2>11, Zenon DEF vars, credit, readerVars, history
  <2> QED
    BY <2>1, <2>2, <2>3, <2>4, <2>5, <2>6, <2>7, <2>8, <2>9, <2>10, <2>11, Zenon
       DEF Next, Writer, Reader
<1>3. WorkerInv => StreamCreditExact
  BY Zenon DEF WorkerInv, StreamInv, StreamCreditExact
<1> QED BY <1>1, <1>2, <1>3, TypeCorrect, PTL DEF Spec

-----------------------------------------------------------------------------
(* The loop with the peer: the inductive invariant. *)

Frames == [type : {"HEADERS", "DATA", "SETTINGS_ACK", "SETTINGS", "WINDOW_UPDATE"},
           stream : Streams \cup {NoStream}, n : Nat]

ToPeerType ==
  /\ toPeer \in Seq(Frames)
  /\ \A i \in 1..Len(toPeer) : toPeer[i].type = "DATA" => toPeer[i].stream \in Streams

FromPeerType ==
  /\ fromPeer \in Seq(Frames)
  /\ \A i \in 1..Len(fromPeer) :
        /\ fromPeer[i].type = "SETTINGS" => fromPeer[i].n \in Windows
        /\ fromPeer[i].type = "WINDOW_UPDATE" => fromPeer[i].n > 0

PeerType ==
  /\ peerConn \in Int
  /\ peerUsed \in [Streams -> Int]
  /\ offered \in Seq(0..MaxInt32)
  /\ acked \in Nat
  /\ due \in Nat
  /\ dueStream \in [Streams -> Nat]
  /\ overrun \in BOOLEAN

FlowTypeOK == ToPeerType /\ FromPeerType /\ PeerType

Granted == connCredit >= DefaultInitialWindow

(* Only a writer between Reserve and SendData, or one that failed there,    *)
(* holds reserved bytes.                                                    *)
Reserved ==
  \A s \in Streams : pc[s] \notin {"send", "failed", "closed"} => got[s] = 0

(* The peer's windows are what it has not yet returned. *)
PeerAccount ==
  /\ peerConn + due = DefaultInitialWindow
  /\ \A s \in Streams : peerUsed[s] + dueStream[s] = 0

Count(frames, type) == [i \in 1..Len(frames) |-> IF frames[i].type = type THEN 1 ELSE 0]

(* What the connection-level results rest on. *)
LoopInv ==
  TypeOK /\ FlowTypeOK /\ Granted /\ Reserved /\ PeerAccount /\ ConnCreditConserved


-----------------------------------------------------------------------------
(* What appending a frame and taking the first one do to the totals. *)

Weight(type, S) == [f \in Frames |-> IF f.type = type /\ f.stream \in S THEN f.n ELSE 0]
One(type) == [f \in Frames |-> IF f.type = type THEN 1 ELSE 0]

(* Bytes is a weighting of the frames, so the lemmas on weights apply to    *)
(* it.                                                                      *)
LEMMA BytesWeights ==
  ASSUME NEW q \in Seq(Frames), NEW type, NEW S
  PROVE  Bytes(q, type, S) = Weights(Weight(type, S), q)
<1>1. \A i \in 1..Len(q) : q[i] \in Frames
  OBVIOUS
<1> QED BY <1>1, Zenon DEF Bytes, Weights, Weight

(* Count is a weighting of the frames too. *)
LEMMA CountWeights ==
  ASSUME NEW q \in Seq(Frames), NEW type
  PROVE  Count(q, type) = Weights(One(type), q)
<1>1. \A i \in 1..Len(q) : q[i] \in Frames
  OBVIOUS
<1> QED BY <1>1, Zenon DEF Count, Weights, One

(* The weights are natural numbers. *)
LEMMA WeightTypes ==
  /\ \A type, S : Weight(type, S) \in [Frames -> Nat]
  /\ \A type : One(type) \in [Frames -> Nat]
BY Zenon DEF Weight, One, Frames

(* Running byte counts start at 0, are natural and never exceed the total. *)
LEMMA BytesTotals ==
  ASSUME NEW q \in Seq(Frames), NEW type, NEW S
  PROVE  /\ Total(Bytes(q, type, S)) \in Nat
         /\ Partial(Bytes(q, type, S))[0] = 0
         /\ Partial(Bytes(q, type, S))[Len(q)] = Total(Bytes(q, type, S))
         /\ \A i \in 0..Len(q) :
               /\ Partial(Bytes(q, type, S))[i] \in Nat
               /\ Partial(Bytes(q, type, S))[i] <= Total(Bytes(q, type, S))
<1> DEFINE w == Weight(type, S)
<1>1. Bytes(q, type, S) = Weights(w, q)
  BY BytesWeights, Zenon
<1>2. w \in [Frames -> Nat]
  BY WeightTypes, Zenon
<1> HIDE DEF w
<1>3. /\ Total(Weights(w, q)) \in Nat
      /\ Partial(Weights(w, q))[0] = 0
      /\ Partial(Weights(w, q))[Len(q)] = Total(Weights(w, q))
      /\ \A i \in 0..Len(q) : /\ Partial(Weights(w, q))[i] \in Nat
                              /\ Partial(Weights(w, q))[i] <= Total(Weights(w, q))
  BY <1>2, WeightsTotals
<1> QED BY <1>1, <1>3, Zenon

(* The same for the number of frames of a type, which grows frame by frame. *)
LEMMA CountTotals ==
  ASSUME NEW q \in Seq(Frames), NEW type
  PROVE  /\ Total(Count(q, type)) \in Nat
         /\ Partial(Count(q, type))[0] = 0
         /\ Partial(Count(q, type))[Len(q)] = Total(Count(q, type))
         /\ \A i \in 0..Len(q) :
               /\ Partial(Count(q, type))[i] \in Nat
               /\ Partial(Count(q, type))[i] <= Total(Count(q, type))
         /\ \A i \in 1..Len(q) :
               Partial(Count(q, type))[i] = Partial(Count(q, type))[i - 1] + One(type)[q[i]]
<1> DEFINE w == One(type)
<1>1. Count(q, type) = Weights(w, q)
  BY CountWeights, Zenon
<1>2. w \in [Frames -> Nat]
  BY WeightTypes, Zenon
<1>3. w = One(type)
  BY Zenon
<1> HIDE DEF w
<1>4. /\ Total(Weights(w, q)) \in Nat
      /\ Partial(Weights(w, q))[0] = 0
      /\ Partial(Weights(w, q))[Len(q)] = Total(Weights(w, q))
      /\ \A i \in 0..Len(q) : /\ Partial(Weights(w, q))[i] \in Nat
                              /\ Partial(Weights(w, q))[i] <= Total(Weights(w, q))
      /\ \A i \in 1..Len(q) :
            Partial(Weights(w, q))[i] = Partial(Weights(w, q))[i - 1] + w[q[i]]
  BY <1>2, WeightsTotals
<1> QED BY <1>1, <1>3, <1>4, Zenon

(* A frame queued behind the others adds its bytes and changes no prefix. *)
LEMMA BytesAppend ==
  ASSUME NEW q \in Seq(Frames), NEW f \in Frames, NEW type, NEW S
  PROVE  /\ Total(Bytes(Append(q, f), type, S)) = Total(Bytes(q, type, S)) + Weight(type, S)[f]
         /\ Partial(Bytes(Append(q, f), type, S))[Len(q) + 1]
              = Total(Bytes(q, type, S)) + Weight(type, S)[f]
         /\ \A i \in 0..Len(q) : Partial(Bytes(Append(q, f), type, S))[i]
                                   = Partial(Bytes(q, type, S))[i]
<1>1. Append(q, f) \in Seq(Frames)
  OBVIOUS
<1>2. Bytes(Append(q, f), type, S) = Weights(Weight(type, S), Append(q, f))
  BY <1>1, BytesWeights, Zenon
<1> QED BY <1>2, BytesWeights, WeightTypes, AppendTotals

(* A frame queued behind the others adds itself to the count of its type. *)
LEMMA CountAppend ==
  ASSUME NEW q \in Seq(Frames), NEW f \in Frames, NEW type
  PROVE  /\ Total(Count(Append(q, f), type)) = Total(Count(q, type)) + One(type)[f]
         /\ Partial(Count(Append(q, f), type))[Len(q) + 1]
              = Total(Count(q, type)) + One(type)[f]
         /\ \A i \in 0..Len(q) : Partial(Count(Append(q, f), type))[i]
                                   = Partial(Count(q, type))[i]
<1>1. Append(q, f) \in Seq(Frames)
  OBVIOUS
<1>2. Count(Append(q, f), type) = Weights(One(type), Append(q, f))
  BY <1>1, CountWeights, Zenon
<1> QED BY <1>2, CountWeights, WeightTypes, AppendTotals

(* The frame received first takes its bytes out of every running count. *)
LEMMA BytesTail ==
  ASSUME NEW q \in Seq(Frames), q # <<>>, NEW type, NEW S
  PROVE  /\ Total(Bytes(q, type, S)) = Weight(type, S)[q[1]] + Total(Bytes(Tail(q), type, S))
         /\ \A i \in 0..(Len(q) - 1) : Partial(Bytes(q, type, S))[i + 1]
              = Weight(type, S)[q[1]] + Partial(Bytes(Tail(q), type, S))[i]
<1>1. Tail(q) \in Seq(Frames)
  OBVIOUS
<1>2. Bytes(Tail(q), type, S) = Weights(Weight(type, S), Tail(q))
  BY <1>1, BytesWeights, Zenon
<1> QED BY <1>2, BytesWeights, WeightTypes, TailTotals

(* The frame received first takes itself out of every running count. *)
LEMMA CountTail ==
  ASSUME NEW q \in Seq(Frames), q # <<>>, NEW type
  PROVE  /\ Total(Count(q, type)) = One(type)[q[1]] + Total(Count(Tail(q), type))
         /\ \A i \in 0..(Len(q) - 1) : Partial(Count(q, type))[i + 1]
              = One(type)[q[1]] + Partial(Count(Tail(q), type))[i]
<1>1. Tail(q) \in Seq(Frames)
  OBVIOUS
<1>2. Count(Tail(q), type) = Weights(One(type), Tail(q))
  BY <1>1, CountWeights, Zenon
<1> QED BY <1>2, CountWeights, WeightTypes, TailTotals

-----------------------------------------------------------------------------
(* Type correctness of the peer and of the two queues. *)

(* A frame that HandleSettings or HandleWindowUpdate takes is well-formed. *)
LEMMA ArrivesType ==
  ASSUME FromPeerType, NEW type, Arrives(type)
  PROVE  /\ FromPeerType' /\ Head(fromPeer) \in Frames
         /\ Head(fromPeer).type = type /\ Head(fromPeer) = fromPeer[1]
         /\ type = "SETTINGS" => Head(fromPeer).n \in Windows
         /\ type = "WINDOW_UPDATE" => Head(fromPeer).n > 0
<1>1. /\ fromPeer # <<>> /\ fromPeer' = Tail(fromPeer) /\ fromPeer \in Seq(Frames)
      /\ Head(fromPeer).type = type
  BY Zenon DEF Arrives, FromPeerType
<1>2. /\ fromPeer' \in Seq(Frames) /\ Head(fromPeer) = fromPeer[1]
      /\ Head(fromPeer) \in Frames
      /\ Len(fromPeer') = Len(fromPeer) - 1 /\ Len(fromPeer) \in Nat \ {0}
      /\ \A i \in 1..Len(fromPeer') : fromPeer'[i] = fromPeer[i + 1]
  BY <1>1
<1>3. \A i \in 1..Len(fromPeer) :
        /\ fromPeer[i].type = "SETTINGS" => fromPeer[i].n \in Windows
        /\ fromPeer[i].type = "WINDOW_UPDATE" => fromPeer[i].n > 0
  BY Zenon DEF FromPeerType
<1>4. \A i \in 1..Len(fromPeer') :
        /\ fromPeer'[i].type = "SETTINGS" => fromPeer'[i].n \in Windows
        /\ fromPeer'[i].type = "WINDOW_UPDATE" => fromPeer'[i].n > 0
  <2> TAKE i \in 1..Len(fromPeer')
  <2>1. i + 1 \in 1..Len(fromPeer)
    BY <1>2
  <2> QED BY <2>1, <1>2, <1>3, Zenon
<1>5. 1 \in 1..Len(fromPeer)
  BY <1>2
<1> QED BY <1>1, <1>2, <1>3, <1>4, <1>5, Zenon DEF FromPeerType

(* A frame the peer sends keeps its direction well-formed. *)
LEMMA GrantsType ==
  ASSUME FromPeerType, NEW f \in Frames, PeerGrants(f),
         f.type = "SETTINGS" => f.n \in Windows,
         f.type = "WINDOW_UPDATE" => f.n > 0
  PROVE  FromPeerType'
<1>1. fromPeer' = Append(fromPeer, f) /\ fromPeer \in Seq(Frames)
  BY Zenon DEF PeerGrants, FromPeerType
<1>2. /\ fromPeer' \in Seq(Frames)
      /\ Len(fromPeer') = Len(fromPeer) + 1 /\ Len(fromPeer) \in Nat
      /\ \A i \in 1..Len(fromPeer) : fromPeer'[i] = fromPeer[i]
      /\ fromPeer'[Len(fromPeer) + 1] = f
  BY <1>1
<1>3. \A i \in 1..Len(fromPeer') :
        /\ fromPeer'[i].type = "SETTINGS" => fromPeer'[i].n \in Windows
        /\ fromPeer'[i].type = "WINDOW_UPDATE" => fromPeer'[i].n > 0
  <2> TAKE i \in 1..Len(fromPeer')
  <2>1. CASE i \in 1..Len(fromPeer)
    BY <2>1, <1>2, Zenon DEF FromPeerType
  <2>2. CASE i = Len(fromPeer) + 1
    BY <2>2, <1>2, Zenon
  <2> QED BY <2>1, <2>2, <1>2
<1> QED BY <1>2, <1>3, Zenon DEF FromPeerType

(* A frame this side sends keeps its direction well-formed. *)
LEMMA EmitType ==
  ASSUME ToPeerType, NEW f \in Frames, Emit(f), f.type = "DATA" => f.stream \in Streams
  PROVE  ToPeerType'
<1>1. toPeer' = Append(toPeer, f) /\ toPeer \in Seq(Frames)
  BY Zenon DEF Emit, ToPeerType
<1>2. /\ toPeer' \in Seq(Frames)
      /\ Len(toPeer') = Len(toPeer) + 1 /\ Len(toPeer) \in Nat
      /\ \A i \in 1..Len(toPeer) : toPeer'[i] = toPeer[i]
      /\ toPeer'[Len(toPeer) + 1] = f
  BY <1>1
<1>3. \A i \in 1..Len(toPeer') : toPeer'[i].type = "DATA" => toPeer'[i].stream \in Streams
  <2> TAKE i \in 1..Len(toPeer')
  <2>1. CASE i \in 1..Len(toPeer)
    BY <2>1, <1>2, Zenon DEF ToPeerType
  <2>2. CASE i = Len(toPeer) + 1
    BY <2>2, <1>2, Zenon
  <2> QED BY <2>1, <2>2, <1>2
<1> QED BY <1>2, <1>3, Zenon DEF ToPeerType

(* A frame the peer takes is well-formed, and so are those behind it. *)
LEMMA TakeType ==
  ASSUME ToPeerType, toPeer # <<>>, toPeer' = Tail(toPeer)
  PROVE  /\ ToPeerType' /\ Head(toPeer) \in Frames /\ Head(toPeer) = toPeer[1]
         /\ Head(toPeer).type = "DATA" => Head(toPeer).stream \in Streams
<1>1. /\ toPeer \in Seq(Frames)
      /\ \A i \in 1..Len(toPeer) : toPeer[i].type = "DATA" => toPeer[i].stream \in Streams
  BY Zenon DEF ToPeerType
<1>2. /\ toPeer' \in Seq(Frames) /\ Head(toPeer) = toPeer[1]
      /\ Head(toPeer) \in Frames
      /\ Len(toPeer') = Len(toPeer) - 1 /\ Len(toPeer) \in Nat \ {0}
      /\ \A i \in 1..Len(toPeer') : toPeer'[i] = toPeer[i + 1]
  BY <1>1
<1>3. \A i \in 1..Len(toPeer') : toPeer'[i].type = "DATA" => toPeer'[i].stream \in Streams
  <2> TAKE i \in 1..Len(toPeer')
  <2>1. i + 1 \in 1..Len(toPeer)
    BY <1>2
  <2> QED BY <2>1, <1>1, <1>2, Zenon
<1>4. 1 \in 1..Len(toPeer)
  BY <1>2
<1> QED BY <1>1, <1>2, <1>3, <1>4, Zenon DEF ToPeerType


(* Every step of the loop and the peer keeps the types. *)
LEMMA FlowTypeStep ==
  ASSUME TypeOK, FlowTypeOK, [FlowNext]_allVars
  PROVE  FlowTypeOK'
<1> USE DEF FlowTypeOK
<1>1. ASSUME UNCHANGED peerVars PROVE PeerType'
  BY <1>1, Zenon DEF PeerType, peerVars
<1>2. ASSUME UNCHANGED toPeer PROVE ToPeerType'
  BY <1>2, Zenon DEF ToPeerType
<1>3. ASSUME UNCHANGED fromPeer PROVE FromPeerType'
  BY <1>3, Zenon DEF FromPeerType
<1>4. ASSUME NEW s \in Streams, Ours(s) PROVE FlowTypeOK'
  <2>1. CASE AcceptStream(s)
    BY <2>1, <1>1, <1>2, ArrivesType, Zenon DEF AcceptStream
  <2>2. CASE RequestStream(s)
    <3>1. Frame("HEADERS", s, 0) \in Frames /\ Frame("HEADERS", s, 0).type # "DATA"
      BY Zenon DEF Frame, Frames
    <3> QED BY <2>2, <3>1, <1>1, <1>2, <1>3, EmitType, Zenon DEF RequestStream
  <2>3. CASE EmitData(s)
    <3>1. Frame("DATA", s, got[s]) \in Frames /\ Frame("DATA", s, got[s]).stream = s
      BY Zenon DEF Frame, Frames, TypeOK
    <3> QED BY <2>3, <3>1, <1>1, <1>3, EmitType, Zenon DEF EmitData
  <2>4. CASE SendBody(s) \/ Spend(s) \/ DataFails(s) \/ CloseStream(s)
    BY <2>4, <1>1, <1>2, <1>3, Zenon DEF SendBody, Spend, DataFails, CloseStream
  <2> QED BY <1>4, <2>1, <2>2, <2>3, <2>4, Zenon DEF Ours
<1>5. CASE HandleWindowUpdate
  BY <1>5, <1>1, <1>2, ArrivesType, Zenon DEF HandleWindowUpdate
<1>6. CASE HandleSettings
  BY <1>6, <1>1, <1>2, ArrivesType, Zenon DEF HandleSettings
<1>7. CASE FinishSettings
  <2>1. Frame("SETTINGS_ACK", NoStream, 0) \in Frames
        /\ Frame("SETTINGS_ACK", NoStream, 0).type # "DATA"
    BY Zenon DEF Frame, Frames
  <2> QED BY <1>7, <2>1, <1>1, <1>3, EmitType, Zenon DEF FinishSettings
<1>8. CASE Teardown
  BY <1>8, <1>1, <1>2, <1>3, Zenon DEF Teardown
<1>9. ASSUME NEW s \in Streams, PeerOpens(s) PROVE FlowTypeOK'
  <2>1. /\ Frame("HEADERS", s, 0) \in Frames
        /\ Frame("HEADERS", s, 0).type \notin {"SETTINGS", "WINDOW_UPDATE"}
    BY Zenon DEF Frame, Frames
  <2> QED BY <1>9, <2>1, <1>1, <1>2, GrantsType, Zenon DEF PeerOpens
<1>10. CASE PeerReceives
  <2>1. ToPeerType' /\ FromPeerType'
    BY <1>10, <1>3, TakeType, Zenon DEF PeerReceives
  <2>2. /\ Head(toPeer).n \in Nat
        /\ Head(toPeer).type = "DATA" => Head(toPeer).stream \in Streams
    BY <1>10, TakeType, Zenon DEF PeerReceives, Frames
  <2>3. PeerType'
    <3>1. CASE UNCHANGED peerVars
      BY <3>1, <1>1, Zenon
    <3>2. CASE /\ Head(toPeer).type = "DATA"
               /\ overrun' = (overrun \/ Head(toPeer).n > peerConn
                     \/ Head(toPeer).n > peerInit + peerUsed[Head(toPeer).stream])
               /\ UNCHANGED <<offered, acked>>
      <4>1. overrun' \in BOOLEAN
        BY <3>2, Zenon
      <4>2. /\ peerConn' = peerConn - Head(toPeer).n
            /\ due' = due + Head(toPeer).n
            /\ peerUsed' = [peerUsed EXCEPT ![Head(toPeer).stream] = @ - Head(toPeer).n]
            /\ dueStream' = [dueStream EXCEPT ![Head(toPeer).stream] = @ + Head(toPeer).n]
        BY <1>10, <3>2, Zenon DEF PeerReceives
      <4>3. Head(toPeer).stream \in Streams /\ offered' = offered /\ acked' = acked
        BY <3>2, <2>2, Zenon
      <4>4. /\ peerConn \in Int /\ peerUsed \in [Streams -> Int]
            /\ offered \in Seq(0..MaxInt32) /\ acked \in Nat
            /\ due \in Nat /\ dueStream \in [Streams -> Nat]
        BY Zenon DEF PeerType
      <4>5. /\ peerConn' \in Int /\ peerUsed' \in [Streams -> Int]
            /\ offered' \in Seq(0..MaxInt32) /\ acked' \in Nat
            /\ due' \in Nat /\ dueStream' \in [Streams -> Nat]
        BY <4>2, <4>3, <4>4, <2>2, SMTT(30)
      <4> QED BY <4>1, <4>5, Zenon DEF PeerType
    <3>3. CASE acked' = acked + 1 /\ UNCHANGED <<offered, peerConn, peerUsed, due,
                                                dueStream, overrun>>
      BY <3>3 DEF PeerType
    <3> QED BY <1>10, <3>1, <3>2, <3>3, Zenon DEF PeerReceives
  <2> QED BY <2>1, <2>3, Zenon
<1>11. CASE PeerCreditsConn
  <2>1. /\ Frame("WINDOW_UPDATE", NoStream, due) \in Frames
        /\ Frame("WINDOW_UPDATE", NoStream, due).type # "SETTINGS"
        /\ Frame("WINDOW_UPDATE", NoStream, due).n > 0
    BY <1>11, Zenon DEF Frame, Frames, PeerCreditsConn, PeerType
  <2>2. PeerType'
    BY <1>11 DEF PeerCreditsConn, PeerType
  <2> QED BY <1>11, <2>1, <2>2, <1>2, GrantsType, Zenon DEF PeerCreditsConn
<1>12. ASSUME NEW s \in Streams, PeerCreditsStream(s) PROVE FlowTypeOK'
  <2>1. /\ Frame("WINDOW_UPDATE", s, dueStream[s]) \in Frames
        /\ Frame("WINDOW_UPDATE", s, dueStream[s]).type # "SETTINGS"
        /\ Frame("WINDOW_UPDATE", s, dueStream[s]).n > 0
    BY <1>12, Zenon DEF Frame, Frames, PeerCreditsStream, PeerType
  <2>2. PeerType'
    BY <1>12 DEF PeerCreditsStream, PeerType
  <2> QED BY <1>12, <2>1, <2>2, <1>2, GrantsType, Zenon DEF PeerCreditsStream
<1>13. ASSUME NEW v \in Windows, PeerSendsSettings(v) PROVE FlowTypeOK'
  <2>1. /\ Frame("SETTINGS", NoStream, v) \in Frames
        /\ Frame("SETTINGS", NoStream, v).type # "WINDOW_UPDATE"
        /\ Frame("SETTINGS", NoStream, v).n \in Windows
        /\ v \in 0..MaxInt32
    BY WindowAssumption, BoundAssumption DEF Frame, Frames
  <2>2. PeerType'
    BY <1>13, <2>1 DEF PeerSendsSettings, PeerType
  <2> QED BY <1>13, <2>1, <2>2, <1>2, GrantsType, Zenon DEF PeerSendsSettings
<1>14. CASE UNCHANGED allVars
  BY <1>14, <1>1, <1>2, <1>3, Zenon DEF allVars
<1> QED
  BY <1>4, <1>5, <1>6, <1>7, <1>8, <1>9, <1>10, <1>11, <1>12, <1>13, <1>14, Zenon
     DEF FlowNext, OurReader, Peer, PeerCredits

(* Every step of the loop is a step of SendCredit, or leaves it alone. *)
LEMMA FlowStep ==
  ASSUME TypeOK, FlowTypeOK, Granted, [FlowNext]_allVars
  PROVE  [Next]_vars
<1>1. ASSUME NEW s \in Streams, Ours(s) PROVE Next
  BY <1>1, Zenon DEF Ours, AcceptStream, RequestStream, SendBody, Spend, EmitData, DataFails,
              CloseStream, Next, Writer
<1>2. CASE HandleWindowUpdate
  <2> DEFINE f == Head(fromPeer)
  <2>1. f.n > 0 /\ f.n \in Nat
    BY <1>2, ArrivesType, Zenon DEF HandleWindowUpdate, FlowTypeOK, Frames
  <2>2. CASE AddConn(f.n)
    <3>1. f.n \in 1..MaxCredit
      BY <2>1, <2>2, BoundAssumption, WindowAssumption DEF AddConn, Granted, TypeOK
    <3>2. f.n \in Increments
      BY <3>1, IncrementAssumption, Zenon
    <3> QED BY <2>2, <3>2, Zenon DEF Next, Reader
  <2>3. CASE f.stream \in streams /\ AddStream(f.stream, f.n)
    <3>1. f.n \in 1..MaxCredit /\ f.stream \in Streams
      BY <2>1, <2>3, BoundAssumption DEF AddStream, TypeOK
    <3>2. f.n \in Increments
      BY <3>1, IncrementAssumption, Zenon
    <3> QED BY <2>3, <3>1, <3>2, Zenon DEF Next, Reader
  <2> QED BY <1>2, <2>2, <2>3, Zenon DEF HandleWindowUpdate
<1>3. CASE HandleSettings
  BY <1>3, ArrivesType, Zenon DEF HandleSettings, FlowTypeOK, Next, Reader
<1>4. CASE FinishSettings \/ Teardown
  BY <1>4, Zenon DEF FinishSettings, Teardown, Next, Reader
<1>5. CASE Peer
  BY <1>5, Zenon DEF Peer, PeerOpens, PeerReceives, PeerCredits, PeerCreditsConn,
              PeerCreditsStream, PeerSendsSettings
<1>6. CASE UNCHANGED allVars
  BY <1>6, Zenon DEF allVars
<1> QED BY <1>1, <1>2, <1>3, <1>4, <1>5, <1>6, Zenon DEF FlowNext, OurReader


-----------------------------------------------------------------------------
(* The connection window. *)

Held == SumOver(got, Streams)
InFlight == Total(Bytes(toPeer, "DATA", Streams))
Returning == Total(Bytes(fromPeer, "WINDOW_UPDATE", {NoStream}))

(* One stream's reservation changes the bytes held by what it changes       *)
(* itself.                                                                  *)
LEMMA HeldChange ==
  ASSUME got \in [Streams -> Nat], got' \in [Streams -> Nat], NEW s \in Streams,
         \A t \in Streams : t # s => got'[t] = got[t]
  PROVE  Held' = (Held - got[s]) + got'[s]
<1>1. got \in [Streams -> Int] /\ got' \in [Streams -> Int] /\ Finite(Streams)
  BY StreamAssumption
<1> QED BY <1>1, SumOverChange DEF Held

(* A DATA frame on its way adds its bytes to those in flight. *)
LEMMA InFlightEmit ==
  ASSUME ToPeerType, NEW f \in Frames, Emit(f)
  PROVE  InFlight' = InFlight + Weight("DATA", Streams)[f]
BY BytesAppend DEF InFlight, Emit, ToPeerType

(* A connection WINDOW_UPDATE adds its credit to that on its way back. *)
LEMMA ReturningGrant ==
  ASSUME FromPeerType, NEW f \in Frames, PeerGrants(f)
  PROVE  Returning' = Returning + Weight("WINDOW_UPDATE", {NoStream})[f]
BY BytesAppend DEF Returning, PeerGrants, FromPeerType

(* A DATA frame that the peer takes is no longer in flight. *)
LEMMA InFlightTake ==
  ASSUME ToPeerType, toPeer # <<>>, toPeer' = Tail(toPeer)
  PROVE  InFlight = Weight("DATA", Streams)[Head(toPeer)] + InFlight'
<1>1. toPeer \in Seq(Frames) /\ Head(toPeer) = toPeer[1]
  BY TakeType, Zenon DEF ToPeerType
<1> QED BY <1>1, BytesTail DEF InFlight

(* A connection WINDOW_UPDATE that is handled is no longer on its way. *)
LEMMA ReturningArrives ==
  ASSUME FromPeerType, NEW type, Arrives(type)
  PROVE  Returning = Weight("WINDOW_UPDATE", {NoStream})[Head(fromPeer)] + Returning'
<1>1. /\ fromPeer \in Seq(Frames) /\ Head(fromPeer) = fromPeer[1]
      /\ fromPeer # <<>> /\ fromPeer' = Tail(fromPeer)
  BY ArrivesType, Zenon DEF FromPeerType, Arrives
<1> QED BY <1>1, BytesTail DEF Returning

(* The terms of the connection's account are numbers. *)
LEMMA ConnTotals ==
  ASSUME TypeOK, FlowTypeOK
  PROVE  Held \in Nat /\ InFlight \in Nat /\ Returning \in Nat /\ ConnSendWindow \in Int
<1>1. Held \in Nat
  BY StreamAssumption, SumOverType, Zenon DEF Held, TypeOK
<1>2. InFlight \in Nat /\ Returning \in Nat
  BY BytesTotals, Zenon DEF InFlight, Returning, FlowTypeOK, ToPeerType, FromPeerType
<1>3. ConnSendWindow \in Int
  BY BoundAssumption DEF TypeOK, Int32s
<1> QED BY <1>1, <1>2, <1>3, Zenon

(* A writer holds credit only between its Reserve and its frame or refund. *)
LEMMA ReservedStep ==
  ASSUME TypeOK, Granted, Reserved, [Next]_vars
  PROVE  Granted' /\ Reserved'
<1>1. Granted'
  <2>1. ASSUME NEW d \in Increments, AddConn(d) PROVE Granted'
    BY <2>1, WindowAssumption, BoundAssumption, SMTT(30) DEF AddConn, Granted, TypeOK
  <2> QED BY <2>1, Zenon DEF Granted, Next, Dispatch, InitialStreamWindow, OpenStream, Write,
        Writer, Reserve, SendData, SendDataFails, RemoveStream, Reader, AddStream,
        ActiveStreamWindows, ApplyInitialWindowDelta, MarkDead, vars, history
<1>2. Reserved'
  <2> USE DEF TypeOK, Reserved, Writing
  <2>1. ASSUME NEW s \in Streams,
               Dispatch(s) \/ InitialStreamWindow(s) \/ OpenStream(s) \/ Write(s)
                  \/ RemoveStream(s)
        PROVE  Reserved'
    BY <2>1, Zenon DEF Dispatch, InitialStreamWindow, OpenStream, Write, RemoveStream
  <2>2. ASSUME NEW s \in Streams, Reserve(s) PROVE Reserved'
    BY <2>2, Zenon DEF Reserve, ReserveDead, ReserveTake, ReserveWait
  <2>3. ASSUME NEW s \in Streams, SendData(s) \/ SendDataFails(s) PROVE Reserved'
    BY <2>3, Zenon DEF SendData, SendDataFails
  <2>4. CASE Reader
    BY <2>4, Zenon DEF Reader, AddConn, AddStream, ActiveStreamWindows, ApplyInitialWindowDelta,
                MarkDead, Broadcast
  <2>5. CASE UNCHANGED vars
    BY <2>5, Zenon DEF vars
  <2> QED BY <2>1, <2>2, <2>3, <2>4, <2>5, Zenon DEF Next, Writer
<1> QED BY <1>1, <1>2, Zenon


Account == ConnSendWindow + Held + InFlight + due + Returning

(* No step creates or destroys connection credit. *)
LEMMA ConservedStep ==
  ASSUME TypeOK, TypeOK', FlowTypeOK, FlowTypeOK', Reserved, [FlowNext]_allVars
  PROVE  Account' = Account
<1> DEFINE up == Weight("DATA", Streams)
           down == Weight("WINDOW_UPDATE", {NoStream})
<1>1. /\ ToPeerType /\ FromPeerType
      /\ Held \in Nat /\ InFlight \in Nat /\ Returning \in Nat /\ ConnSendWindow \in Int
      /\ Held' \in Nat /\ InFlight' \in Nat /\ Returning' \in Nat /\ ConnSendWindow' \in Int
      /\ due \in Nat /\ due' \in Nat /\ dueStream \in [Streams -> Nat]
      /\ got \in [Streams -> Nat] /\ got' \in [Streams -> Nat]
  <2>1. /\ ToPeerType /\ FromPeerType /\ dueStream \in [Streams -> Nat]
        /\ due \in Nat /\ due' \in Nat /\ got \in [Streams -> Nat] /\ got' \in [Streams -> Nat]
        /\ toPeer' \in Seq(Frames) /\ fromPeer' \in Seq(Frames)
    BY Zenon DEF FlowTypeOK, PeerType, TypeOK, ToPeerType, FromPeerType
  <2>2. Held' \in Nat
    BY <2>1, StreamAssumption, SumOverType, Zenon DEF Held
  <2>3. InFlight' \in Nat /\ Returning' \in Nat
    BY <2>1, BytesTotals, Zenon DEF InFlight, Returning
  <2>4. ConnSendWindow' \in Int
    BY BoundAssumption DEF TypeOK, Int32s
  <2> QED BY <2>1, <2>2, <2>3, <2>4, ConnTotals, SMTT(30)
<1>2. \A f \in Frames :
        /\ up[f] = IF f.type = "DATA" /\ f.stream \in Streams THEN f.n ELSE 0
        /\ down[f] = IF f.type = "WINDOW_UPDATE" /\ f.stream = NoStream THEN f.n ELSE 0
  BY Zenon DEF Weight
<1> HIDE DEF up, down
<1>3. ASSUME UNCHANGED got PROVE Held' = Held
  BY <1>3, Zenon DEF Held
<1>4. ASSUME UNCHANGED toPeer PROVE InFlight' = InFlight
  BY <1>4, Zenon DEF InFlight
<1>5. ASSUME UNCHANGED fromPeer PROVE Returning' = Returning
  BY <1>5, Zenon DEF Returning
<1>6. ASSUME NEW f \in Frames, Emit(f) PROVE InFlight' = InFlight + up[f]
  BY <1>1, <1>6, InFlightEmit, Zenon DEF up
<1>7. ASSUME NEW f \in Frames, PeerGrants(f) PROVE Returning' = Returning + down[f]
  BY <1>1, <1>7, ReturningGrant, Zenon DEF down
<1>8. ASSUME NEW type, Arrives(type)
      PROVE  /\ Head(fromPeer) \in Frames /\ Head(fromPeer).type = type
             /\ Returning = down[Head(fromPeer)] + Returning'
  BY <1>1, <1>8, ArrivesType, ReturningArrives, Zenon DEF down
<1>9. ASSUME NEW s \in Streams, Ours(s) PROVE Account' = Account
  <2>1. CASE AcceptStream(s)
    <3>1. Returning' = Returning
      BY <2>1, <1>1, <1>2, <1>8 DEF AcceptStream
    <3> QED BY <2>1, <3>1, <1>3, <1>4, Zenon DEF AcceptStream, Dispatch, Account, peerVars
  <2>2. CASE RequestStream(s)
    <3>1. CASE InitialStreamWindow(s) /\ UNCHANGED <<toPeer, fromPeer, peerVars>>
      BY <3>1, <1>3, <1>4, <1>5, Zenon DEF InitialStreamWindow, Account, peerVars
    <3>2. CASE /\ OpenStream(s) /\ Emit(Frame("HEADERS", s, 0))
               /\ UNCHANGED <<fromPeer, peerVars>>
      <4> DEFINE f == Frame("HEADERS", s, 0)
      <4>1. f \in Frames /\ f.type = "HEADERS"
        BY Zenon DEF Frame, Frames
      <4> HIDE DEF f
      <4>2. InFlight' = InFlight
        BY <3>2, <4>1, <1>1, <1>2, <1>6 DEF f
      <4> QED BY <3>2, <4>2, <1>3, <1>5, Zenon DEF OpenStream, Account, peerVars, credit
    <3> QED BY <2>2, <3>1, <3>2, Zenon DEF RequestStream
  <2>3. CASE EmitData(s)
    <3> DEFINE f == Frame("DATA", s, got[s])
    <3>1. f \in Frames /\ f.type = "DATA" /\ f.stream = s /\ f.n = got[s] /\ got[s] \in Nat
      BY <1>1, Zenon DEF Frame, Frames
    <3> HIDE DEF f
    <3>2. InFlight' = InFlight + got[s]
      BY <2>3, <3>1, <1>1, <1>2, <1>6, Zenon DEF f, EmitData
    <3>3. got'[s] = 0 /\ \A t \in Streams : t # s => got'[t] = got[t]
      BY <2>3, <1>1, Zenon DEF EmitData, SendData
    <3>4. Held' = (Held - got[s]) + 0
      BY <3>3, <1>1, HeldChange, Zenon
    <3>5. ConnSendWindow' = ConnSendWindow /\ due' = due /\ Returning' = Returning
      BY <2>3, <1>5, Zenon DEF EmitData, SendData, credit, peerVars
    <3> QED BY <3>1, <3>2, <3>4, <3>5, <1>1 DEF Account
  <2>4. CASE Spend(s)
    <3>1. due' = due /\ Returning' = Returning /\ InFlight' = InFlight
      BY <2>4, <1>4, <1>5, Zenon DEF Spend, peerVars
    <3>2. CASE ReserveTake(s)
      <4>1. got[s] = 0
        BY <2>4, Zenon DEF Spend, Reserve, Reserved
      <4>2. PICK n : ConnSendWindow' = ConnSendWindow - n /\ got' = [got EXCEPT ![s] = n]
        BY <3>2, Zenon DEF ReserveTake
      <4>3. got'[s] = n /\ n \in Nat /\ \A t \in Streams : t # s => got'[t] = got[t]
        BY <4>2, <1>1, Zenon
      <4>4. Held' = (Held - 0) + n
        BY <4>1, <4>3, <1>1, HeldChange, Zenon
      <4> QED BY <3>1, <4>2, <4>3, <4>4, <1>1 DEF Account
    <3>3. CASE ReserveDead(s) \/ ReserveWait(s)
      BY <3>1, <3>3, <1>3, Zenon DEF ReserveDead, ReserveWait, Account
    <3> QED BY <2>4, <3>2, <3>3, Zenon DEF Spend, Reserve
  <2>5. CASE SendBody(s) \/ DataFails(s) \/ CloseStream(s)
    BY <2>5, <1>3, <1>4, <1>5, Zenon DEF SendBody, DataFails, CloseStream, Write, SendDataFails,
         RemoveStream, Account, peerVars, credit
  <2> QED BY <1>9, <2>1, <2>2, <2>3, <2>4, <2>5, Zenon DEF Ours
<1>10. CASE HandleWindowUpdate
  <2> DEFINE f == Head(fromPeer)
  <2>1. /\ f \in Frames /\ f.type = "WINDOW_UPDATE" /\ Returning = down[f] + Returning'
        /\ InFlight' = InFlight /\ due' = due /\ f.n \in Nat
    BY <1>10, <1>4, <1>8, Zenon DEF HandleWindowUpdate, peerVars, Frames
  <2>2. CASE f.stream = NoStream
    <3>1. AddConn(f.n)
      BY <1>10, <2>2, SMTT(30) DEF HandleWindowUpdate
    <3>2. ConnSendWindow + f.n \in Int32s
      BY <2>1, <3>1, BoundAssumption DEF AddConn, PeerMayGrow, TypeOK, Int32s
    <3>3. ConnSendWindow' = ConnSendWindow + f.n
      <4>1. ConnSendWindow' = Int32(ConnSendWindow + f.n)
        BY <3>1, Zenon DEF AddConn
      <4>2. Int32(ConnSendWindow + f.n) = ConnSendWindow + f.n
        BY <3>2, Int32Exact, BoundAssumption DEF Int32s
      <4> HIDE DEF f
      <4> QED BY <4>1, <4>2, Zenon
    <3>4. Held' = Held
      BY <3>1, <1>3, Zenon DEF AddConn
    <3>5. down[f] = f.n
      BY <2>1, <2>2, <1>2, Zenon
    <3> HIDE DEF f
    <3> QED BY <2>1, <3>3, <3>4, <3>5, <1>1, SMTT(30) DEF Account
  <2>3. CASE f.stream # NoStream
    <3>1. ConnSendWindow' = ConnSendWindow /\ Held' = Held
      BY <1>10, <2>3, <1>3, Zenon DEF HandleWindowUpdate, AddStream, vars, credit
    <3>2. down[f] = 0
      BY <2>1, <2>3, <1>2, Zenon
    <3> HIDE DEF f
    <3> QED BY <2>1, <3>1, <3>2, <1>1 DEF Account
  <2> QED BY <2>2, <2>3, Zenon
<1>11. CASE HandleSettings
  <2>1. Returning' = Returning
    BY <1>11, <1>1, <1>2, <1>8 DEF HandleSettings
  <2> QED BY <1>11, <2>1, <1>3, <1>4, Zenon DEF HandleSettings, ActiveStreamWindows, Account,
            peerVars, credit
<1>12. CASE FinishSettings
  <2> DEFINE f == Frame("SETTINGS_ACK", NoStream, 0)
  <2>1. f \in Frames /\ f.type = "SETTINGS_ACK"
    BY Zenon DEF Frame, Frames
  <2> HIDE DEF f
  <2>2. InFlight' = InFlight
    BY <1>12, <2>1, <1>1, <1>2, <1>6 DEF f, FinishSettings
  <2> QED BY <1>12, <2>2, <1>3, <1>5, Zenon DEF FinishSettings, ApplyInitialWindowDelta, Account,
            peerVars
<1>13. CASE Teardown
  BY <1>13, <1>3, <1>4, <1>5, Zenon DEF Teardown, MarkDead, Account, peerVars
<1>14. ASSUME NEW s \in Streams, PeerOpens(s) PROVE Account' = Account
  <2> DEFINE f == Frame("HEADERS", s, 0)
  <2>1. f \in Frames /\ f.type = "HEADERS"
    BY Zenon DEF Frame, Frames
  <2> HIDE DEF f
  <2>2. Returning' = Returning
    BY <1>14, <2>1, <1>1, <1>2, <1>7 DEF f, PeerOpens
  <2> QED BY <1>14, <2>2, <1>3, <1>4, SMTT(30) DEF PeerOpens, Account, peerVars, vars, credit
<1>15. CASE PeerReceives
  <2> DEFINE f == Head(toPeer)
  <2>1. /\ f \in Frames /\ (f.type = "DATA" => f.stream \in Streams)
        /\ InFlight = up[f] + InFlight' /\ f.n \in Nat /\ up[f] \in Nat
    <3>1. /\ f \in Frames /\ (f.type = "DATA" => f.stream \in Streams)
          /\ InFlight = up[f] + InFlight'
      BY <1>15, <1>1, TakeType, InFlightTake, Zenon DEF PeerReceives, up
    <3>2. f.n \in Nat /\ up[f] \in Nat
      BY <3>1, <1>2 DEF Frames
    <3> QED BY <3>1, <3>2, Zenon
  <2>2. ConnSendWindow' = ConnSendWindow /\ Held' = Held /\ Returning' = Returning
    BY <1>15, <1>3, <1>5, Zenon DEF PeerReceives, vars, credit
  <2>3. \/ f.type = "DATA" /\ due' = due + f.n
        \/ f.type # "DATA" /\ due' = due
    BY <1>15, Zenon DEF PeerReceives, peerVars
  <2>4. due' = due + up[f]
    BY <2>1, <2>3, <1>1, <1>2
  <2> HIDE DEF f
  <2> QED BY <2>1, <2>2, <2>4, <1>1 DEF Account
<1>16. CASE PeerCreditsConn
  <2> DEFINE f == Frame("WINDOW_UPDATE", NoStream, due)
  <2>1. f \in Frames /\ f.type = "WINDOW_UPDATE" /\ f.stream = NoStream /\ f.n = due
    BY <1>1, Zenon DEF Frame, Frames
  <2> HIDE DEF f
  <2>2. Returning' = Returning + due /\ due' = 0
    BY <1>16, <2>1, <1>2, <1>7, Zenon DEF f, PeerCreditsConn
  <2>3. ConnSendWindow' = ConnSendWindow /\ Held' = Held /\ InFlight' = InFlight
    BY <1>16, <1>3, <1>4, Zenon DEF PeerCreditsConn, vars, credit
  <2> QED BY <2>2, <2>3, <1>1 DEF Account
<1>17. ASSUME NEW s \in Streams, PeerCreditsStream(s) PROVE Account' = Account
  <2> DEFINE f == Frame("WINDOW_UPDATE", s, dueStream[s])
  <2>1. f \in Frames /\ f.stream # NoStream
    BY <1>1, StreamAssumption, SMTT(30) DEF Frame, Frames
  <2> HIDE DEF f
  <2>2. Returning' = Returning
    BY <1>17, <2>1, <1>1, <1>2, <1>7 DEF f, PeerCreditsStream
  <2> QED BY <1>17, <2>2, <1>3, <1>4, Zenon DEF PeerCreditsStream, Account, vars, credit
<1>18. ASSUME NEW v \in Windows, PeerSendsSettings(v) PROVE Account' = Account
  <2> DEFINE f == Frame("SETTINGS", NoStream, v)
  <2>1. f \in Frames /\ f.type = "SETTINGS"
    BY WindowAssumption, BoundAssumption DEF Frame, Frames
  <2> HIDE DEF f
  <2>2. Returning' = Returning
    BY <1>18, <2>1, <1>1, <1>2, <1>7, SMTT(30) DEF f, PeerSendsSettings
  <2> QED BY <1>18, <2>2, <1>3, <1>4, Zenon DEF PeerSendsSettings, Account, vars, credit
<1>19. CASE UNCHANGED allVars
  BY <1>19, <1>3, <1>4, <1>5, Zenon DEF allVars, vars, credit, peerVars, Account
<1> QED
  BY <1>9, <1>10, <1>11, <1>12, <1>13, <1>14, <1>15, <1>16, <1>17, <1>18, <1>19, Zenon
     DEF FlowNext, OurReader, Peer, PeerCredits


(* The peer's window and the credit it owes always add up. *)
LEMMA PeerAccountStep ==
  ASSUME FlowTypeOK, PeerAccount, [FlowNext]_allVars
  PROVE  PeerAccount'
<1> USE DEF FlowTypeOK, PeerType, PeerAccount
<1>1. CASE UNCHANGED peerVars
  BY <1>1, Zenon DEF peerVars
<1>2. CASE PeerReceives
  <2> DEFINE f == Head(toPeer)
  <2>1. f.n \in Nat /\ (f.type = "DATA" => f.stream \in Streams)
    BY <1>2, TakeType, Zenon DEF PeerReceives, Frames
  <2>2. CASE /\ f.type = "DATA" /\ peerConn' = peerConn - f.n /\ due' = due + f.n
             /\ peerUsed' = [peerUsed EXCEPT ![f.stream] = @ - f.n]
             /\ dueStream' = [dueStream EXCEPT ![f.stream] = @ + f.n]
    <3>1. f.stream \in Streams
      BY <2>1, <2>2, Zenon
    <3> HIDE DEF f
    <3>2. peerConn' + due' = peerConn + due
      BY <2>1, <2>2
    <3>3. ASSUME NEW s \in Streams
          PROVE  peerUsed'[s] + dueStream'[s] = peerUsed[s] + dueStream[s]
      BY <2>1, <2>2, <3>1
    <3> QED BY <3>2, <3>3, Zenon
  <2>3. CASE UNCHANGED <<peerConn, peerUsed, due, dueStream>>
    BY <2>3, Zenon
  <2> QED BY <1>2, <2>2, <2>3, Zenon DEF PeerReceives, peerVars
<1>3. CASE PeerCreditsConn
  BY <1>3 DEF PeerCreditsConn
<1>4. ASSUME NEW s \in Streams, PeerCreditsStream(s) PROVE PeerAccount'
  BY <1>4 DEF PeerCreditsStream
<1>5. ASSUME NEW v \in Windows, PeerSendsSettings(v) PROVE PeerAccount'
  BY <1>5, Zenon DEF PeerSendsSettings
<1> QED
  BY <1>1, <1>2, <1>3, <1>4, <1>5, Zenon DEF FlowNext, Ours, AcceptStream, RequestStream, SendBody,
     Spend, EmitData, DataFails, CloseStream, OurReader, HandleWindowUpdate, HandleSettings,
     FinishSettings, Teardown, Peer, PeerOpens, PeerCredits, allVars

(* LoopInv holds at the start. *)
LEMMA LoopInit ==
  ASSUME FlowInit
  PROVE  LoopInv
<1>1. TypeOK
  BY TypeInit, Zenon DEF FlowInit
<1>2. /\ toPeer = <<>> /\ fromPeer = <<>> /\ due = 0 /\ got = [s \in Streams |-> 0]
      /\ ConnSendWindow = DefaultInitialWindow
  BY Zenon DEF FlowInit, Init
<1>3. FlowTypeOK /\ PeerAccount
  <2>1. overrun \in BOOLEAN
    BY Zenon DEF FlowInit
  <2>2. <<DefaultInitialWindow>> \in Seq(0..MaxInt32)
    BY WindowAssumption
  <2> QED BY <2>1, <2>2, WindowAssumption, BoundAssumption DEF FlowInit, FlowTypeOK,
        ToPeerType, FromPeerType, PeerType, PeerAccount
<1>4. Granted /\ Reserved
  BY WindowAssumption, BoundAssumption DEF FlowInit, Init, Granted, Reserved
<1>5. ConnCreditConserved
  <2>1. /\ Bytes(toPeer, "DATA", Streams) = <<>>
        /\ Bytes(fromPeer, "WINDOW_UPDATE", {NoStream}) = <<>>
    BY <1>2 DEF Bytes
  <2>2. /\ Total(Bytes(toPeer, "DATA", Streams)) = 0
        /\ Total(Bytes(fromPeer, "WINDOW_UPDATE", {NoStream})) = 0
    BY <2>1, TotalEmpty, Zenon
  <2>3. SumOver(got, Streams) = 0
    BY <1>2, StreamAssumption, SumOverZero, Zenon
  <2> QED BY <1>2, <2>2, <2>3, WindowAssumption, BoundAssumption DEF ConnCreditConserved
<1> QED BY <1>1, <1>3, <1>4, <1>5, Zenon DEF LoopInv

(* LoopInv is inductive, and a step of the loop is a step of SendCredit. *)
LEMMA LoopStep ==
  ASSUME LoopInv, [FlowNext]_allVars
  PROVE  LoopInv' /\ [Next]_vars
<1> USE DEF LoopInv
<1>1. [Next]_vars
  BY FlowStep, Zenon
<1>2. TypeOK'
  BY <1>1, TypeStep, Zenon
<1>3. FlowTypeOK'
  BY FlowTypeStep, Zenon
<1>4. Granted' /\ Reserved'
  BY <1>1, ReservedStep, Zenon
<1>5. PeerAccount'
  BY PeerAccountStep, Zenon
<1>6. ConnCreditConserved'
  <2>1. Account' = Account
    BY <1>2, <1>3, ConservedStep, Zenon
  <2> QED BY <2>1, Zenon DEF Account, Held, InFlight, Returning, ConnCreditConserved
<1> QED BY <1>1, <1>2, <1>3, <1>4, <1>5, <1>6, Zenon

(* The loop with the peer is a behaviour of SendCredit: a WINDOW_UPDATE or  *)
(* SETTINGS of a conforming peer is one of the inputs that SendCredit       *)
(* allows, so NoLostWakeup, ConnCreditExact and StreamCreditExact hold      *)
(* round the loop too.                                                      *)
THEOREM LoopIsSendCredit == FlowSpec => Spec
<1>1. FlowInit => LoopInv /\ Init
  BY LoopInit, Zenon DEF FlowInit
<1>2. LoopInv /\ [FlowNext]_allVars => LoopInv' /\ [Next]_vars
  BY LoopStep, Zenon
<1> QED BY <1>1, <1>2, PTL DEF FlowSpec, Spec

(* Connection-level credit is conserved round the loop, whatever streams    *)
(* are closed with frames in flight and whenever the connection dies:       *)
(* Reserve takes from ConnSendWindow exactly what SendData puts on the      *)
(* wire, and AddConn gives back exactly what the peer returns.              *)
THEOREM CreditConserved == FlowSpec => []ConnCreditConserved
<1>1. FlowInit => LoopInv
  BY LoopInit, Zenon
<1>2. LoopInv /\ [FlowNext]_allVars => LoopInv'
  BY LoopStep, Zenon
<1>3. LoopInv => ConnCreditConserved
  BY Zenon DEF LoopInv
<1> QED BY <1>1, <1>2, <1>3, PTL DEF FlowSpec

-----------------------------------------------------------------------------
(* The bridge never overruns a window of its peer: the stream windows, which *)
(* a SETTINGS changes while frames are on their way.                         *)


Sent(s) == Bytes(toPeer, "DATA", {s})
Returned(s) == Bytes(fromPeer, "WINDOW_UPDATE", {s})

Acks == Count(toPeer, "SETTINGS_ACK")

Pending == Count(fromPeer, "SETTINGS")

(* The number of SETTINGS applied here, and of those taken off the wire.    *)
Applied == acked + Total(Acks)
Taken == Applied + (IF reader = "settings" THEN 1 ELSE 0)

(* SETTINGS and their ACKs keep their order: the windows offered are those  *)
(* acknowledged, applied, being applied and in flight, in this order.       *)
PendingInOrder ==
  /\ Len(offered) = 1 + Taken + Total(Pending)
  /\ \A i \in 1..Len(fromPeer) :
        fromPeer[i].type = "SETTINGS" =>
            fromPeer[i].n = offered[1 + Taken + Partial(Pending)[i]]

SettingsInOrder ==
  /\ PendingInOrder
  /\ PeerInitWindow = offered[Applied + 1]
  /\ reader = "settings" => newSize = offered[Applied + 2]

(* Nothing has happened on a stream that is not open yet, and only streams  *)
(* that were registered are in the snapshot of ApplyPeerSettings.           *)
Unopened ==
  \A s \in Streams :
     /\ pc[s] = "new" => /\ SendWindow[s] = 0 /\ dueStream[s] = 0
                         /\ Total(Sent(s)) = 0 /\ Total(Returned(s)) = 0
     /\ s \in streams \cup windows => pc[s] # "new"

NoWrap ==
  reader = "settings" =>
     \A s \in windows : SendWindow[s] + (newSize - PeerInitWindow) <= MaxInt32

(* While the peer only raises its window, what a stream may send, has       *)
(* reserved and has in flight in either direction fits the initial window.  *)
WithinWindow ==
  Raised(Applied) =>
     \A s \in Streams :
        /\ SendWindow[s] >= 0
        /\ SendWindow[s] + got[s] + Total(Sent(s)) + dueStream[s] + Total(Returned(s))
             <= PeerInitWindow

(* The DATA frames up to the i-th in flight fit the window that the peer    *)
(* will have when it receives the i-th.                                     *)
Covered ==
  \A s \in Streams, i \in 0..Len(toPeer) :
     Raised(acked + Partial(Acks)[i]) =>
        Partial(Sent(s))[i] + dueStream[s] <= offered[1 + acked + Partial(Acks)[i]]

(* The whole inductive invariant. *)
FlowInv ==
  /\ LoopInv /\ ConnCreditExact
  /\ SettingsInOrder /\ Unopened /\ NoWrap /\ WithinWindow /\ Covered
  /\ PeerNeverOverrun

-----------------------------------------------------------------------------
(* The stream windows: what a step does to the totals of the two queues. *)

(* What one frame weighs. *)
LEMMA FrameWeights ==
  ASSUME NEW f \in Frames
  PROVE  /\ \A s \in Streams :
              /\ Weight("DATA", {s})[f]
                   = IF f.type = "DATA" /\ f.stream = s THEN f.n ELSE 0
              /\ Weight("WINDOW_UPDATE", {s})[f]
                   = IF f.type = "WINDOW_UPDATE" /\ f.stream = s THEN f.n ELSE 0
         /\ One("SETTINGS_ACK")[f] = IF f.type = "SETTINGS_ACK" THEN 1 ELSE 0
         /\ One("SETTINGS")[f] = IF f.type = "SETTINGS" THEN 1 ELSE 0
         /\ f.n \in Nat
BY Zenon DEF Weight, One, Frames

(* The totals of the frames on their way to the peer. *)
LEMMA ToPeerTotals ==
  ASSUME toPeer \in Seq(Frames)
  PROVE  /\ \A s \in Streams :
              /\ Total(Sent(s)) \in Nat
              /\ Partial(Sent(s))[Len(toPeer)] = Total(Sent(s))
              /\ \A i \in 0..Len(toPeer) : Partial(Sent(s))[i] \in Nat
         /\ Total(Acks) \in Nat
         /\ Partial(Acks)[0] = 0 /\ Partial(Acks)[Len(toPeer)] = Total(Acks)
         /\ \A i \in 0..Len(toPeer) : /\ Partial(Acks)[i] \in Nat
                                      /\ Partial(Acks)[i] <= Total(Acks)
BY BytesTotals, CountTotals, Zenon DEF Sent, Acks

(* The totals of the frames on their way from the peer. *)
LEMMA FromPeerTotals ==
  ASSUME fromPeer \in Seq(Frames)
  PROVE  /\ \A s \in Streams : Total(Returned(s)) \in Nat
         /\ Total(Pending) \in Nat
         /\ Partial(Pending)[0] = 0 /\ Partial(Pending)[Len(fromPeer)] = Total(Pending)
         /\ \A i \in 0..Len(fromPeer) : /\ Partial(Pending)[i] \in Nat
                                        /\ Partial(Pending)[i] <= Total(Pending)
BY BytesTotals, CountTotals, Zenon DEF Returned, Pending

(* How a frame sent to the peer changes the totals. *)
LEMMA EmitTotals ==
  ASSUME ToPeerType, NEW f \in Frames, Emit(f)
  PROVE  /\ Len(toPeer') = Len(toPeer) + 1
         /\ \A s \in Streams :
              /\ Total(Sent(s))' = Total(Sent(s)) + Weight("DATA", {s})[f]
              /\ \A i \in 0..Len(toPeer) : Partial(Sent(s)')[i] = Partial(Sent(s))[i]
         /\ Total(Acks)' = Total(Acks) + One("SETTINGS_ACK")[f]
         /\ \A i \in 0..Len(toPeer) : Partial(Acks')[i] = Partial(Acks)[i]
<1>1. toPeer \in Seq(Frames) /\ toPeer' = Append(toPeer, f)
  BY Zenon DEF ToPeerType, Emit
<1>2. Len(toPeer') = Len(toPeer) + 1
  BY <1>1
<1>3. ASSUME NEW s \in Streams
      PROVE  /\ Total(Sent(s))' = Total(Sent(s)) + Weight("DATA", {s})[f]
             /\ \A i \in 0..Len(toPeer) : Partial(Sent(s)')[i] = Partial(Sent(s))[i]
  BY <1>1, BytesAppend DEF Sent
<1>4. /\ Total(Acks)' = Total(Acks) + One("SETTINGS_ACK")[f]
      /\ \A i \in 0..Len(toPeer) : Partial(Acks')[i] = Partial(Acks)[i]
  BY <1>1, CountAppend, Zenon DEF Acks
<1> QED BY <1>2, <1>3, <1>4, Zenon

(* How a frame the peer takes changes the totals. *)
LEMMA TakeTotals ==
  ASSUME ToPeerType, toPeer # <<>>, toPeer' = Tail(toPeer)
  PROVE  /\ Len(toPeer') = Len(toPeer) - 1 /\ Len(toPeer) \in Nat \ {0}
         /\ \A s \in Streams :
              /\ Total(Sent(s)) = Weight("DATA", {s})[Head(toPeer)] + Total(Sent(s))'
              /\ \A i \in 0..(Len(toPeer) - 1) : Partial(Sent(s))[i + 1]
                   = Weight("DATA", {s})[Head(toPeer)] + Partial(Sent(s)')[i]
         /\ Total(Acks) = One("SETTINGS_ACK")[Head(toPeer)] + Total(Acks)'
         /\ \A i \in 0..(Len(toPeer) - 1) : Partial(Acks)[i + 1]
              = One("SETTINGS_ACK")[Head(toPeer)] + Partial(Acks')[i]
<1>1. toPeer \in Seq(Frames) /\ Head(toPeer) = toPeer[1]
  BY TakeType, Zenon DEF ToPeerType
<1>2. Len(toPeer') = Len(toPeer) - 1 /\ Len(toPeer) \in Nat \ {0}
  BY <1>1
<1>3. ASSUME NEW s \in Streams
      PROVE  /\ Total(Sent(s)) = Weight("DATA", {s})[Head(toPeer)] + Total(Sent(s))'
             /\ \A i \in 0..(Len(toPeer) - 1) : Partial(Sent(s))[i + 1]
                   = Weight("DATA", {s})[Head(toPeer)] + Partial(Sent(s)')[i]
  BY <1>1, BytesTail DEF Sent
<1>4. /\ Total(Acks) = One("SETTINGS_ACK")[Head(toPeer)] + Total(Acks)'
      /\ \A i \in 0..(Len(toPeer) - 1) : Partial(Acks)[i + 1]
              = One("SETTINGS_ACK")[Head(toPeer)] + Partial(Acks')[i]
  BY <1>1, CountTail, Zenon DEF Acks
<1> QED BY <1>2, <1>3, <1>4, Zenon

(* How a frame the peer sends changes the totals. *)
LEMMA GrantTotals ==
  ASSUME FromPeerType, NEW f \in Frames, PeerGrants(f)
  PROVE  /\ Len(fromPeer') = Len(fromPeer) + 1 /\ Len(fromPeer) \in Nat
         /\ \A i \in 1..Len(fromPeer) : fromPeer'[i] = fromPeer[i]
         /\ fromPeer'[Len(fromPeer) + 1] = f
         /\ \A s \in Streams :
              Total(Returned(s))' = Total(Returned(s)) + Weight("WINDOW_UPDATE", {s})[f]
         /\ Total(Pending)' = Total(Pending) + One("SETTINGS")[f]
         /\ Partial(Pending')[Len(fromPeer) + 1] = Total(Pending) + One("SETTINGS")[f]
         /\ \A i \in 0..Len(fromPeer) : Partial(Pending')[i] = Partial(Pending)[i]
<1>1. fromPeer \in Seq(Frames) /\ fromPeer' = Append(fromPeer, f)
  BY Zenon DEF FromPeerType, PeerGrants
<1>2. /\ Len(fromPeer') = Len(fromPeer) + 1 /\ Len(fromPeer) \in Nat
      /\ \A i \in 1..Len(fromPeer) : fromPeer'[i] = fromPeer[i]
      /\ fromPeer'[Len(fromPeer) + 1] = f
  BY <1>1
<1>3. ASSUME NEW s \in Streams
      PROVE  Total(Returned(s))' = Total(Returned(s)) + Weight("WINDOW_UPDATE", {s})[f]
  BY <1>1, BytesAppend DEF Returned
<1>4. /\ Total(Pending)' = Total(Pending) + One("SETTINGS")[f]
      /\ Partial(Pending')[Len(fromPeer) + 1] = Total(Pending) + One("SETTINGS")[f]
      /\ \A i \in 0..Len(fromPeer) : Partial(Pending')[i] = Partial(Pending)[i]
  BY <1>1, CountAppend, Zenon DEF Pending
<1> QED BY <1>2, <1>3, <1>4, Zenon

(* How a frame handled from the peer changes the totals. *)
LEMMA ArrivesTotals ==
  ASSUME FromPeerType, NEW type, Arrives(type)
  PROVE  /\ Len(fromPeer') = Len(fromPeer) - 1 /\ Len(fromPeer) \in Nat \ {0}
         /\ \A i \in 1..(Len(fromPeer) - 1) : fromPeer'[i] = fromPeer[i + 1]
         /\ \A s \in Streams : Total(Returned(s))
              = Weight("WINDOW_UPDATE", {s})[Head(fromPeer)] + Total(Returned(s))'
         /\ Total(Pending) = One("SETTINGS")[Head(fromPeer)] + Total(Pending)'
         /\ \A i \in 0..(Len(fromPeer) - 1) : Partial(Pending)[i + 1]
              = One("SETTINGS")[Head(fromPeer)] + Partial(Pending')[i]
<1>1. /\ fromPeer \in Seq(Frames) /\ Head(fromPeer) = fromPeer[1]
      /\ fromPeer # <<>> /\ fromPeer' = Tail(fromPeer)
  BY ArrivesType, Zenon DEF FromPeerType, Arrives
<1>2. /\ Len(fromPeer') = Len(fromPeer) - 1 /\ Len(fromPeer) \in Nat \ {0}
      /\ \A i \in 1..(Len(fromPeer) - 1) : fromPeer'[i] = fromPeer[i + 1]
  BY <1>1
<1>3. ASSUME NEW s \in Streams
      PROVE  Total(Returned(s))
              = Weight("WINDOW_UPDATE", {s})[Head(fromPeer)] + Total(Returned(s))'
  BY <1>1, BytesTail DEF Returned
<1>4. /\ Total(Pending) = One("SETTINGS")[Head(fromPeer)] + Total(Pending)'
      /\ \A i \in 0..(Len(fromPeer) - 1) : Partial(Pending)[i + 1]
              = One("SETTINGS")[Head(fromPeer)] + Partial(Pending')[i]
  BY <1>1, CountTail, Zenon DEF Pending
<1> QED BY <1>2, <1>3, <1>4, Zenon


-----------------------------------------------------------------------------
(* SETTINGS are applied and acknowledged in the order the peer sent them. *)

(* A step that moves no SETTINGS keeps them in order. *)
LEMMA PendingKept ==
  ASSUME PendingInOrder, Taken' = Taken, UNCHANGED <<offered, fromPeer>>
  PROVE  PendingInOrder'
<1>1. Pending' = Pending
  BY Zenon DEF Pending
<1> QED BY <1>1, Zenon DEF PendingInOrder

(* A frame taken from the peer keeps the SETTINGS behind it in order. *)
LEMMA PendingArrives ==
  ASSUME FlowTypeOK, PendingInOrder, Taken \in Nat, NEW type, Arrives(type),
         UNCHANGED offered,
         Taken' = Taken + One("SETTINGS")[Head(fromPeer)]
  PROVE  PendingInOrder'
<1> DEFINE w == One("SETTINGS")[Head(fromPeer)]
<1>1. FromPeerType
  BY Zenon DEF FlowTypeOK
<1>2. /\ Len(fromPeer') = Len(fromPeer) - 1 /\ Len(fromPeer) \in Nat \ {0}
      /\ \A i \in 1..(Len(fromPeer) - 1) : fromPeer'[i] = fromPeer[i + 1]
      /\ Total(Pending) = w + Total(Pending)'
      /\ \A i \in 0..(Len(fromPeer) - 1) : Partial(Pending)[i + 1] = w + Partial(Pending')[i]
  BY <1>1, ArrivesTotals, Zenon
<1>3. fromPeer' \in Seq(Frames) /\ w \in Nat
  BY <1>1, ArrivesType, FrameWeights DEF FromPeerType
<1> HIDE DEF w
<1>4. Total(Pending') \in Nat /\ \A i \in 0..Len(fromPeer') : Partial(Pending')[i] \in Nat
  BY <1>3, CountTotals, Zenon DEF Pending
<1>5. Len(offered) = 1 + Taken' + Total(Pending')
  <2>1. Len(offered) = 1 + Taken + Total(Pending)
    BY Zenon DEF PendingInOrder
  <2>2. Taken' = Taken + w /\ Total(Pending) = w + Total(Pending')
    BY <1>2, Zenon DEF w
  <2> QED BY <2>1, <2>2, <1>3, <1>4
<1>6. ASSUME NEW i \in 1..Len(fromPeer'), fromPeer'[i].type = "SETTINGS"
      PROVE  fromPeer'[i].n = offered[1 + Taken' + Partial(Pending')[i]]
  <2>1. /\ i \in Nat /\ i \in 0..(Len(fromPeer) - 1) /\ i \in 1..(Len(fromPeer) - 1)
        /\ i + 1 \in 1..Len(fromPeer)
    BY <1>2
  <2>2. fromPeer[i + 1].n = offered[1 + Taken + Partial(Pending)[i + 1]]
    BY <1>2, <1>6, <2>1, Zenon DEF PendingInOrder
  <2>3. Partial(Pending)[i + 1] = w + Partial(Pending')[i] /\ Partial(Pending')[i] \in Nat
    BY <1>2, <1>4, <2>1, Zenon
  <2>4. 1 + Taken + Partial(Pending)[i + 1] = 1 + Taken' + Partial(Pending')[i]
    <3>1. Taken' = Taken + w
      BY Zenon DEF w
    <3> QED BY <3>1, <2>3, <1>3
  <2> QED BY <2>1, <2>2, <2>4, <1>2, Zenon
<1> QED BY <1>5, <1>6, Zenon DEF PendingInOrder

(* A SETTINGS queued behind the others is offered after them. *)
LEMMA PendingGrant ==
  ASSUME FlowTypeOK, PendingInOrder, Taken \in Nat, NEW f \in Frames, PeerGrants(f),
         Taken' = Taken,
         f.type = "SETTINGS" => f.n \in 0..MaxInt32 /\ offered' = Append(offered, f.n),
         f.type # "SETTINGS" => offered' = offered
  PROVE  PendingInOrder'
<1> DEFINE w == One("SETTINGS")[f]
           L == Len(fromPeer)
<1>1. FromPeerType /\ offered \in Seq(0..MaxInt32)
  BY Zenon DEF FlowTypeOK, PeerType
<1>2. /\ Len(fromPeer') = L + 1 /\ L \in Nat
      /\ \A i \in 1..L : fromPeer'[i] = fromPeer[i]
      /\ fromPeer'[L + 1] = f
      /\ Total(Pending') = Total(Pending) + w
      /\ Partial(Pending')[L + 1] = Total(Pending) + w
      /\ \A i \in 0..L : Partial(Pending')[i] = Partial(Pending)[i]
  BY <1>1, GrantTotals, Zenon
<1>3. w = IF f.type = "SETTINGS" THEN 1 ELSE 0
  BY FrameWeights, Zenon
<1>4. /\ Total(Pending) \in Nat
      /\ \A i \in 0..L : Partial(Pending)[i] \in Nat /\ Partial(Pending)[i] <= Total(Pending)
  BY <1>1, FromPeerTotals, Zenon DEF FromPeerType
<1> HIDE DEF w
<1>5. /\ Len(offered') = Len(offered) + w
      /\ \A k \in 1..Len(offered) : offered'[k] = offered[k]
      /\ f.type = "SETTINGS" => offered'[Len(offered) + 1] = f.n
  BY <1>1, <1>3
<1>6. Len(offered') = 1 + Taken' + Total(Pending')
  <2>1. Len(offered) = 1 + Taken + Total(Pending) /\ w \in Nat
    BY <1>3, Zenon DEF PendingInOrder
  <2> QED BY <2>1, <1>2, <1>4, <1>5
<1>7. ASSUME NEW i \in 1..Len(fromPeer'), fromPeer'[i].type = "SETTINGS"
      PROVE  fromPeer'[i].n = offered'[1 + Taken' + Partial(Pending')[i]]
  <2>1. CASE i \in 1..L
    <3>1. /\ Partial(Pending')[i] = Partial(Pending)[i] /\ Partial(Pending)[i] \in Nat
          /\ Partial(Pending)[i] <= Total(Pending) /\ fromPeer'[i] = fromPeer[i]
      BY <2>1, <1>2, <1>4
    <3>2. 1 + Taken + Partial(Pending)[i] \in 1..Len(offered)
      BY <3>1, <1>4 DEF PendingInOrder
    <3>3. fromPeer[i].n = offered[1 + Taken + Partial(Pending)[i]]
      BY <1>7, <2>1, <3>1, Zenon DEF PendingInOrder
    <3> QED BY <3>1, <3>2, <3>3, <1>5, Zenon
  <2>2. CASE i = L + 1
    <3>1. f.type = "SETTINGS" /\ Partial(Pending')[i] = Total(Pending) + 1
      BY <1>2, <1>3, <1>7, <2>2, Zenon
    <3>2. 1 + Taken' + Partial(Pending')[i] = Len(offered) + 1
      BY <3>1, <1>4 DEF PendingInOrder
    <3> QED BY <3>1, <3>2, <2>2, <1>2, <1>5, Zenon
  <2> QED BY <2>1, <2>2, <1>2
<1> QED BY <1>6, <1>7, Zenon DEF PendingInOrder


(* SETTINGS are applied in the order in which the peer offered them, and    *)
(* each is acknowledged once it is applied.                                 *)
LEMMA SettingsStep ==
  ASSUME TypeOK, FlowTypeOK, SettingsInOrder, [FlowNext]_allVars
  PROVE  SettingsInOrder'
<1>1. /\ ToPeerType /\ FromPeerType /\ acked \in Nat /\ offered \in Seq(0..MaxInt32)
      /\ toPeer \in Seq(Frames) /\ fromPeer \in Seq(Frames) /\ PendingInOrder
      /\ got \in [Streams -> Nat] /\ due \in Nat /\ dueStream \in [Streams -> Nat]
  BY Zenon DEF FlowTypeOK, PeerType, ToPeerType, FromPeerType, SettingsInOrder, TypeOK
<1>2. Total(Acks) \in Nat /\ Total(Pending) \in Nat /\ Applied \in Nat /\ Taken \in Nat
  BY <1>1, ToPeerTotals, FromPeerTotals DEF Applied, Taken
<1>3. ASSUME UNCHANGED toPeer PROVE Total(Acks') = Total(Acks)
  BY <1>3, Zenon DEF Acks
<1>4. ASSUME NEW f \in Frames, Emit(f), f.type # "SETTINGS_ACK" PROVE Total(Acks') = Total(Acks)
  <2>1. Total(Acks') = Total(Acks) + 0
    BY <1>1, <1>4, EmitTotals, FrameWeights, Zenon
  <2> QED BY <2>1, <1>2
<1>5. ASSUME Total(Acks') = Total(Acks), UNCHANGED <<acked, reader>>
      PROVE  Applied' = Applied /\ Taken' = Taken
  BY <1>5, Zenon DEF Applied, Taken
<1>6. ASSUME Applied' = Applied, Taken' = Taken, PendingInOrder',
             \A k \in 1..(Applied + 2) : offered'[k] = offered[k],
             UNCHANGED <<PeerInitWindow, reader, newSize>>
      PROVE  SettingsInOrder'
  BY <1>6, <1>2 DEF SettingsInOrder
<1>7. ASSUME Total(Acks') = Total(Acks), PendingInOrder',
             UNCHANGED <<offered, acked, PeerInitWindow, reader, newSize>>
      PROVE  SettingsInOrder'
  BY <1>7, <1>5, <1>6, Zenon
<1>8. ASSUME Total(Acks') = Total(Acks), UNCHANGED fromPeer,
             UNCHANGED <<offered, acked, PeerInitWindow, reader, newSize>>
      PROVE  SettingsInOrder'
  <2>1. PendingInOrder'
    BY <1>8, <1>5, <1>1, PendingKept, Zenon
  <2> QED BY <1>8, <2>1, <1>7, Zenon
<1>9. ASSUME NEW type, Arrives(type), type # "SETTINGS", UNCHANGED toPeer,
             UNCHANGED <<offered, acked, PeerInitWindow, reader, newSize>>
      PROVE  SettingsInOrder'
  <2>1. Taken' = Taken /\ Total(Acks') = Total(Acks)
    BY <1>9, <1>3, <1>5, Zenon
  <2>2. One("SETTINGS")[Head(fromPeer)] = 0
    BY <1>1, <1>9, ArrivesType, FrameWeights
  <2>3. Taken' = Taken + One("SETTINGS")[Head(fromPeer)]
    BY <2>1, <2>2, <1>2
  <2>4. PendingInOrder'
    BY <2>3, <1>1, <1>2, <1>9, PendingArrives, Zenon
  <2> QED BY <1>9, <2>1, <2>4, <1>7, Zenon
<1>10. ASSUME NEW f \in Frames, PeerGrants(f), f.type # "SETTINGS", UNCHANGED toPeer,
              UNCHANGED <<offered, acked, PeerInitWindow, reader, newSize>>
       PROVE  SettingsInOrder'
  <2>1. Taken' = Taken /\ Total(Acks') = Total(Acks)
    BY <1>10, <1>3, <1>5, Zenon
  <2>2. PendingInOrder'
    BY <2>1, <1>1, <1>2, <1>10, PendingGrant, Zenon
  <2> QED BY <1>10, <2>1, <2>2, <1>7, Zenon
<1>11. ASSUME NEW s \in Streams, Ours(s) PROVE SettingsInOrder'
  <2>1. UNCHANGED <<offered, acked, PeerInitWindow, reader, newSize>>
    BY <1>11, Zenon DEF Ours, AcceptStream, RequestStream, SendBody, Spend, EmitData, DataFails,
         CloseStream, Dispatch, InitialStreamWindow, OpenStream, Write, Reserve, SendData,
         SendDataFails, RemoveStream, peerVars, credit, readerVars
  <2>2. CASE AcceptStream(s)
    BY <2>1, <2>2, <1>9, Zenon DEF AcceptStream
  <2>3. CASE RequestStream(s)
    <3>1. Frame("HEADERS", s, 0) \in Frames /\ Frame("HEADERS", s, 0).type # "SETTINGS_ACK"
      BY Zenon DEF Frame, Frames
    <3> QED BY <2>1, <2>3, <3>1, <1>3, <1>4, <1>8, Zenon DEF RequestStream
  <2>4. CASE EmitData(s)
    <3>1. /\ Frame("DATA", s, got[s]) \in Frames
          /\ Frame("DATA", s, got[s]).type # "SETTINGS_ACK"
      BY <1>1, Zenon DEF Frame, Frames
    <3> QED BY <2>1, <2>4, <3>1, <1>4, <1>8, Zenon DEF EmitData
  <2>5. CASE SendBody(s) \/ Spend(s) \/ DataFails(s) \/ CloseStream(s)
    BY <2>1, <2>5, <1>3, <1>8, Zenon DEF SendBody, Spend, DataFails, CloseStream
  <2> QED BY <1>11, <2>2, <2>3, <2>4, <2>5, Zenon DEF Ours
<1>12. CASE HandleWindowUpdate
  <2>1. UNCHANGED <<toPeer, offered, acked, PeerInitWindow, reader, newSize>>
    BY <1>12, Zenon DEF HandleWindowUpdate, AddConn, AddStream, peerVars, vars, credit, readerVars
  <2> QED BY <1>12, <2>1, <1>9, Zenon DEF HandleWindowUpdate
<1>13. CASE HandleSettings
  <2>1. /\ Arrives("SETTINGS") /\ reader = "read" /\ reader' = "settings"
        /\ newSize' = Head(fromPeer).n
        /\ UNCHANGED <<toPeer, offered, acked, PeerInitWindow>>
    BY <1>13, Zenon DEF HandleSettings, ActiveStreamWindows, peerVars, credit
  <2>2. One("SETTINGS")[Head(fromPeer)] = 1 /\ Head(fromPeer) = fromPeer[1]
    BY <1>1, <2>1, ArrivesType, FrameWeights, Zenon
  <2>3. Applied' = Applied /\ Taken = Applied /\ Taken' = Applied + 1
    BY <2>1, <1>2, <1>3 DEF Applied, Taken
  <2>4. Taken' = Taken + One("SETTINGS")[Head(fromPeer)]
    BY <2>2, <2>3, Zenon
  <2>5. PendingInOrder'
    BY <2>1, <2>4, <1>1, <1>2, PendingArrives, Zenon
  <2>6. newSize' = offered[Applied + 2]
    <3>1. /\ Len(fromPeer) \in Nat \ {0}
          /\ Partial(Pending)[1] = Partial(Pending)[0] + 1 /\ Partial(Pending)[0] = 0
      <4>1. Len(fromPeer) \in Nat \ {0}
        BY <2>1, <1>1, ArrivesTotals, Zenon
      <4>2. 1 \in 1..Len(fromPeer) /\ 1 - 1 = 0
        BY <4>1
      <4>3. /\ Partial(Pending)[0] = 0
            /\ Partial(Pending)[1] = Partial(Pending)[1 - 1] + One("SETTINGS")[fromPeer[1]]
        BY <4>2, <1>1, CountTotals, Zenon DEF Pending
      <4> QED BY <4>1, <4>2, <4>3, <2>2, Zenon
    <3>2. fromPeer[1].type = "SETTINGS" /\ 1 \in 1..Len(fromPeer)
      BY <2>1, <2>2, <3>1 DEF Arrives
    <3>3. fromPeer[1].n = offered[1 + Taken + Partial(Pending)[1]]
      BY <3>2, <1>1, Zenon DEF PendingInOrder
    <3>4. 1 + Taken + Partial(Pending)[1] = Applied + 2
      BY <3>1, <2>3, <1>2
    <3> QED BY <3>3, <3>4, <2>1, <2>2, Zenon
  <2> QED BY <2>1, <2>3, <2>5, <2>6, Zenon DEF SettingsInOrder
<1>14. CASE FinishSettings
  <2> DEFINE f == Frame("SETTINGS_ACK", NoStream, 0)
  <2>1. f \in Frames /\ f.type = "SETTINGS_ACK"
    BY Zenon DEF Frame, Frames
  <2>2. /\ Emit(f) /\ reader = "settings" /\ reader' = "read" /\ PeerInitWindow' = newSize
        /\ UNCHANGED <<fromPeer, offered, acked>>
    BY <1>14, Zenon DEF FinishSettings, ApplyInitialWindowDelta, peerVars
  <2> HIDE DEF f
  <2>3. Total(Acks') = Total(Acks) + 1
    BY <2>1, <2>2, <1>1, EmitTotals, FrameWeights, ZenonT(30)
  <2>4. Applied' = Applied + 1 /\ Taken' = Taken
    <3>1. Applied' = acked + Total(Acks')
      BY <2>2, Zenon DEF Applied
    <3>2. Applied' = Applied + 1
      BY <3>1, <2>3, <1>1, <1>2 DEF Applied
    <3> QED BY <3>2, <2>2, <1>2 DEF Taken
  <2>5. PendingInOrder'
    BY <2>2, <2>4, <1>1, PendingKept, Zenon
  <2>6. PeerInitWindow' = offered'[Applied' + 1]
    <3>1. Applied' + 1 = Applied + 2 /\ newSize = offered[Applied + 2]
      BY <2>2, <2>4, <1>2 DEF SettingsInOrder
    <3> QED BY <3>1, <2>2, Zenon
  <2> QED BY <2>2, <2>5, <2>6, Zenon DEF SettingsInOrder
<1>15. CASE Teardown
  <2>1. /\ reader = "read" /\ reader' = "gone"
        /\ UNCHANGED <<toPeer, fromPeer, offered, acked, PeerInitWindow>>
    BY <1>15, Zenon DEF Teardown, MarkDead, peerVars
  <2>2. Applied' = Applied /\ Taken' = Taken
    BY <2>1, <1>3, Zenon DEF Applied, Taken
  <2>3. PendingInOrder'
    BY <2>1, <2>2, <1>1, PendingKept, Zenon
  <2> QED BY <2>1, <2>2, <2>3, Zenon DEF SettingsInOrder
<1>16. ASSUME NEW s \in Streams, PeerOpens(s) PROVE SettingsInOrder'
  <2>1. Frame("HEADERS", s, 0) \in Frames /\ Frame("HEADERS", s, 0).type # "SETTINGS"
    BY Zenon DEF Frame, Frames
  <2> QED BY <1>16, <2>1, <1>10, Zenon DEF PeerOpens, peerVars, vars, credit, readerVars
<1>17. CASE PeerReceives
  <2> DEFINE f == Head(toPeer)
  <2>1. /\ toPeer # <<>> /\ toPeer' = Tail(toPeer)
        /\ UNCHANGED <<fromPeer, offered, PeerInitWindow, reader, newSize>>
        /\ \/ f.type = "SETTINGS_ACK" /\ acked' = acked + 1
           \/ f.type # "SETTINGS_ACK" /\ acked' = acked
    BY <1>17, Zenon DEF PeerReceives, peerVars, vars, credit, readerVars
  <2>2. f \in Frames
    BY <2>1, <1>1, TakeType, Zenon
  <2>3. /\ Total(Acks) = One("SETTINGS_ACK")[f] + Total(Acks')
        /\ One("SETTINGS_ACK")[f] = IF f.type = "SETTINGS_ACK" THEN 1 ELSE 0
    BY <2>1, <2>2, <1>1, TakeTotals, FrameWeights, Zenon
  <2>4. Total(Acks') \in Nat
    <3>1. toPeer' \in Seq(Frames)
      BY <2>1, <1>1, TakeType, Zenon DEF ToPeerType
    <3> QED BY <3>1, CountTotals, Zenon DEF Acks
  <2> HIDE DEF f
  <2>5. Applied' = Applied /\ Taken' = Taken
    <3>1. Applied' = acked' + Total(Acks')
      BY Zenon DEF Applied
    <3>2. Applied' = Applied
      BY <3>1, <2>1, <2>3, <2>4, <1>1, <1>2 DEF Applied
    <3> QED BY <3>2, <2>1, Zenon DEF Taken
  <2>6. PendingInOrder'
    BY <2>1, <2>5, <1>1, PendingKept, Zenon
  <2> QED BY <2>1, <2>5, <2>6, <1>6, Zenon
<1>18. CASE PeerCreditsConn
  <2>1. /\ Frame("WINDOW_UPDATE", NoStream, due) \in Frames
        /\ Frame("WINDOW_UPDATE", NoStream, due).type # "SETTINGS"
    BY <1>1, Zenon DEF Frame, Frames
  <2> QED BY <1>18, <2>1, <1>10, Zenon DEF PeerCreditsConn, vars, credit, readerVars
<1>19. ASSUME NEW s \in Streams, PeerCreditsStream(s) PROVE SettingsInOrder'
  <2>1. /\ Frame("WINDOW_UPDATE", s, dueStream[s]) \in Frames
        /\ Frame("WINDOW_UPDATE", s, dueStream[s]).type # "SETTINGS"
    BY <1>1, Zenon DEF Frame, Frames
  <2> QED BY <1>19, <2>1, <1>10, Zenon DEF PeerCreditsStream, vars, credit, readerVars
<1>20. ASSUME NEW v \in Windows, PeerSendsSettings(v) PROVE SettingsInOrder'
  <2> DEFINE f == Frame("SETTINGS", NoStream, v)
  <2>1. f \in Frames /\ f.type = "SETTINGS" /\ f.n = v /\ v \in 0..MaxInt32
    BY WindowAssumption, BoundAssumption DEF Frame, Frames
  <2>2. /\ PeerGrants(f) /\ offered' = Append(offered, v)
        /\ UNCHANGED <<toPeer, acked, PeerInitWindow, reader, newSize>>
    BY <1>20, Zenon DEF PeerSendsSettings, vars, credit, readerVars
  <2> HIDE DEF f
  <2>3. Total(Acks') = Total(Acks) /\ Applied' = Applied /\ Taken' = Taken
    BY <2>2, <1>3, <1>5, Zenon
  <2>4. PendingInOrder'
    BY <2>1, <2>2, <2>3, <1>1, <1>2, PendingGrant, Zenon
  <2>5. /\ Len(offered) = 1 + Taken + Total(Pending)
        /\ \A k \in 1..Len(offered) : offered'[k] = offered[k]
    BY <2>2, <1>1 DEF PendingInOrder
  <2>6. Applied + 1 \in 1..Len(offered)
    BY <2>5, <1>2 DEF Taken
  <2>7. reader = "settings" => Applied + 2 \in 1..Len(offered)
    BY <2>5, <1>2 DEF Taken
  <2> QED BY <2>2, <2>3, <2>4, <2>5, <2>6, <2>7, Zenon DEF SettingsInOrder
<1>21. CASE UNCHANGED allVars
  BY <1>21, <1>3, <1>8, Zenon DEF allVars, vars, credit, readerVars, peerVars
<1> QED
  BY <1>11, <1>12, <1>13, <1>14, <1>15, <1>16, <1>17, <1>18, <1>19, <1>20, <1>21, Zenon
     DEF FlowNext, OurReader, Peer, PeerCredits


-----------------------------------------------------------------------------
(* The stream windows. *)

(* A stream has no window before it is opened, and none but an open stream  *)
(* is in the maps that the handlers walk.                                   *)
LEMMA NewStep ==
  ASSUME TypeOK, Unopened, [Next]_vars, NEW s \in Streams
  PROVE  /\ s \in streams' \cup windows' => pc'[s] # "new"
         /\ pc'[s] = "new" => pc[s] = "new" /\ SendWindow'[s] = SendWindow[s]
<1> USE DEF TypeOK, Writing
<1> DEFINE Goal == /\ s \in streams' \cup windows' => pc'[s] # "new"
                   /\ pc'[s] = "new" => pc[s] = "new" /\ SendWindow'[s] = SendWindow[s]
<1>1. s \in streams \cup windows => pc[s] # "new"
  BY Zenon DEF Unopened
<1>2. ASSUME NEW t \in Streams,
             Dispatch(t) \/ InitialStreamWindow(t) \/ OpenStream(t) \/ Write(t)
                \/ RemoveStream(t)
      PROVE  Goal
  BY <1>1, <1>2, Zenon DEF Dispatch, InitialStreamWindow, OpenStream, Write, RemoveStream, credit,
                    readerVars
<1>3. ASSUME NEW t \in Streams, Reserve(t) PROVE Goal
  BY <1>1, <1>3, Zenon DEF Reserve, ReserveDead, ReserveTake, ReserveWait, readerVars
<1>4. ASSUME NEW t \in Streams, SendData(t) \/ SendDataFails(t) PROVE Goal
  BY <1>1, <1>4, Zenon DEF SendData, SendDataFails, credit, readerVars
<1>5. ASSUME NEW d \in Increments, AddConn(d) PROVE Goal
  BY <1>1, <1>5, Zenon DEF AddConn, Broadcast, readerVars
<1>6. ASSUME NEW t \in Streams, NEW d \in Increments, AddStream(t, d) PROVE Goal
  BY <1>1, <1>6, Zenon DEF AddStream, Broadcast, readerVars
<1>7. ASSUME NEW v \in Windows, ActiveStreamWindows(v) PROVE Goal
  BY <1>1, <1>7, Zenon DEF ActiveStreamWindows, credit
<1>8. ASSUME ApplyInitialWindowDelta PROVE Goal
  <2>1. pc'[s] = "new" <=> pc[s] = "new"
    BY <1>8, Zenon DEF ApplyInitialWindowDelta, Broadcast
  <2>2. streams' = streams /\ windows' = {}
    BY <1>8, Zenon DEF ApplyInitialWindowDelta
  <2>3. s \notin windows => SendWindow'[s] = SendWindow[s]
    BY <1>8, Zenon DEF ApplyInitialWindowDelta
  <2> QED BY <1>1, <2>1, <2>2, <2>3, Zenon
<1>9. ASSUME MarkDead PROVE Goal
  BY <1>1, <1>9, Zenon DEF MarkDead, Broadcast
<1>10. ASSUME UNCHANGED vars PROVE Goal
  BY <1>1, <1>10, Zenon DEF vars, credit, readerVars
<1> HIDE DEF Goal, TypeOK, Writing
<1>11. Goal
  BY <1>2, <1>3, <1>4, <1>5, <1>6, <1>7, <1>8, <1>9, <1>10, Zenon DEF Next, Writer, Reader
<1> QED BY <1>11, Zenon DEF Goal

(* A stream that is not open yet has sent, and is owed, nothing. *)
LEMMA UnopenedStep ==
  ASSUME TypeOK, FlowTypeOK, FlowTypeOK', Unopened, [Next]_vars, [FlowNext]_allVars
  PROVE  Unopened'
<1> DEFINE Idle(s) == dueStream[s] = 0 /\ Total(Sent(s)) = 0 /\ Total(Returned(s)) = 0
<1>1. SUFFICES ASSUME NEW s \in Streams, pc'[s] = "new" PROVE Idle(s)'
  <2>1. ASSUME NEW s \in Streams, pc'[s] = "new" PROVE SendWindow'[s] = 0
    BY <2>1, NewStep, Zenon DEF Unopened
  <2>2. ASSUME NEW s \in Streams PROVE s \in streams' \cup windows' => pc'[s] # "new"
    BY NewStep, Zenon
  <2>3. ASSUME NEW s \in Streams, pc'[s] = "new"
        PROVE  /\ dueStream'[s] = 0
               /\ Total(Sent(s)') = 0 /\ Total(Returned(s)') = 0
    BY <1>1, <2>3, Zenon
  <2> QED BY <2>1, <2>2, <2>3, Zenon DEF Unopened
<1>2. pc[s] = "new" /\ Idle(s) /\ s \notin streams
  BY <1>1, NewStep, Zenon DEF Unopened
<1>3. /\ ToPeerType /\ FromPeerType /\ toPeer' \in Seq(Frames) /\ fromPeer' \in Seq(Frames)
      /\ got \in [Streams -> Nat] /\ due \in Nat /\ dueStream \in [Streams -> Nat]
  BY Zenon DEF FlowTypeOK, PeerType, ToPeerType, FromPeerType, TypeOK
<1>4. Total(Sent(s)') \in Nat /\ Total(Returned(s)') \in Nat
  BY <1>3, BytesTotals, Zenon DEF Sent, Returned
<1>5. ASSUME UNCHANGED toPeer PROVE Total(Sent(s)') = 0
  BY <1>2, <1>5, Zenon DEF Sent
<1>6. ASSUME UNCHANGED fromPeer PROVE Total(Returned(s)') = 0
  BY <1>2, <1>6, Zenon DEF Returned
<1>7. ASSUME NEW f \in Frames, Emit(f), f.type # "DATA" \/ f.stream # s
      PROVE  Total(Sent(s)') = 0
  <2>1. /\ Total(Sent(s)') = Total(Sent(s)) + Weight("DATA", {s})[f]
        /\ Weight("DATA", {s})[f] = 0
    BY <1>3, <1>7, EmitTotals, FrameWeights, Zenon
  <2> QED BY <2>1, <1>2
<1>8. ASSUME NEW type, Arrives(type) PROVE Total(Returned(s)') = 0
  <2>1. /\ Total(Returned(s)) = Weight("WINDOW_UPDATE", {s})[Head(fromPeer)]
                                  + Total(Returned(s)')
        /\ Weight("WINDOW_UPDATE", {s})[Head(fromPeer)] \in Nat
    BY <1>3, <1>8, ArrivesTotals, ArrivesType, WeightTypes
  <2> QED BY <2>1, <1>2, <1>4
<1>9. ASSUME NEW f \in Frames, PeerGrants(f), f.type # "WINDOW_UPDATE" \/ f.stream # s
      PROVE  Total(Returned(s)') = 0
  <2>1. /\ Total(Returned(s)') = Total(Returned(s)) + Weight("WINDOW_UPDATE", {s})[f]
        /\ Weight("WINDOW_UPDATE", {s})[f] = 0
    BY <1>3, <1>9, GrantTotals, FrameWeights, Zenon
  <2> QED BY <2>1, <1>2
<1>10. ASSUME NEW t \in Streams, Ours(t) PROVE Idle(s)'
  <2>1. dueStream' = dueStream
    BY <1>10, Zenon DEF Ours, AcceptStream, RequestStream, SendBody, Spend, EmitData, DataFails,
         CloseStream, peerVars
  <2>2. CASE AcceptStream(t)
    BY <2>1, <2>2, <1>2, <1>5, <1>8, SMTT(30) DEF AcceptStream
  <2>3. CASE RequestStream(t)
    <3>1. Frame("HEADERS", t, 0) \in Frames /\ Frame("HEADERS", t, 0).type # "DATA"
      BY SMTT(30) DEF Frame, Frames
    <3> QED BY <2>1, <2>3, <3>1, <1>2, <1>5, <1>6, <1>7, Zenon DEF RequestStream
  <2>4. CASE EmitData(t)
    <3>1. pc[t] = "send" /\ t # s
      BY <2>4, <1>2, Zenon DEF EmitData, SendData
    <3>2. /\ Frame("DATA", t, got[t]) \in Frames
          /\ Frame("DATA", t, got[t]).stream # s
      BY <1>3, <3>1, Zenon DEF Frame, Frames
    <3> QED BY <2>1, <2>4, <3>2, <1>2, <1>6, <1>7, Zenon DEF EmitData
  <2>5. CASE SendBody(t) \/ Spend(t) \/ DataFails(t) \/ CloseStream(t)
    BY <2>1, <2>5, <1>2, <1>5, <1>6, Zenon DEF SendBody, Spend, DataFails, CloseStream
  <2> QED BY <1>10, <2>2, <2>3, <2>4, <2>5, Zenon DEF Ours
<1>11. CASE HandleWindowUpdate \/ HandleSettings
  BY <1>2, <1>5, <1>8, <1>11, Zenon DEF HandleWindowUpdate, HandleSettings, peerVars
<1>12. CASE FinishSettings
  <2>1. /\ Frame("SETTINGS_ACK", NoStream, 0) \in Frames
        /\ Frame("SETTINGS_ACK", NoStream, 0).type # "DATA"
    BY Zenon DEF Frame, Frames
  <2> QED BY <2>1, <1>2, <1>6, <1>7, <1>12, Zenon DEF FinishSettings, peerVars
<1>13. CASE Teardown
  BY <1>2, <1>5, <1>6, <1>13, Zenon DEF Teardown, peerVars
<1>14. ASSUME NEW t \in Streams, PeerOpens(t) PROVE Idle(s)'
  <2>1. Frame("HEADERS", t, 0) \in Frames /\ Frame("HEADERS", t, 0).type # "WINDOW_UPDATE"
    BY Zenon DEF Frame, Frames
  <2> QED BY <2>1, <1>2, <1>5, <1>9, <1>14, Zenon DEF PeerOpens, peerVars
<1>15. CASE PeerReceives
  <2> DEFINE f == Head(toPeer)
  <2>1. /\ toPeer # <<>> /\ toPeer' = Tail(toPeer) /\ UNCHANGED fromPeer
        /\ \/ f.type = "DATA" /\ dueStream' = [dueStream EXCEPT ![f.stream] = @ + f.n]
           \/ dueStream' = dueStream
    BY <1>15, Zenon DEF PeerReceives, peerVars, vars, credit
  <2>2. f \in Frames
    BY <2>1, <1>3, TakeType, Zenon
  <2>3. /\ Total(Sent(s)) = Weight("DATA", {s})[f] + Total(Sent(s)')
        /\ Weight("DATA", {s})[f] = IF f.type = "DATA" /\ f.stream = s THEN f.n ELSE 0
        /\ f.n \in Nat
    BY <2>1, <2>2, <1>3, TakeTotals, FrameWeights, Zenon
  <2> HIDE DEF f
  <2>4. Total(Sent(s)') = 0 /\ (f.type = "DATA" /\ f.stream = s => f.n = 0)
    BY <2>3, <1>2, <1>4
  <2>5. dueStream'[s] = 0
    BY <2>1, <2>3, <2>4, <1>2, <1>3
  <2> QED BY <2>1, <2>4, <2>5, <1>6, SMTT(30)
<1>16. CASE PeerCreditsConn
  <2>1. /\ Frame("WINDOW_UPDATE", NoStream, due) \in Frames
        /\ Frame("WINDOW_UPDATE", NoStream, due).stream # s
    BY <1>3, StreamAssumption, Zenon DEF Frame, Frames
  <2> QED BY <2>1, <1>2, <1>5, <1>9, <1>16, Zenon DEF PeerCreditsConn
<1>17. ASSUME NEW t \in Streams, PeerCreditsStream(t) PROVE Idle(s)'
  <2>1. t # s
    BY <1>2, <1>17 DEF PeerCreditsStream
  <2>2. /\ Frame("WINDOW_UPDATE", t, dueStream[t]) \in Frames
        /\ Frame("WINDOW_UPDATE", t, dueStream[t]).stream # s
    BY <1>3, <2>1, Zenon DEF Frame, Frames
  <2>3. dueStream'[s] = 0
    BY <1>2, <1>3, <1>17, <2>1, Zenon DEF PeerCreditsStream
  <2> QED BY <2>2, <2>3, <1>5, <1>9, <1>17, Zenon DEF PeerCreditsStream
<1>18. ASSUME NEW v \in Windows, PeerSendsSettings(v) PROVE Idle(s)'
  <2>1. /\ Frame("SETTINGS", NoStream, v) \in Frames
        /\ Frame("SETTINGS", NoStream, v).type # "WINDOW_UPDATE"
    BY WindowAssumption, BoundAssumption DEF Frame, Frames
  <2> QED BY <2>1, <1>2, <1>5, <1>9, <1>18, Zenon DEF PeerSendsSettings
<1>19. CASE UNCHANGED allVars
  BY <1>2, <1>5, <1>6, <1>19, SMTT(30) DEF allVars, peerVars
<1> HIDE DEF Idle
<1> QED
  BY <1>10, <1>11, <1>12, <1>13, <1>14, <1>15, <1>16, <1>17, <1>18, <1>19, Zenon
     DEF FlowNext, OurReader, Peer, PeerCredits

(* No stream's send window wraps around an int32. *)
LEMMA NoWrapStep ==
  ASSUME TypeOK, Unopened, NoWrap, [Next]_vars
  PROVE  NoWrap'
<1> USE BoundAssumption, WindowAssumption DEF TypeOK, NoWrap, Int32s
<1>1. ASSUME NEW s \in Streams, Dispatch(s) PROVE NoWrap'
  BY <1>1, Zenon DEF Dispatch, readerVars
<1>2. ASSUME NEW s \in Streams, InitialStreamWindow(s) PROVE NoWrap'
  BY <1>2, Zenon DEF InitialStreamWindow, readerVars, Unopened
<1>3. ASSUME NEW s \in Streams, Reserve(s) PROVE NoWrap'
  <2>1. CASE ReserveTake(s)
    <3>1. PICK n \in Nat : SendWindow' = [SendWindow EXCEPT ![s] = @ - n]
      <4>1. Least(Want(s), Avail(s)) \in Nat
        BY <2>1 DEF ReserveTake, Least, Want, Avail
      <4> QED BY <2>1, <4>1, Zenon DEF ReserveTake
    <3> QED BY <1>3, <3>1 DEF Reserve, readerVars
  <2>2. CASE ReserveDead(s) \/ ReserveWait(s)
    BY <1>3, <2>2, Zenon DEF Reserve, ReserveDead, ReserveWait, readerVars
  <2> QED BY <1>3, <2>1, <2>2, Zenon DEF Reserve
<1>4. ASSUME NEW s \in Streams,
             OpenStream(s) \/ Write(s) \/ SendData(s) \/ SendDataFails(s) \/ RemoveStream(s)
      PROVE  NoWrap'
  BY <1>4, Zenon DEF OpenStream, Write, SendData, SendDataFails, RemoveStream, credit, readerVars
<1>5. ASSUME NEW v \in Windows, ActiveStreamWindows(v) PROVE NoWrap'
  BY <1>5, Zenon DEF ActiveStreamWindows, PeerMayGrow, credit
<1>6. CASE reader' # "settings"
  BY <1>6, Zenon
<1>7. CASE UNCHANGED vars
  BY <1>7, Zenon DEF vars, credit, readerVars
<1> QED
  BY <1>1, <1>2, <1>3, <1>4, <1>5, <1>6, <1>7, Zenon DEF Next, Writer, Reader, AddConn, AddStream,
     ApplyInitialWindowDelta, MarkDead, readerVars


(* Only ApplyInitialWindowDelta advances the number of SETTINGS applied. *)
LEMMA AppliedStep ==
  ASSUME TypeOK, FlowTypeOK, [FlowNext]_allVars
  PROVE  /\ Applied \in Nat
         /\ FinishSettings => Applied' = Applied + 1
         /\ ~FinishSettings => Applied' = Applied
<1>1. /\ ToPeerType /\ toPeer \in Seq(Frames) /\ acked \in Nat /\ got \in [Streams -> Nat]
  BY Zenon DEF FlowTypeOK, PeerType, ToPeerType, TypeOK
<1>2. Total(Acks) \in Nat /\ Applied \in Nat
  BY <1>1, ToPeerTotals DEF Applied
<1>3. ASSUME NEW f \in Frames, Emit(f), UNCHANGED acked
      PROVE  Applied' = Applied + (IF f.type = "SETTINGS_ACK" THEN 1 ELSE 0)
  <2>1. /\ Total(Acks') = Total(Acks) + One("SETTINGS_ACK")[f]
        /\ One("SETTINGS_ACK")[f] = IF f.type = "SETTINGS_ACK" THEN 1 ELSE 0
    BY <1>1, <1>3, EmitTotals, FrameWeights, Zenon
  <2>2. Applied' = acked + Total(Acks')
    BY <1>3, Zenon DEF Applied
  <2> QED BY <2>1, <2>2, <1>1, <1>2 DEF Applied
<1>4. ASSUME UNCHANGED <<toPeer, acked>> PROVE Applied' = Applied
  BY <1>4, Zenon DEF Applied, Acks
<1>5. ASSUME FinishSettings PROVE Applied' = Applied + 1
  <2>1. /\ Frame("SETTINGS_ACK", NoStream, 0) \in Frames
        /\ Frame("SETTINGS_ACK", NoStream, 0).type = "SETTINGS_ACK"
    BY Zenon DEF Frame, Frames
  <2> QED BY <1>3, <1>5, <2>1, Zenon DEF FinishSettings, peerVars
<1>6. ASSUME NEW s \in Streams, Ours(s) PROVE Applied' = Applied
  <2>1. /\ Frame("HEADERS", s, 0) \in Frames
        /\ Frame("HEADERS", s, 0).type # "SETTINGS_ACK"
        /\ Frame("DATA", s, got[s]) \in Frames
        /\ Frame("DATA", s, got[s]).type # "SETTINGS_ACK"
    BY <1>1, Zenon DEF Frame, Frames
  <2>2. ASSUME NEW f \in Frames, Emit(f), f.type # "SETTINGS_ACK", UNCHANGED acked
        PROVE  Applied' = Applied
    BY <2>2, <1>2, <1>3
  <2> QED BY <1>4, <1>6, <2>1, <2>2, Zenon DEF Ours, AcceptStream, RequestStream, SendBody, Spend,
            EmitData, DataFails, CloseStream, peerVars
<1>7. ASSUME PeerReceives PROVE Applied' = Applied
  <2> DEFINE f == Head(toPeer)
  <2>1. /\ toPeer # <<>> /\ toPeer' = Tail(toPeer)
        /\ \/ f.type = "SETTINGS_ACK" /\ acked' = acked + 1
           \/ f.type # "SETTINGS_ACK" /\ acked' = acked
    BY <1>7, Zenon DEF PeerReceives, peerVars
  <2>2. f \in Frames /\ toPeer' \in Seq(Frames)
    BY <2>1, <1>1, TakeType, SMTT(30) DEF ToPeerType
  <2>3. /\ Total(Acks) = One("SETTINGS_ACK")[f] + Total(Acks')
        /\ One("SETTINGS_ACK")[f] = IF f.type = "SETTINGS_ACK" THEN 1 ELSE 0
    BY <2>1, <2>2, <1>1, TakeTotals, FrameWeights, Zenon
  <2>4. Total(Acks') \in Nat
    BY <2>2, CountTotals, Zenon DEF Acks
  <2> HIDE DEF f
  <2>5. Applied' = acked' + Total(Acks')
    BY Zenon DEF Applied
  <2> QED BY <2>1, <2>3, <2>4, <2>5, <1>1, <1>2 DEF Applied
<1> QED
  BY <1>2, <1>4, <1>5, <1>6, <1>7, Zenon DEF FlowNext, OurReader, HandleWindowUpdate, HandleSettings,
     Teardown, Peer, PeerOpens, PeerCredits, PeerCreditsConn, PeerCreditsStream,
     PeerSendsSettings, allVars, peerVars

(* What the peer has offered stays, and so does whether it only raised it. *)
LEMMA OfferedStep ==
  ASSUME FlowTypeOK, [FlowNext]_allVars
  PROVE  /\ Len(offered) \in Nat
         /\ \A k \in 1..Len(offered) : offered[k] \in Nat /\ offered'[k] = offered[k]
         /\ \A k \in Nat : k + 1 <= Len(offered) => (Raised(k)' <=> Raised(k))
<1>1. offered \in Seq(0..MaxInt32)
  BY Zenon DEF FlowTypeOK, PeerType
<1>2. ASSUME NEW v \in Windows, PeerSendsSettings(v) PROVE offered' = Append(offered, v)
  BY <1>2, Zenon DEF PeerSendsSettings
<1>3. offered' = offered \/ \E v \in Windows : offered' = Append(offered, v)
  BY <1>2, Zenon DEF FlowNext, Ours, AcceptStream, RequestStream, SendBody,
     Spend, EmitData, DataFails, CloseStream, OurReader, HandleWindowUpdate, HandleSettings,
     FinishSettings, Teardown, Peer, PeerOpens, PeerReceives, PeerCredits, PeerCreditsConn,
     PeerCreditsStream, allVars, peerVars
<1>4. /\ Len(offered) \in Nat
      /\ \A k \in 1..Len(offered) : offered[k] \in Nat /\ offered'[k] = offered[k]
  BY <1>1, <1>3, BoundAssumption
<1>5. ASSUME NEW k \in Nat, k + 1 <= Len(offered) PROVE Raised(k)' <=> Raised(k)
  <2>1. \A i \in 1..k : i \in 1..Len(offered) /\ i + 1 \in 1..Len(offered)
    BY <1>4, <1>5
  <2>2. \A i \in 1..k : offered'[i] = offered[i] /\ offered'[i + 1] = offered[i + 1]
    BY <1>4, <2>1, Zenon
  <2> QED BY <2>2, Zenon DEF Raised
<1> QED BY <1>4, <1>5, Zenon


Use(s) == SendWindow[s] + got[s] + Total(Sent(s)) + dueStream[s] + Total(Returned(s))

(* What a stream has left, has sent and is owed stays within the initial    *)
(* window in force, through every change of SETTINGS.                       *)
LEMMA WithinStep ==
  ASSUME TypeOK, TypeOK', FlowTypeOK, FlowTypeOK', Reserved, SettingsInOrder,
         Unopened, NoWrap, WithinWindow, [FlowNext]_allVars
  PROVE  WithinWindow'
<1> DEFINE Fits(s) == SendWindow[s] >= 0 /\ Use(s) <= PeerInitWindow
<1>1. /\ Applied \in Nat /\ Applied + 1 <= Len(offered)
      /\ reader = "settings" => Applied + 2 <= Len(offered)
  <2>1. Applied \in Nat /\ Total(Pending) \in Nat
    BY AppliedStep, FromPeerTotals, Zenon DEF FlowTypeOK, FromPeerType
  <2>2. Len(offered) = 1 + Taken + Total(Pending)
    BY Zenon DEF SettingsInOrder, PendingInOrder
  <2>3. Taken \in Nat /\ Applied <= Taken /\ (reader = "settings" => Taken = Applied + 1)
    BY <2>1 DEF Taken
  <2> QED BY <2>1, <2>2, <2>3
<1>2. SUFFICES ASSUME Raised(Applied)', NEW s \in Streams PROVE Fits(s)'
  BY <1>2, Zenon DEF WithinWindow, Use
<1>3. Raised(Applied) /\ (FinishSettings => offered[Applied + 1] <= offered[Applied + 2])
  <2>1. CASE ~FinishSettings
    <3>1. Applied' = Applied
      BY <2>1, AppliedStep, Zenon
    <3>2. Raised(Applied)' <=> \A i \in 1..Applied : offered'[i] <= offered'[i + 1]
      BY <3>1, Zenon DEF Raised
    <3>3. \A i \in 1..Applied : offered[i] = offered'[i] /\ offered[i + 1] = offered'[i + 1]
      BY <1>1, OfferedStep
    <3> QED BY <2>1, <3>2, <3>3, <1>2, Zenon DEF Raised
  <2>2. CASE FinishSettings
    <3>1. Applied' = Applied + 1 /\ offered' = offered
      BY <2>2, AppliedStep, Zenon DEF FinishSettings, peerVars
    <3>2. \A i \in 1..(Applied + 1) : offered[i] <= offered[i + 1]
      BY <3>1, <1>2, Zenon DEF Raised
    <3>3. 1..Applied \subseteq 1..(Applied + 1) /\ Applied + 1 \in 1..(Applied + 1)
          /\ Applied + 1 + 1 = Applied + 2
      BY <1>1
    <3> QED BY <3>2, <3>3, Zenon DEF Raised
  <2> QED BY <2>1, <2>2, Zenon
<1>4. Fits(s)
  BY <1>3, Zenon DEF WithinWindow, Use
<1>5. /\ ToPeerType /\ FromPeerType
      /\ toPeer \in Seq(Frames) /\ toPeer' \in Seq(Frames)
      /\ fromPeer \in Seq(Frames) /\ fromPeer' \in Seq(Frames)
      /\ got \in [Streams -> Nat] /\ got' \in [Streams -> Nat] /\ due \in Nat
      /\ dueStream \in [Streams -> Nat] /\ dueStream' \in [Streams -> Nat]
      /\ SendWindow \in [Streams -> Int] /\ SendWindow' \in [Streams -> Int]
      /\ PeerInitWindow \in Nat /\ PeerInitWindow' \in Nat
  <2>1. /\ ToPeerType /\ FromPeerType
        /\ toPeer \in Seq(Frames) /\ toPeer' \in Seq(Frames)
        /\ fromPeer \in Seq(Frames) /\ fromPeer' \in Seq(Frames)
        /\ due \in Nat /\ dueStream \in [Streams -> Nat] /\ dueStream' \in [Streams -> Nat]
    BY Zenon DEF FlowTypeOK, PeerType, ToPeerType, FromPeerType
  <2>2. /\ got \in [Streams -> Nat] /\ got' \in [Streams -> Nat]
        /\ PeerInitWindow \in Nat /\ PeerInitWindow' \in Nat
    BY BoundAssumption DEF TypeOK
  <2>3. SendWindow \in [Streams -> Int] /\ SendWindow' \in [Streams -> Int]
    BY BoundAssumption DEF TypeOK, Int32s
  <2> QED BY <2>1, <2>2, <2>3, Zenon
<1>6. /\ Total(Sent(s)) \in Nat /\ Total(Sent(s)') \in Nat
      /\ Total(Returned(s)) \in Nat /\ Total(Returned(s)') \in Nat
      /\ got[s] \in Nat /\ got'[s] \in Nat /\ dueStream[s] \in Nat /\ dueStream'[s] \in Nat
      /\ SendWindow[s] \in Int /\ SendWindow'[s] \in Int
  BY <1>5, BytesTotals, Zenon DEF Sent, Returned
<1> DEFINE sw == SendWindow[s]
           sw1 == SendWindow'[s]
           gt == got[s]
           gt1 == got'[s]
           sn == Total(Sent(s))
           sn1 == Total(Sent(s)')
           du == dueStream[s]
           du1 == dueStream'[s]
           rt == Total(Returned(s))
           rt1 == Total(Returned(s)')
           piw == PeerInitWindow
           use == Use(s)
           use1 == Use(s)'
<1>6a. /\ sw \in Int /\ sw1 \in Int /\ gt \in Nat /\ gt1 \in Nat /\ sn \in Nat /\ sn1 \in Nat
       /\ du \in Nat /\ du1 \in Nat /\ rt \in Nat /\ rt1 \in Nat /\ piw \in Nat
       /\ use = sw + gt + sn + du + rt /\ use1 = sw1 + gt1 + sn1 + du1 + rt1
       /\ sw >= 0 /\ use <= piw
  BY <1>4, <1>5, <1>6, Zenon DEF Use
<1> HIDE DEF sw, sw1, gt, gt1, sn, sn1, du, du1, rt, rt1, piw, use, use1
<1>7. ASSUME UNCHANGED toPeer PROVE Total(Sent(s)') = Total(Sent(s))
  BY <1>7, Zenon DEF Sent
<1>8. ASSUME UNCHANGED fromPeer PROVE Total(Returned(s)') = Total(Returned(s))
  BY <1>8, Zenon DEF Returned
<1>9. ASSUME NEW f \in Frames, Emit(f)
      PROVE  Total(Sent(s)') = Total(Sent(s))
                + (IF f.type = "DATA" /\ f.stream = s THEN f.n ELSE 0)
  <2>1. Total(Sent(s)') = Total(Sent(s)) + Weight("DATA", {s})[f]
    BY <1>5, <1>9, EmitTotals, Zenon
  <2>2. Weight("DATA", {s})[f] = IF f.type = "DATA" /\ f.stream = s THEN f.n ELSE 0
    BY FrameWeights, Zenon
  <2> QED BY <2>1, <2>2, Zenon
<1>9a. ASSUME NEW f \in Frames, Emit(f), f.type # "DATA"
       PROVE  Total(Sent(s)') = Total(Sent(s))
  <2>1. sn1 = sn + 0
    BY <1>9a, <1>9, Zenon DEF sn, sn1
  <2>2. sn1 = sn
    BY <2>1, <1>6a
  <2> QED BY <2>2, Zenon DEF sn, sn1
<1>10. ASSUME NEW type, Arrives(type)
       PROVE  /\ Total(Returned(s)) = Total(Returned(s)')
                   + (IF type = "WINDOW_UPDATE" /\ Head(fromPeer).stream = s
                      THEN Head(fromPeer).n ELSE 0)
              /\ Head(fromPeer).n \in Nat
  <2>1. Head(fromPeer) \in Frames /\ Head(fromPeer).type = type
    BY <1>5, <1>10, ArrivesType, Zenon
  <2>2. Total(Returned(s))
          = Weight("WINDOW_UPDATE", {s})[Head(fromPeer)] + Total(Returned(s)')
    BY <1>5, <1>10, ArrivesTotals, Zenon
  <2>3. /\ Weight("WINDOW_UPDATE", {s})[Head(fromPeer)]
             = IF type = "WINDOW_UPDATE" /\ Head(fromPeer).stream = s
               THEN Head(fromPeer).n ELSE 0
        /\ Head(fromPeer).n \in Nat
    BY <2>1, FrameWeights, Zenon
  <2> DEFINE d == Weight("WINDOW_UPDATE", {s})[Head(fromPeer)]
  <2>4. rt = d + rt1 /\ d \in Nat
    <3>1. 0 \in Nat
      OBVIOUS
    <3> QED BY <2>2, <2>3, <3>1, Zenon DEF rt, rt1
  <2>5. d = IF type = "WINDOW_UPDATE" /\ Head(fromPeer).stream = s
            THEN Head(fromPeer).n ELSE 0
    BY <2>3, Zenon
  <2> HIDE DEF d
  <2>6. rt = rt1 + d
    BY <2>4, <1>6a
  <2> QED BY <2>3, <2>5, <2>6, Zenon DEF rt, rt1
<1>10a. ASSUME NEW type, Arrives(type), type # "WINDOW_UPDATE"
        PROVE  Total(Returned(s)') = Total(Returned(s))
  <2>1. rt = rt1 + 0
    BY <1>10a, <1>10, Zenon DEF rt, rt1
  <2>2. rt1 = rt
    BY <2>1, <1>6a
  <2> QED BY <2>2, Zenon DEF rt, rt1
<1>11. ASSUME NEW f \in Frames, PeerGrants(f)
       PROVE  Total(Returned(s)') = Total(Returned(s))
                + (IF f.type = "WINDOW_UPDATE" /\ f.stream = s THEN f.n ELSE 0)
  <2>1. Total(Returned(s)') = Total(Returned(s)) + Weight("WINDOW_UPDATE", {s})[f]
    BY <1>5, <1>11, GrantTotals, Zenon
  <2>2. Weight("WINDOW_UPDATE", {s})[f]
          = IF f.type = "WINDOW_UPDATE" /\ f.stream = s THEN f.n ELSE 0
    BY FrameWeights, Zenon
  <2> QED BY <2>1, <2>2, Zenon
<1>11a. ASSUME NEW f \in Frames, PeerGrants(f), f.type # "WINDOW_UPDATE" \/ f.stream # s
        PROVE  Total(Returned(s)') = Total(Returned(s))
  <2>1. rt1 = rt + 0
    BY <1>11a, <1>11, Zenon DEF rt, rt1
  <2>2. rt1 = rt
    BY <2>1, <1>6a
  <2> QED BY <2>2, Zenon DEF rt, rt1
<1>12. ASSUME sw1 + gt1 + sn1 + du1 + rt1 <= sw + gt + sn + du + rt, sw1 >= 0,
              UNCHANGED PeerInitWindow
       PROVE  Fits(s)'
  <2>1. use1 <= piw
    BY <1>12, <1>6a
  <2> QED BY <1>12, <2>1, Zenon DEF use1, piw, sw1
<1>13. ASSUME UNCHANGED <<SendWindow, PeerInitWindow>>,
              gt1 + sn1 + du1 + rt1 <= gt + sn + du + rt
       PROVE  Fits(s)'
  <2>1. sw1 = sw
    BY <1>13, Zenon DEF sw, sw1
  <2>2. sw1 + gt1 + sn1 + du1 + rt1 <= sw + gt + sn + du + rt /\ sw1 >= 0
    BY <2>1, <1>13, <1>6a
  <2> QED BY <2>2, <1>12, <1>13, Zenon
<1>13a. ASSUME UNCHANGED <<SendWindow, PeerInitWindow, got, dueStream>>,
               Total(Sent(s)') = Total(Sent(s)), Total(Returned(s)') = Total(Returned(s))
        PROVE  Fits(s)'
  <2>1. gt1 = gt /\ sn1 = sn /\ du1 = du /\ rt1 = rt
    BY <1>13a, Zenon DEF sw, sw1, gt, gt1, sn, sn1, du, du1, rt, rt1, piw, use, use1
  <2>2. gt1 + sn1 + du1 + rt1 <= gt + sn + du + rt
    BY <2>1, <1>6a
  <2> QED BY <2>2, <1>13, <1>13a, Zenon
<1> HIDE DEF Fits
<1>14. ASSUME NEW t \in Streams, Ours(t) PROVE Fits(s)'
  <2>1. dueStream' = dueStream /\ UNCHANGED PeerInitWindow
    BY <1>14, Zenon DEF Ours, AcceptStream, RequestStream, SendBody, Spend, EmitData, DataFails,
         CloseStream, Dispatch, InitialStreamWindow, OpenStream, Write, Reserve, SendData,
         SendDataFails, RemoveStream, peerVars, credit
  <2>2. ASSUME SendWindow' = [SendWindow EXCEPT ![t] = PeerInitWindow], pc[t] = "new",
               UNCHANGED got, Total(Sent(s)') = Total(Sent(s)),
               Total(Returned(s)') = Total(Returned(s))
        PROVE  Fits(s)'
    <3>1. CASE t = s
      <4>1. /\ got[s] = 0 /\ Total(Sent(s)) = 0 /\ dueStream[s] = 0 /\ Total(Returned(s)) = 0
        BY <2>2, <3>1, Zenon DEF Unopened, Reserved
      <4>2. SendWindow'[s] = PeerInitWindow
        BY <2>2, <3>1, <1>5, Zenon
      <4>3. sw1 = piw /\ gt1 = 0 /\ sn1 = 0 /\ du1 = 0 /\ rt1 = 0
        BY <4>1, <4>2, <2>1, <2>2, Zenon
           DEF sw, sw1, gt, gt1, sn, sn1, du, du1, rt, rt1, piw, use, use1
      <4>4. sw1 >= 0 /\ use1 <= piw
        BY <4>3, <1>6a
      <4> QED BY <4>4, <2>1, Zenon DEF Fits, use1, piw, sw1
    <3>2. CASE t # s
      <4>1. SendWindow'[s] = SendWindow[s]
        BY <2>2, <3>2, <1>5, Zenon
      <4>2. sw1 = sw /\ gt1 = gt /\ sn1 = sn /\ du1 = du /\ rt1 = rt
        BY <4>1, <2>1, <2>2, Zenon
           DEF sw, sw1, gt, gt1, sn, sn1, du, du1, rt, rt1, piw, use, use1
      <4>3. sw1 + gt1 + sn1 + du1 + rt1 <= sw + gt + sn + du + rt /\ sw1 >= 0
        BY <4>2, <1>6a
      <4> QED BY <4>3, <2>1, <1>12, Zenon
    <3> QED BY <3>1, <3>2, Zenon
  <2>3. CASE AcceptStream(t)
    <3>1. Total(Returned(s)') = Total(Returned(s))
      <4>1. Arrives("HEADERS")
        BY <2>3, Zenon DEF AcceptStream
      <4> QED BY <4>1, <1>10a, Zenon
    <3>2. /\ SendWindow' = [SendWindow EXCEPT ![t] = PeerInitWindow] /\ pc[t] = "new"
          /\ UNCHANGED <<got, toPeer>>
      BY <2>3, Zenon DEF AcceptStream, Dispatch, InitialWindow
    <3> QED BY <2>2, <3>1, <3>2, <1>7, Zenon
  <2>4. CASE RequestStream(t)
    <3>1. CASE InitialStreamWindow(t) /\ UNCHANGED <<toPeer, fromPeer, peerVars>>
      BY <3>1, <2>2, <1>7, <1>8, Zenon DEF InitialStreamWindow, InitialWindow
    <3>2. CASE /\ OpenStream(t) /\ Emit(Frame("HEADERS", t, 0))
               /\ UNCHANGED <<fromPeer, peerVars>>
      <4>1. Frame("HEADERS", t, 0) \in Frames /\ Frame("HEADERS", t, 0).type # "DATA"
        BY Zenon DEF Frame, Frames
      <4>2. Total(Sent(s)') = Total(Sent(s))
        BY <3>2, <4>1, <1>9a, Zenon
      <4>3. UNCHANGED <<SendWindow, got, fromPeer>>
        BY <3>2, Zenon DEF OpenStream, credit
      <4> QED BY <4>2, <4>3, <2>1, <1>8, <1>13a, Zenon
    <3> QED BY <2>4, <3>1, <3>2, Zenon DEF RequestStream
  <2>5. CASE EmitData(t)
    <3> DEFINE f == Frame("DATA", t, got[t])
    <3>1. f \in Frames /\ f.type = "DATA" /\ f.stream = t /\ f.n = got[t] /\ got[t] \in Nat
      BY <1>5, Zenon DEF Frame, Frames
    <3>2. /\ Emit(f) /\ got' = [got EXCEPT ![t] = 0]
          /\ UNCHANGED <<SendWindow, PeerInitWindow, fromPeer>>
      BY <2>5, SMTT(30) DEF EmitData, SendData, credit
    <3> HIDE DEF f
    <3>3. Total(Sent(s)') = Total(Sent(s)) + (IF t = s THEN got[t] ELSE 0)
      BY <3>1, <3>2, <1>9, Zenon
    <3>4. got'[s] = IF t = s THEN 0 ELSE got[s]
      BY <3>2, <1>5, Zenon
    <3>5. /\ du1 = du /\ rt1 = rt
          /\ t = s => gt1 = 0 /\ sn1 = sn + gt
          /\ t # s => gt1 = gt /\ sn1 = sn + 0
      BY <3>2, <3>3, <3>4, <2>1, <1>8, Zenon DEF gt, gt1, sn, sn1, du, du1, rt, rt1
    <3>6. gt1 + sn1 + du1 + rt1 <= gt + sn + du + rt
      BY <3>5, <1>6a
    <3> QED BY <3>2, <3>6, <1>13, Zenon
  <2>6. CASE Spend(t)
    <3>1. Total(Sent(s)') = Total(Sent(s)) /\ Total(Returned(s)') = Total(Returned(s))
      BY <2>6, <1>7, <1>8, Zenon DEF Spend
    <3>2. CASE ReserveTake(t)
      <4>1. PICK n \in Nat : /\ n <= SendWindow[t]
                             /\ SendWindow' = [SendWindow EXCEPT ![t] = @ - n]
                             /\ got' = [got EXCEPT ![t] = n]
        <5> DEFINE n == Least(Want(t), Avail(t))
        <5>1. n \in Nat /\ n <= SendWindow[t]
          <6>1. /\ SendWindow[t] \in Int /\ ConnSendWindow \in Int /\ left[t] \in Nat
                /\ MaxFrameSize \in Nat
            BY BoundAssumption DEF TypeOK, Int32s
          <6> DEFINE a == Avail(t)
                     v == SendWindow[t]
                     m == Want(t)
          <6>2. a \in Int /\ a <= v /\ v \in Int
            BY <6>1 DEF Avail, Least
          <6>3. m \in Nat
            BY <6>1 DEF Want, Least
          <6>4. a > 0 /\ n = Least(m, a)
            BY <3>2, Zenon DEF ReserveTake
          <6> HIDE DEF a, v, m, n
          <6>5. n \in Nat /\ n <= v
            BY <6>2, <6>3, <6>4 DEF Least
          <6> QED BY <6>5, Zenon DEF v
        <5>2. /\ SendWindow' = [SendWindow EXCEPT ![t] = @ - n]
              /\ got' = [got EXCEPT ![t] = n]
          BY <3>2, Zenon DEF ReserveTake
        <5> QED BY <5>1, <5>2, Zenon
      <4>2. got[t] = 0
        BY <2>6, Zenon DEF Spend, Reserve, Reserved
      <4>3. CASE t = s
        <5>1. /\ sw1 = sw - n /\ gt1 = n /\ gt = 0 /\ n <= sw
              /\ sn1 = sn /\ du1 = du /\ rt1 = rt
          BY <4>1, <4>2, <4>3, <3>1, <2>1, <1>5, Zenon
             DEF sw, sw1, gt, gt1, sn, sn1, du, du1, rt, rt1, piw, use, use1
        <5>2. sw1 + gt1 + sn1 + du1 + rt1 <= sw + gt + sn + du + rt /\ sw1 >= 0
          BY <5>1, <4>1, <1>6a
        <5> QED BY <5>2, <2>1, <1>12, Zenon
      <4>4. CASE t # s
        <5>1. SendWindow'[s] = SendWindow[s] /\ got'[s] = got[s]
          BY <4>1, <4>4, <1>5, Zenon
        <5>2. sw1 = sw /\ gt1 = gt /\ sn1 = sn /\ du1 = du /\ rt1 = rt
          BY <5>1, <3>1, <2>1, Zenon
             DEF sw, sw1, gt, gt1, sn, sn1, du, du1, rt, rt1, piw, use, use1
        <5>3. sw1 + gt1 + sn1 + du1 + rt1 <= sw + gt + sn + du + rt /\ sw1 >= 0
          BY <5>2, <1>6a
        <5> QED BY <5>3, <2>1, <1>12, Zenon
      <4> QED BY <4>3, <4>4, Zenon
    <3>3. CASE ReserveDead(t) \/ ReserveWait(t)
      <4>1. UNCHANGED <<SendWindow, got>>
        BY <3>3, Zenon DEF ReserveDead, ReserveWait
      <4> QED BY <3>1, <4>1, <2>1, <1>13a, Zenon
    <3> QED BY <2>6, <3>2, <3>3, Zenon DEF Spend, Reserve
  <2>7. CASE SendBody(t) \/ DataFails(t) \/ CloseStream(t)
    <3>1. UNCHANGED <<SendWindow, got, toPeer, fromPeer>>
      BY <2>7, Zenon DEF SendBody, DataFails, CloseStream, Write, SendDataFails, RemoveStream, credit
    <3> QED BY <3>1, <2>1, <1>7, <1>8, <1>13a, Zenon
  <2> QED BY <1>14, <2>3, <2>4, <2>5, <2>6, <2>7, Zenon DEF Ours
<1>15. ASSUME HandleWindowUpdate PROVE Fits(s)'
  <2> DEFINE f == Head(fromPeer)
  <2>1. /\ Arrives("WINDOW_UPDATE") /\ UNCHANGED <<toPeer, dueStream, got, PeerInitWindow>>
        /\ \/ f.stream \in streams /\ AddStream(f.stream, f.n)
           \/ UNCHANGED SendWindow
    BY <1>15, Zenon DEF HandleWindowUpdate, AddConn, AddStream, peerVars, vars, credit
  <2>2. /\ Total(Returned(s)) = Total(Returned(s)') + (IF f.stream = s THEN f.n ELSE 0)
        /\ f.n \in Nat
    BY <2>1, <1>10, Zenon
  <2>3. Total(Sent(s)') = Total(Sent(s)) /\ got'[s] = got[s] /\ dueStream'[s] = dueStream[s]
    BY <2>1, <1>7, Zenon
  <2>3a. Total(Returned(s)') <= Total(Returned(s))
    <3> DEFINE k == IF f.stream = s THEN f.n ELSE 0
    <3>1. rt = rt1 + k /\ k \in Nat
      <4>1. 0 \in Nat
        OBVIOUS
      <4> QED BY <2>2, <4>1, Zenon DEF rt, rt1
    <3> HIDE DEF k
    <3>2. rt1 <= rt
      BY <3>1, <1>6a
    <3> QED BY <3>2, Zenon DEF rt, rt1
  <2>4. CASE f.stream \in streams /\ AddStream(f.stream, f.n)
    <3>1. f.stream \in Streams /\ f.stream \in DOMAIN SendWindow
      BY <2>4, Zenon DEF TypeOK
    <3>2. CASE f.stream = s
      <4>1. SendWindow'[s] = Int32(SendWindow[s] + f.n) /\ SendWindow[s] + f.n <= MaxInt32
        BY <2>4, <3>1, <3>2, Zenon DEF AddStream, PeerMayGrow
      <4> HIDE DEF f
      <4> DEFINE k == f.n
      <4>2. /\ k \in Nat /\ sw1 = Int32(sw + k) /\ sw + k <= MaxInt32
            /\ rt = rt1 + k /\ sn1 = sn /\ gt1 = gt /\ du1 = du
        BY <2>2, <2>3, <3>2, <4>1, Zenon
           DEF sw, sw1, gt, gt1, sn, sn1, du, du1, rt, rt1, piw, use, use1
      <4> HIDE DEF k
      <4>3. sw + k \in Int /\ sw + k >= 0 /\ -MaxInt32 - 1 <= sw + k
        BY <4>2, <1>6a, BoundAssumption
      <4>4. sw1 = sw + k
        BY <4>2, <4>3, Int32Exact, Zenon
      <4>5. sw1 + gt1 + sn1 + du1 + rt1 <= sw + gt + sn + du + rt /\ sw1 >= 0
        BY <4>2, <4>3, <4>4, <1>6a
      <4> QED BY <2>1, <4>5, <1>12, Zenon
    <3>3. CASE f.stream # s
      <4>1. SendWindow'[s] = SendWindow[s]
        <5>1. SendWindow' = [SendWindow EXCEPT ![f.stream] = Int32(@ + f.n)]
          BY <2>4, Zenon DEF AddStream
        <5> HIDE DEF f
        <5> QED BY <3>1, <3>3, <5>1, SMTT(30)
      <4>2. sw1 = sw /\ rt1 <= rt /\ sn1 = sn /\ gt1 = gt /\ du1 = du
        BY <2>3, <2>3a, <4>1, Zenon
           DEF sw, sw1, gt, gt1, sn, sn1, du, du1, rt, rt1, piw, use, use1
      <4>3. sw1 + gt1 + sn1 + du1 + rt1 <= sw + gt + sn + du + rt /\ sw1 >= 0
        BY <4>2, <1>6a
      <4> QED BY <2>1, <4>3, <1>12, Zenon
    <3> QED BY <3>2, <3>3, Zenon
  <2>5. CASE UNCHANGED SendWindow
    <3> HIDE DEF f
    <3>1. rt1 <= rt /\ sn1 = sn /\ gt1 = gt /\ du1 = du
      BY <2>3, <2>3a, Zenon DEF sw, sw1, gt, gt1, sn, sn1, du, du1, rt, rt1, piw, use, use1
    <3>2. gt1 + sn1 + du1 + rt1 <= gt + sn + du + rt
      BY <3>1, <1>6a
    <3> QED BY <2>1, <2>5, <3>2, <1>13, Zenon
  <2> QED BY <2>1, <2>4, <2>5, Zenon
<1>16. ASSUME HandleSettings PROVE Fits(s)'
  <2>1. /\ Arrives("SETTINGS")
        /\ UNCHANGED <<toPeer, dueStream, got, SendWindow, PeerInitWindow>>
    BY <1>16, Zenon DEF HandleSettings, ActiveStreamWindows, peerVars, credit
  <2>2. Total(Returned(s)') = Total(Returned(s)) /\ Total(Sent(s)') = Total(Sent(s))
    BY <2>1, <1>7, <1>10a, Zenon
  <2> QED BY <2>1, <2>2, <1>13a, Zenon
<1>17. ASSUME FinishSettings PROVE Fits(s)'
  <2> DEFINE f == Frame("SETTINGS_ACK", NoStream, 0)
             delta == newSize - PeerInitWindow
  <2>1. f \in Frames /\ f.type # "DATA"
    BY Zenon DEF Frame, Frames
  <2>2. /\ Emit(f) /\ reader = "settings" /\ PeerInitWindow' = newSize
        /\ UNCHANGED <<fromPeer, dueStream, got>>
        /\ SendWindow'[s] = IF s \in windows THEN Int32(SendWindow[s] + delta)
                            ELSE SendWindow[s]
    BY <1>17, SMTT(30) DEF FinishSettings, ApplyInitialWindowDelta, peerVars
  <2> HIDE DEF f
  <2>3. /\ Total(Sent(s)') = Total(Sent(s)) /\ Total(Returned(s)') = Total(Returned(s))
        /\ got'[s] = got[s] /\ dueStream'[s] = dueStream[s]
    BY <2>1, <2>2, <1>8, <1>9a, Zenon
  <2>4. newSize \in Nat /\ delta \in Nat
    <3>1. PeerInitWindow = offered[Applied + 1] /\ newSize = offered[Applied + 2]
      BY <2>2, Zenon DEF SettingsInOrder
    <3>2. newSize \in Nat /\ PeerInitWindow <= newSize
      BY <3>1, <1>3, <1>17, BoundAssumption DEF TypeOK
    <3> QED BY <3>2, <1>5, SMTT(30)
  <2>5. CASE s \in windows
    <3>1. SendWindow[s] + delta <= MaxInt32
      BY <2>2, <2>5, Zenon DEF NoWrap
    <3> HIDE DEF delta
    <3>2. /\ sw + delta <= MaxInt32 /\ sw1 = Int32(sw + delta)
          /\ sn1 = sn /\ rt1 = rt /\ gt1 = gt /\ du1 = du
      BY <2>2, <2>3, <2>5, <3>1, Zenon
         DEF sw, sw1, gt, gt1, sn, sn1, du, du1, rt, rt1, piw, use, use1
    <3>3. sw + delta \in Int /\ sw + delta >= 0 /\ -MaxInt32 - 1 <= sw + delta
      BY <2>4, <1>6a, BoundAssumption
    <3>4. sw1 = sw + delta
      BY <3>2, <3>3, Int32Exact, Zenon
    <3>5. PeerInitWindow' = piw + delta
      <4>1. PeerInitWindow' = newSize /\ delta = newSize - piw
        BY <2>2, Zenon DEF delta, piw
      <4> QED BY <4>1, <2>4, <1>6a
    <3>6. sw1 >= 0 /\ use1 <= piw + delta
      BY <2>4, <3>2, <3>3, <3>4, <1>6a
    <3> QED BY <3>5, <3>6, Zenon DEF Fits, use1, sw1
  <2>6. CASE s \notin windows
    <3>1. sw1 = sw /\ sn1 = sn /\ rt1 = rt /\ gt1 = gt /\ du1 = du
      BY <2>2, <2>3, <2>6, Zenon
         DEF sw, sw1, gt, gt1, sn, sn1, du, du1, rt, rt1, piw, use, use1
    <3>2. PeerInitWindow' = newSize /\ delta = newSize - piw
      BY <2>2, Zenon DEF piw
    <3> HIDE DEF delta
    <3>3. piw <= newSize
      BY <3>2, <2>4, <1>6a
    <3>4. sw1 >= 0 /\ use1 <= newSize
      BY <2>4, <3>1, <3>3, <1>6a
    <3> QED BY <3>2, <3>4, Zenon DEF Fits, use1, sw1
  <2> QED BY <2>5, <2>6, Zenon
<1>18. ASSUME Teardown PROVE Fits(s)'
  <2>1. UNCHANGED <<SendWindow, PeerInitWindow, got, dueStream, toPeer, fromPeer>>
    BY <1>18, Zenon DEF Teardown, MarkDead, peerVars
  <2> QED BY <2>1, <1>7, <1>8, <1>13a, Zenon
<1>19. ASSUME NEW t \in Streams, PeerOpens(t) PROVE Fits(s)'
  <2>1. Frame("HEADERS", t, 0) \in Frames /\ Frame("HEADERS", t, 0).type # "WINDOW_UPDATE"
    BY Zenon DEF Frame, Frames
  <2>2. Total(Returned(s)') = Total(Returned(s))
    BY <1>19, <2>1, <1>11a, Zenon DEF PeerOpens
  <2>3. UNCHANGED <<SendWindow, PeerInitWindow, got, dueStream, toPeer>>
    BY <1>19, Zenon DEF PeerOpens, peerVars, vars, credit
  <2> QED BY <2>2, <2>3, <1>7, <1>13a, Zenon
<1>20. ASSUME PeerReceives PROVE Fits(s)'
  <2> DEFINE f == Head(toPeer)
  <2>1. /\ toPeer # <<>> /\ toPeer' = Tail(toPeer)
        /\ UNCHANGED <<fromPeer, got, SendWindow, PeerInitWindow>>
        /\ \/ f.type = "DATA" /\ dueStream' = [dueStream EXCEPT ![f.stream] = @ + f.n]
           \/ f.type # "DATA" /\ dueStream' = dueStream
    BY <1>20, Zenon DEF PeerReceives, peerVars, vars, credit
  <2>2. f \in Frames
    BY <2>1, <1>5, TakeType, Zenon
  <2>3. /\ Total(Sent(s)) = Weight("DATA", {s})[f] + Total(Sent(s)')
        /\ Weight("DATA", {s})[f] = IF f.type = "DATA" /\ f.stream = s THEN f.n ELSE 0
        /\ f.n \in Nat
    BY <2>1, <2>2, <1>5, TakeTotals, FrameWeights, Zenon
  <2> HIDE DEF f
  <2>4. dueStream'[s] = dueStream[s] + (IF f.type = "DATA" /\ f.stream = s THEN f.n ELSE 0)
    BY <2>1, <2>3, <1>5, <1>6, SMTT(30)
  <2> DEFINE k == IF f.type = "DATA" /\ f.stream = s THEN f.n ELSE 0
  <2>5. sn = k + sn1 /\ du1 = du + k /\ k \in Nat /\ gt1 = gt /\ rt1 = rt
    <3>1. 0 \in Nat
      OBVIOUS
    <3> QED BY <2>1, <2>3, <2>4, <3>1, <1>8, Zenon
       DEF sw, sw1, gt, gt1, sn, sn1, du, du1, rt, rt1, piw, use, use1
  <2> HIDE DEF k
  <2>6. gt1 + sn1 + du1 + rt1 <= gt + sn + du + rt
    BY <2>5, <1>6a
  <2> QED BY <2>1, <2>6, <1>13, Zenon
<1>21. ASSUME PeerCreditsConn PROVE Fits(s)'
  <2>1. /\ Frame("WINDOW_UPDATE", NoStream, due) \in Frames
        /\ Frame("WINDOW_UPDATE", NoStream, due).stream # s
    BY <1>5, StreamAssumption, Zenon DEF Frame, Frames
  <2>2. Total(Returned(s)') = Total(Returned(s))
    BY <1>21, <2>1, <1>11a, Zenon DEF PeerCreditsConn
  <2>3. UNCHANGED <<SendWindow, PeerInitWindow, got, dueStream, toPeer>>
    BY <1>21, Zenon DEF PeerCreditsConn, vars, credit
  <2> QED BY <2>2, <2>3, <1>7, <1>13a, Zenon
<1>22. ASSUME NEW t \in Streams, PeerCreditsStream(t) PROVE Fits(s)'
  <2> DEFINE f == Frame("WINDOW_UPDATE", t, dueStream[t])
  <2>1. /\ f \in Frames /\ f.type = "WINDOW_UPDATE" /\ f.stream = t /\ f.n = dueStream[t]
    BY <1>5, Zenon DEF Frame, Frames
  <2>2. /\ PeerGrants(f) /\ dueStream' = [dueStream EXCEPT ![t] = 0]
        /\ UNCHANGED <<toPeer, got, SendWindow, PeerInitWindow>>
    BY <1>22, Zenon DEF PeerCreditsStream, vars, credit
  <2> HIDE DEF f
  <2>3. Total(Returned(s)') = Total(Returned(s)) + (IF t = s THEN dueStream[t] ELSE 0)
    BY <2>1, <2>2, <1>11, Zenon
  <2>4. dueStream'[s] = IF t = s THEN 0 ELSE dueStream[s]
    BY <2>2, <1>5, SMTT(30)
  <2>5. /\ gt1 = gt /\ sn1 = sn
        /\ t = s => rt1 = rt + du /\ du1 = 0
        /\ t # s => rt1 = rt + 0 /\ du1 = du
    BY <2>2, <2>3, <2>4, <1>7, Zenon DEF gt, gt1, sn, sn1, du, du1, rt, rt1
  <2>6. gt1 + sn1 + du1 + rt1 <= gt + sn + du + rt
    BY <2>5, <1>6a
  <2> QED BY <2>2, <2>6, <1>13, Zenon
<1>23. ASSUME NEW v \in Windows, PeerSendsSettings(v) PROVE Fits(s)'
  <2>1. /\ Frame("SETTINGS", NoStream, v) \in Frames
        /\ Frame("SETTINGS", NoStream, v).type # "WINDOW_UPDATE"
    BY WindowAssumption, BoundAssumption DEF Frame, Frames
  <2>2. Total(Returned(s)') = Total(Returned(s))
    BY <1>23, <2>1, <1>11a, Zenon DEF PeerSendsSettings
  <2>3. UNCHANGED <<SendWindow, PeerInitWindow, got, dueStream, toPeer>>
    BY <1>23, Zenon DEF PeerSendsSettings, vars, credit
  <2> QED BY <2>2, <2>3, <1>7, <1>13a, Zenon
<1>24. ASSUME UNCHANGED allVars PROVE Fits(s)'
  <2>1. UNCHANGED <<SendWindow, PeerInitWindow, got, dueStream, toPeer, fromPeer>>
    BY <1>24, Zenon DEF allVars, peerVars, vars, credit
  <2> QED BY <2>1, <1>7, <1>8, <1>13a, Zenon
<1> QED
  BY <1>14, <1>15, <1>16, <1>17, <1>18, <1>19, <1>20, <1>21, <1>22, <1>23, <1>24, Zenon
     DEF FlowNext, OurReader, Peer, PeerCredits

(* Until the peer receives a frame, the queue to it only grows. *)
LEMMA ToPeerGrows ==
  ASSUME TypeOK, FlowTypeOK, [FlowNext]_allVars, ~PeerReceives
  PROVE  /\ toPeer' = toPeer \/ \E f \in Frames : Emit(f)
         /\ acked' = acked /\ overrun' = overrun
         /\ \A s \in Streams : dueStream'[s] <= dueStream[s]
<1>1. dueStream \in [Streams -> Nat] /\ got \in [Streams -> Nat]
  BY SMTT(30) DEF FlowTypeOK, PeerType, TypeOK
<1>2. ASSUME NEW s \in Streams, Ours(s)
      PROVE  (toPeer' = toPeer \/ \E f \in Frames : Emit(f)) /\ UNCHANGED peerVars
  <2>1. Frame("HEADERS", s, 0) \in Frames /\ Frame("DATA", s, got[s]) \in Frames
    BY <1>1, Zenon DEF Frame, Frames
  <2> QED BY <1>2, <2>1, Zenon DEF Ours, AcceptStream, RequestStream, SendBody, Spend, EmitData,
                            DataFails, CloseStream
<1>3. ASSUME OurReader
      PROVE  (toPeer' = toPeer \/ \E f \in Frames : Emit(f)) /\ UNCHANGED peerVars
  <2>1. Frame("SETTINGS_ACK", NoStream, 0) \in Frames
    BY Zenon DEF Frame, Frames
  <2> QED BY <1>3, <2>1, Zenon DEF OurReader, HandleWindowUpdate, HandleSettings, FinishSettings
<1>4. CASE UNCHANGED peerVars
  <2>1. toPeer' = toPeer \/ \E f \in Frames : Emit(f)
    BY <1>2, <1>3, Zenon DEF FlowNext, Teardown, Peer, PeerOpens, PeerCredits, PeerCreditsConn,
       PeerCreditsStream, PeerSendsSettings, allVars
  <2> QED BY <1>1, <1>4, <2>1 DEF peerVars
<1>5. CASE PeerCreditsConn
  BY <1>1, <1>5 DEF PeerCreditsConn
<1>6. ASSUME NEW s \in Streams, PeerCreditsStream(s)
      PROVE  /\ toPeer' = toPeer /\ acked' = acked /\ overrun' = overrun
             /\ \A t \in Streams : dueStream'[t] <= dueStream[t]
  BY <1>1, <1>6 DEF PeerCreditsStream
<1>7. ASSUME NEW v \in Windows, PeerSendsSettings(v)
      PROVE  /\ toPeer' = toPeer /\ acked' = acked /\ overrun' = overrun
             /\ \A t \in Streams : dueStream'[t] <= dueStream[t]
  BY <1>1, <1>7 DEF PeerSendsSettings
<1> QED
  BY <1>2, <1>3, <1>4, <1>5, <1>6, <1>7, Zenon DEF FlowNext, Teardown, Peer, PeerOpens, PeerCredits,
     allVars

(* The window that a frame in flight meets is one that was offered. *)
LEMMA OfferedIndex ==
  ASSUME FlowTypeOK, SettingsInOrder, NEW i \in 0..Len(toPeer)
  PROVE  /\ acked + Partial(Acks)[i] \in Nat
         /\ acked + Partial(Acks)[i] + 1 <= Len(offered)
         /\ Len(offered) \in Nat
<1>1. toPeer \in Seq(Frames) /\ fromPeer \in Seq(Frames) /\ acked \in Nat
  BY Zenon DEF FlowTypeOK, PeerType, ToPeerType, FromPeerType
<1>2. /\ Total(Acks) \in Nat /\ Total(Pending) \in Nat
      /\ Partial(Acks)[i] \in Nat /\ Partial(Acks)[i] <= Total(Acks)
  BY <1>1, ToPeerTotals, FromPeerTotals, Zenon
<1>3. Len(offered) = 1 + Taken + Total(Pending) /\ Applied = acked + Total(Acks)
  BY Zenon DEF SettingsInOrder, PendingInOrder, Applied
<1>4. Taken \in Nat /\ Applied <= Taken
  BY <1>1, <1>2, <1>3 DEF Taken
<1> QED BY <1>1, <1>2, <1>3, <1>4, SMTT(30)

(* Every DATA frame in flight is covered by the window that the peer will   *)
(* have in force when it takes the frame.                                   *)
LEMMA CoveredStep ==
  ASSUME TypeOK, TypeOK', FlowTypeOK, FlowTypeOK', SettingsInOrder, SettingsInOrder',
         WithinWindow', Covered, [FlowNext]_allVars
  PROVE  Covered'
<1>1. SUFFICES ASSUME NEW s \in Streams, NEW i \in 0..Len(toPeer'),
                      Raised(acked + Partial(Acks)[i])'
               PROVE  Partial(Sent(s)')[i] + dueStream'[s]
                        <= offered'[1 + acked' + Partial(Acks')[i]]
  BY <1>1, Zenon DEF Covered
<1>2. /\ ToPeerType /\ toPeer \in Seq(Frames) /\ toPeer' \in Seq(Frames)
      /\ fromPeer' \in Seq(Frames)
      /\ acked \in Nat /\ acked' \in Nat /\ offered \in Seq(0..MaxInt32)
      /\ dueStream \in [Streams -> Nat] /\ dueStream' \in [Streams -> Nat]
  BY Zenon DEF FlowTypeOK, PeerType, ToPeerType, FromPeerType
<1>3. /\ Len(toPeer) \in Nat /\ Len(toPeer') \in Nat /\ i \in Nat
      /\ dueStream[s] \in Nat /\ dueStream'[s] \in Nat
  BY <1>2
<1>4. CASE i = Len(toPeer')
  <2>1. /\ Partial(Sent(s)')[i] = Total(Sent(s)') /\ Total(Sent(s)') \in Nat
        /\ Partial(Acks')[i] = Total(Acks') /\ Total(Acks') \in Nat
        /\ Total(Returned(s)') \in Nat
    BY <1>2, <1>4, BytesTotals, CountTotals, Zenon DEF Sent, Acks, Returned
  <2>2. Applied' = acked' + Partial(Acks')[i] /\ Applied' \in Nat
    BY <2>1, <1>2 DEF Applied
  <2>3. Raised(Applied)'
    BY <2>2, <1>1, Zenon DEF Raised
  <2>4. /\ SendWindow'[s] >= 0
        /\ SendWindow'[s] + got'[s] + Total(Sent(s)') + dueStream'[s] + Total(Returned(s)')
             <= PeerInitWindow'
    BY <2>3, Zenon DEF WithinWindow
  <2>5. SendWindow'[s] \in Int /\ got'[s] \in Nat /\ PeerInitWindow' \in Int
    BY BoundAssumption, SMTT(30) DEF TypeOK, Int32s
  <2>6. Total(Sent(s)') + dueStream'[s] <= PeerInitWindow'
    <3> DEFINE sw == SendWindow'[s]
               gt == got'[s]
               sn == Total(Sent(s)')
               du == dueStream'[s]
               rt == Total(Returned(s)')
               piw == PeerInitWindow'
    <3>1. /\ sw \in Int /\ gt \in Nat /\ sn \in Nat /\ du \in Nat /\ rt \in Nat
          /\ piw \in Int /\ sw >= 0 /\ sw + gt + sn + du + rt <= piw
      BY <2>1, <2>4, <2>5, <1>3, Zenon
    <3> HIDE DEF sw, gt, sn, du, rt, piw
    <3>2. sn + du <= piw
      BY <3>1
    <3> QED BY <3>2, Zenon DEF sn, du, piw
  <2>7. PeerInitWindow' = offered'[Applied' + 1]
    BY Zenon DEF SettingsInOrder
  <2>8. Applied' + 1 = 1 + acked' + Partial(Acks')[i]
    BY <2>1, <2>2, <1>2, SMTT(30)
  <2> QED BY <2>1, <2>6, <2>7, <2>8, Zenon
<1>5. CASE ~PeerReceives /\ i # Len(toPeer')
  <2>1. /\ toPeer' = toPeer \/ \E f \in Frames : Emit(f)
        /\ acked' = acked /\ dueStream'[s] <= dueStream[s]
    BY <1>5, ToPeerGrows, Zenon
  <2>2. /\ i \in 0..Len(toPeer) /\ Partial(Acks')[i] = Partial(Acks)[i]
        /\ Partial(Sent(s)')[i] = Partial(Sent(s))[i]
    <3>1. CASE toPeer' = toPeer
      BY <3>1, Zenon DEF Acks, Sent
    <3>2. ASSUME NEW f \in Frames, Emit(f)
          PROVE  /\ i \in 0..Len(toPeer) /\ Partial(Acks')[i] = Partial(Acks)[i]
                 /\ Partial(Sent(s)')[i] = Partial(Sent(s))[i]
      <4>1. Len(toPeer') = Len(toPeer) + 1
        BY <3>2, <1>2, EmitTotals, Zenon
      <4>2. i \in 0..Len(toPeer)
        BY <4>1, <1>3, <1>5
      <4> QED BY <3>2, <4>2, <1>2, EmitTotals, Zenon
    <3> QED BY <2>1, <3>1, <3>2, Zenon
  <2>3. PICK k \in Nat : /\ k = acked + Partial(Acks)[i]
                         /\ k + 1 <= Len(offered) /\ Len(offered) \in Nat
    BY <2>2, OfferedIndex, Zenon
  <2>4. /\ Partial(Sent(s))[i] \in Nat /\ Partial(Acks)[i] \in Nat
        /\ acked' + Partial(Acks')[i] = k
        /\ 1 + acked' + Partial(Acks')[i] = 1 + k
        /\ 1 + acked + Partial(Acks)[i] = 1 + k
    <3>1. Partial(Sent(s))[i] \in Nat /\ Partial(Acks)[i] \in Nat
      BY <2>2, <1>2, ToPeerTotals, Zenon
    <3> QED BY <3>1, <2>1, <2>2, <2>3, <1>2
  <2>5. Raised(k)
    <3>1. Raised(acked + Partial(Acks)[i])' <=> Raised(k)'
      BY <2>4, Zenon DEF Raised
    <3>2. Raised(k)' <=> Raised(k)
      BY <2>3, OfferedStep, Zenon
    <3> QED BY <3>1, <3>2, <1>1, Zenon
  <2>6. Partial(Sent(s))[i] + dueStream[s] <= offered[1 + k]
    <3>1. Raised(acked + Partial(Acks)[i])
      BY <2>3, <2>5, Zenon
    <3> QED BY <3>1, <2>2, <2>4, Zenon DEF Covered
  <2>7. 1 + k \in 1..Len(offered)
    BY <2>3
  <2>8. offered'[1 + k] = offered[1 + k] /\ offered[1 + k] \in Nat
    BY <2>7, OfferedStep, Zenon
  <2> DEFINE sn == Partial(Sent(s))[i]
             du == dueStream[s]
             du1 == dueStream'[s]
             o == offered[1 + k]
  <2>9. /\ sn \in Nat /\ du \in Nat /\ du1 \in Nat /\ o \in Nat
        /\ du1 <= du /\ sn + du <= o
    BY <2>1, <2>4, <2>6, <2>8, <1>3, Zenon
  <2> HIDE DEF sn, du, du1, o
  <2>10. sn + du1 <= o
    BY <2>9
  <2> QED BY <2>2, <2>4, <2>8, <2>10, Zenon DEF sn, du1, o
<1>6. CASE PeerReceives
  <2> DEFINE f == Head(toPeer)
             wa == One("SETTINGS_ACK")[f]
             ws == Weight("DATA", {s})[f]
  <2>1. /\ toPeer # <<>> /\ toPeer' = Tail(toPeer) /\ offered' = offered
        /\ \/ f.type = "SETTINGS_ACK" /\ acked' = acked + 1
           \/ f.type # "SETTINGS_ACK" /\ acked' = acked
        /\ \/ f.type = "DATA" /\ dueStream' = [dueStream EXCEPT ![f.stream] = @ + f.n]
           \/ f.type # "DATA" /\ dueStream' = dueStream
    BY <1>6, Zenon DEF PeerReceives, peerVars
  <2>2. f \in Frames
    BY <2>1, <1>2, TakeType, Zenon
  <2>3. /\ wa = IF f.type = "SETTINGS_ACK" THEN 1 ELSE 0
        /\ ws = IF f.type = "DATA" /\ f.stream = s THEN f.n ELSE 0
        /\ f.n \in Nat
    BY <2>2, FrameWeights, Zenon
  <2>4. /\ Len(toPeer') = Len(toPeer) - 1
        /\ \A j \in 0..(Len(toPeer) - 1) :
             /\ Partial(Sent(s))[j + 1] = ws + Partial(Sent(s)')[j]
             /\ Partial(Acks)[j + 1] = wa + Partial(Acks')[j]
    BY <2>1, <1>2, TakeTotals, Zenon
  <2> HIDE DEF f, wa, ws
  <2>5. acked' = acked + wa /\ dueStream'[s] = dueStream[s] + ws /\ wa \in Nat /\ ws \in Nat
    BY <2>1, <2>3, <1>2, <1>3, SMTT(30)
  <2>6. /\ i + 1 \in 0..Len(toPeer)
        /\ Partial(Sent(s))[i + 1] = ws + Partial(Sent(s)')[i]
        /\ Partial(Acks)[i + 1] = wa + Partial(Acks')[i]
    BY <2>4, <1>3
  <2>7. Partial(Sent(s)')[i] \in Nat /\ Partial(Acks')[i] \in Nat
    BY <1>2, BytesTotals, CountTotals, Zenon DEF Sent, Acks
  <2>8. acked' + Partial(Acks')[i] = acked + Partial(Acks)[i + 1]
    BY <2>5, <2>6, <2>7, <1>2
  <2>9. Raised(acked + Partial(Acks)[i + 1])
    BY <2>1, <2>8, <1>1, Zenon DEF Raised
  <2>10. Partial(Sent(s))[i + 1] + dueStream[s] <= offered[1 + acked + Partial(Acks)[i + 1]]
    BY <2>6, <2>9, Zenon DEF Covered
  <2>11. 1 + acked' + Partial(Acks')[i] = 1 + acked + Partial(Acks)[i + 1]
    <3>1. Partial(Acks)[i + 1] \in Nat
      BY <2>5, <2>6, <2>7
    <3>2. acked \in Nat /\ acked' \in Nat
      BY <1>2, SMTT(30)
    <3> QED BY <3>1, <3>2, <2>7, <2>8, SMTT(30)
  <2>12. Partial(Sent(s))[i + 1] + dueStream[s] = Partial(Sent(s)')[i] + dueStream'[s]
    BY <2>5, <2>6, <2>7, <1>3
  <2> QED BY <2>1, <2>10, <2>11, <2>12, Zenon
<1> QED BY <1>4, <1>5, <1>6, SMTT(30)


(* The peer never takes a DATA frame for which it has not given credit. *)
LEMMA OverrunStep ==
  ASSUME LoopInv, ConnCreditExact, SettingsInOrder, Covered, PeerNeverOverrun,
         [FlowNext]_allVars
  PROVE  PeerNeverOverrun'
<1>1. /\ TypeOK /\ FlowTypeOK /\ PeerAccount /\ ConnCreditConserved
      /\ ToPeerType /\ toPeer \in Seq(Frames) /\ acked \in Nat
      /\ dueStream \in [Streams -> Nat] /\ due \in Nat
      /\ peerUsed \in [Streams -> Int] /\ peerConn \in Int
  BY Zenon DEF LoopInv, FlowTypeOK, PeerType, ToPeerType
<1>2. /\ 0 \in 0..Len(toPeer) /\ Partial(Acks)[0] = 0
  BY <1>1, ToPeerTotals
<1>3. acked + 1 <= Len(offered) /\ Len(offered) \in Nat
  BY <1>1, <1>2, OfferedIndex
<1>4. Raised(acked)' => Raised(acked)
  <2>1. acked' = acked \/ (acked' = acked + 1 /\ offered' = offered)
    <3>1. ASSUME PeerReceives
          PROVE  acked' = acked \/ (acked' = acked + 1 /\ offered' = offered)
      BY <3>1, Zenon DEF PeerReceives, peerVars
    <3>2. ASSUME ~PeerReceives PROVE acked' = acked
      BY <3>2, <1>1, ToPeerGrows, Zenon
    <3> QED BY <3>1, <3>2, Zenon
  <2>2. PICK k \in Nat : k = acked
    BY <1>1, Zenon
  <2>3. Raised(k)' <=> Raised(k)
    BY <2>2, <1>1, <1>3, OfferedStep, Zenon
  <2>4. CASE acked' = acked
    BY <2>2, <2>3, <2>4, Zenon DEF Raised
  <2>5. CASE acked' = acked + 1 /\ offered' = offered
    BY <2>5, <1>1 DEF Raised
  <2> QED BY <2>1, <2>4, <2>5, Zenon
<1>5. SUFFICES ASSUME Raised(acked)' PROVE ~overrun'
  BY Zenon DEF PeerNeverOverrun
<1>6. Raised(acked) /\ ~overrun
  BY <1>4, <1>5, Zenon DEF PeerNeverOverrun
<1>7. CASE ~PeerReceives
  BY <1>1, <1>6, <1>7, ToPeerGrows, Zenon
<1>8. CASE PeerReceives
  <2> DEFINE f == Head(toPeer)
  <2>1. /\ toPeer # <<>> /\ toPeer' = Tail(toPeer)
        /\ \/ overrun' = overrun
           \/ /\ f.type = "DATA"
              /\ overrun' = (overrun \/ f.n > peerConn \/ f.n > peerInit + peerUsed[f.stream])
    BY <1>8, Zenon DEF PeerReceives, peerVars
  <2>2. f \in Frames /\ (f.type = "DATA" => f.stream \in Streams)
    BY <2>1, <1>1, TakeType, Zenon
  <2>3. SUFFICES ASSUME f.type = "DATA"
                 PROVE  f.n <= peerConn /\ f.n <= peerInit + peerUsed[f.stream]
    <3>1. f.n \in Nat
      BY <2>2, FrameWeights, Zenon
    <3>2. f.type = "DATA" => f.stream \in Streams
      BY <2>2, Zenon
    <3>3. peerInit \in Int
      <4>1. acked + 1 \in 1..Len(offered)
        BY <1>1, <1>3
      <4> QED BY <4>1, OfferedStep, <1>1 DEF peerInit
    <3> HIDE DEF f
    <3>4. ASSUME f.type = "DATA" PROVE ~(f.n > peerConn) /\ ~(f.n > peerInit + peerUsed[f.stream])
      BY <3>1, <3>2, <3>3, <3>4, <2>3, <1>1
    <3> QED BY <2>1, <3>4, <1>6, Zenon
  <2>4. /\ f.stream \in Streams /\ f.n \in Nat
        /\ Weight("DATA", {f.stream})[f] = f.n /\ One("SETTINGS_ACK")[f] = 0
    BY <2>2, <2>3, FrameWeights, Zenon
  <2>5. f.n <= peerConn
    <3>1. InFlight = Weight("DATA", Streams)[f] + InFlight'
      BY <2>1, <1>1, InFlightTake, Zenon
    <3>2. Weight("DATA", Streams)[f] = f.n
      BY <2>2, <2>3, <2>4, Zenon DEF Weight
    <3>3. InFlight' \in Nat
      <4>1. toPeer' \in Seq(Frames)
        BY <2>1, <1>1, TakeType, Zenon DEF ToPeerType
      <4> QED BY <4>1, BytesTotals, Zenon DEF InFlight
    <3>4. /\ Held \in Nat /\ Returning \in Nat /\ ConnSendWindow \in Int
      BY <1>1, ConnTotals, Zenon
    <3>5. ConnSendWindow >= 0
      BY <3>4, <1>1 DEF ConnCreditExact, TypeOK
    <3>6. ConnSendWindow + Held + InFlight + due + Returning = DefaultInitialWindow
      BY <1>1, Zenon DEF ConnCreditConserved, Held, InFlight, Returning
    <3>7. peerConn + due = DefaultInitialWindow
      BY <1>1, Zenon DEF PeerAccount
    <3> HIDE DEF f
    <3> QED BY <3>1, <3>2, <3>3, <3>4, <3>5, <3>6, <3>7, <2>4, <1>1
  <2>6. f.n <= peerInit + peerUsed[f.stream]
    <3>0. PICK s \in Streams : s = f.stream
      BY <2>4, SMTT(30)
    <3>1. /\ Len(toPeer) \in Nat \ {0}
          /\ \A j \in 0..(Len(toPeer) - 1) :
               /\ Partial(Sent(s))[j + 1] = f.n + Partial(Sent(s)')[j]
               /\ Partial(Acks)[j + 1] = 0 + Partial(Acks')[j]
      BY <2>1, <2>4, <3>0, <1>1, TakeTotals, ZenonT(30)
    <3>2. 0 \in 0..(Len(toPeer) - 1) /\ 0 + 1 = 1 /\ 1 \in 0..Len(toPeer)
      BY <3>1
    <3>3. Partial(Sent(s)')[0] = 0 /\ Partial(Acks')[0] = 0
      <4>1. toPeer' \in Seq(Frames)
        BY <2>1, <1>1, TakeType, Zenon DEF ToPeerType
      <4> QED BY <4>1, BytesTotals, CountTotals, ZenonT(30) DEF Sent, Acks
    <3>4. Partial(Sent(s))[1] = f.n /\ Partial(Acks)[1] = 0
      <4>1. Partial(Sent(s))[1] = f.n + 0 /\ Partial(Acks)[1] = 0 + 0
        BY <3>1, <3>2, <3>3, Zenon
      <4> DEFINE n == f.n
      <4>2. n \in Nat
        BY <2>4, Zenon
      <4> HIDE DEF n
      <4>3. n + 0 = n /\ 0 + 0 = 0
        BY <4>2
      <4> QED BY <4>1, <4>3, Zenon DEF n
    <3>5. acked + Partial(Acks)[1] = acked /\ 1 + acked + Partial(Acks)[1] = acked + 1
      BY <3>4, <1>1
    <3>6. Partial(Sent(s))[1] + dueStream[s] <= offered[acked + 1]
      <4>1. Raised(acked + Partial(Acks)[1])
        BY <3>5, <1>6, Zenon
      <4> QED BY <4>1, <3>2, <3>5, Zenon DEF Covered
    <3>7. peerUsed[s] + dueStream[s] = 0 /\ peerUsed[s] \in Int /\ dueStream[s] \in Nat
      BY <2>4, <1>1, Zenon DEF PeerAccount
    <3>8. peerInit = offered[acked + 1] /\ peerInit \in Nat
      <4>1. acked + 1 \in 1..Len(offered)
        BY <1>1, <1>3
      <4> QED BY <4>1, OfferedStep, <1>1, Zenon DEF peerInit
    <3> HIDE DEF f
    <3> QED BY <3>0, <3>4, <3>6, <3>7, <3>8, <2>4
  <2> QED BY <2>5, <2>6, Zenon
<1> QED BY <1>7, <1>8, Zenon


-----------------------------------------------------------------------------
(* FlowInv holds at the start. *)
LEMMA FlowInvInit ==
  ASSUME FlowInit
  PROVE  FlowInv
<1>1. LoopInv /\ ConnCreditExact
  <2>1. LoopInv
    BY LoopInit, Zenon
  <2>2. ConnCreditExact
    BY WindowAssumption, BoundAssumption DEF FlowInit, Init, ConnCreditExact
  <2> QED BY <2>1, <2>2, Zenon
<1>2. /\ toPeer = <<>> /\ fromPeer = <<>> /\ acked = 0 /\ reader = "read"
      /\ offered = <<DefaultInitialWindow>> /\ PeerInitWindow = DefaultInitialWindow
      /\ dueStream = [s \in Streams |-> 0] /\ got = [s \in Streams |-> 0]
      /\ SendWindow = [s \in Streams |-> 0] /\ pc = [s \in Streams |-> "new"]
      /\ streams = {} /\ windows = {} /\ overrun = FALSE
      /\ DefaultInitialWindow \in Nat
  BY WindowAssumption, BoundAssumption DEF FlowInit, Init
<1>3. /\ toPeer \in Seq(Frames) /\ Len(toPeer) = 0
      /\ fromPeer \in Seq(Frames) /\ Len(fromPeer) = 0
      /\ Len(offered) = 1 /\ offered[1] = DefaultInitialWindow
  BY <1>2
<1>4. /\ Total(Acks) = 0 /\ Partial(Acks)[0] = 0 /\ Total(Pending) = 0
      /\ \A s \in Streams : /\ Total(Sent(s)) = 0 /\ Partial(Sent(s))[0] = 0
                            /\ Total(Returned(s)) = 0
  <2>1. /\ Partial(Acks)[0] = 0 /\ Partial(Acks)[Len(toPeer)] = Total(Acks)
        /\ Partial(Pending)[0] = 0 /\ Partial(Pending)[Len(fromPeer)] = Total(Pending)
    BY <1>3, CountTotals, Zenon DEF Acks, Pending
  <2>2. ASSUME NEW s \in Streams
        PROVE  /\ Partial(Sent(s))[0] = 0 /\ Partial(Sent(s))[Len(toPeer)] = Total(Sent(s))
               /\ Partial(Returned(s))[0] = 0
               /\ Partial(Returned(s))[Len(fromPeer)] = Total(Returned(s))
    BY <1>3, BytesTotals, Zenon DEF Sent, Returned
  <2> QED BY <1>3, <2>1, <2>2, Zenon
<1>5. Applied = 0 /\ Taken = 0
  BY <1>2, <1>4 DEF Applied, Taken
<1>6. SettingsInOrder
  BY <1>2, <1>3, <1>4, <1>5 DEF SettingsInOrder, PendingInOrder
<1>7. Unopened /\ NoWrap /\ WithinWindow
  BY <1>2, <1>4, <1>5 DEF Unopened, NoWrap, WithinWindow
<1>8. Covered
  <2> SUFFICES ASSUME NEW s \in Streams, NEW i \in 0..Len(toPeer)
               PROVE  Partial(Sent(s))[i] + dueStream[s]
                        <= offered[1 + acked + Partial(Acks)[i]]
    BY Zenon DEF Covered
  <2>1. i = 0
    BY <1>3
  <2> QED BY <2>1, <1>2, <1>3, <1>4
<1>9. PeerNeverOverrun
  BY <1>2, Zenon DEF PeerNeverOverrun
<1> QED BY <1>1, <1>6, <1>7, <1>8, <1>9, Zenon DEF FlowInv

(* FlowInv is inductive. *)
LEMMA FlowInvStep ==
  ASSUME FlowInv, [FlowNext]_allVars
  PROVE  FlowInv'
<1>1. /\ LoopInv /\ ConnCreditExact /\ SettingsInOrder /\ Unopened /\ NoWrap /\ WithinWindow
      /\ Covered /\ PeerNeverOverrun
  BY Zenon DEF FlowInv
<1>2. TypeOK /\ FlowTypeOK /\ Reserved
  BY <1>1, Zenon DEF LoopInv
<1>3. LoopInv' /\ [Next]_vars
  BY <1>1, LoopStep, Zenon
<1>4. TypeOK' /\ FlowTypeOK'
  BY <1>3, Zenon DEF LoopInv
<1>5. ConnCreditExact'
  BY <1>1, <1>2, <1>3, ConnCreditStep, Zenon
<1>6. SettingsInOrder'
  BY <1>1, <1>2, SettingsStep, Zenon
<1>7. Unopened' /\ NoWrap'
  BY <1>1, <1>2, <1>3, <1>4, UnopenedStep, NoWrapStep, Zenon
<1>8. WithinWindow'
  BY <1>1, <1>2, <1>4, WithinStep, Zenon
<1>9. Covered'
  BY <1>1, <1>2, <1>4, <1>6, <1>8, CoveredStep, Zenon
<1>10. PeerNeverOverrun'
  BY <1>1, OverrunStep, Zenon
<1> QED BY <1>3, <1>5, <1>6, <1>7, <1>8, <1>9, <1>10, Zenon DEF FlowInv

(* Write and streamRequestBody respect the peer's windows at the peer: as   *)
(* long as the SETTINGS it has seen acknowledged never lowered its initial  *)
(* window, no DATA frame arrives for which the peer, by its own accounting, *)
(* has no credit left, neither on the connection nor on the stream, however *)
(* frames, SETTINGS and ACKs cross on the wire.                             *)
THEOREM NeverOverrun == FlowSpec => []PeerNeverOverrun
<1>1. FlowInit => FlowInv
  BY FlowInvInit, Zenon
<1>2. FlowInv /\ [FlowNext]_allVars => FlowInv'
  BY FlowInvStep, Zenon
<1>3. FlowInv => PeerNeverOverrun
  BY Zenon DEF FlowInv
<1> QED BY <1>1, <1>2, <1>3, PTL DEF FlowSpec


=============================================================================
