----------------------------- MODULE StreamBody -----------------------------
(***************************************************************************)
(* The body queue of one stream (internal/h2/stream.go): the frame reader  *)
(* pushes DATA chunks in pooled buffers and ends or fails the body; the    *)
(* handler (or, on the proxy, the forwarder) reads it.                     *)
(*                                                                         *)
(* A critical section of Stream.mu is one action.  PushData, CloseData and *)
(* FailBody notify the condition variable after they have unlocked, and    *)
(* FailBody cancels the context after that: todo lists what the frame      *)
(* reader still has to do in the handler of the current frame.  The        *)
(* handler looks the stream up first and uses it afterwards, and Release   *)
(* takes no lock: between the two the stream may be removed, drained and   *)
(* put back in its pool, and AcquireBody is its next use.                  *)
(***************************************************************************)
EXTENDS Totals

CONSTANTS
    Bufs,        \* buffers of the data pool
    NoBuf,       \* the nil pool handle
    MaxBytes,    \* bound: bytes sent on the stream
    MaxChunk,    \* bound: bytes in one DATA frame
    CompactAt,   \* 8 in the code: consumed slots before the queue is compacted
    ReadsAfterClose  \* whether the reader goes on reading a body it has closed

ASSUME BoundAssumption == /\ {MaxBytes, MaxChunk} \subseteq Nat \ {0}
                          /\ CompactAt \in Nat
                          /\ ReadsAfterClose \in BOOLEAN
ASSUME BufAssumption == NoBuf \notin Bufs

VARIABLES
    queue, qHead,        \* Stream.queue, and the number of consumed slots
    dataDone, dataErr,   \* dataErr: an error is set
    cancelled,           \* Stream.Ctx is cancelled
    bp, buf,             \* bodyReader: handle and unread bytes of its chunk
    free,                \* how often each buffer is in the data pool
    late,                \* buffers pushed after Release has drained the queue
    todo, gone,          \* the frame reader: see above; it tears down
    ended,               \* the peer has sent END_STREAM or RST_STREAM
    pc, want,            \* the body's reader, and the size of its Read
    closed,              \* it has called Close
    pushed, out, result  \* bytes pushed so far; bytes read; last outcome

body == <<bp, buf>>
reader == <<pc, want, closed, out, result>>
bodyVars == <<queue, qHead, dataDone, dataErr, cancelled, body, free, late,
              todo, gone, ended, reader, pushed>>

Chunk(b, data) == [bp |-> b, data |-> data]

NoChunk == Chunk(NoBuf, <<>>)

BodyInit ==
    /\ queue = <<>>
    /\ qHead = 0
    /\ dataDone = FALSE
    /\ dataErr = FALSE
    /\ cancelled = FALSE
    /\ bp = NoBuf
    /\ buf = <<>>
    /\ free = [b \in Bufs |-> 1]
    /\ late = {}
    /\ todo = <<>>
    /\ gone = FALSE
    /\ ended = FALSE
    /\ pc = "idle"
    /\ want = 0
    /\ closed = FALSE
    /\ pushed = 0
    /\ out = <<>>
    /\ result = "none"

(* PutDataSlice of the handles in the set bs. *)
Put(f, bs) == [b \in Bufs |-> IF b \in bs THEN f[b] + 1 ELSE f[b]]

-----------------------------------------------------------------------------
(* The frame reader. *)

(* The stream is the caller's from Acquire until Release has drained it.    *)
InUse == pc \notin {"drained", "released"}

(* GetStream finds the stream. *)
Ready == todo = <<>> /\ ~gone /\ InUse /\ pc # "removed"

LookUp(handler) ==
    /\ Ready
    /\ todo' = handler
    /\ UNCHANGED <<queue, qHead, dataDone, dataErr, cancelled, body, free, late,
                   reader, pushed>>

(* HandleInboundData with bytes; bound: MaxBytes, and a buffer is left.     *)
LookupData(endStream) ==
    /\ LookUp(IF endStream THEN <<"PushData", "CloseData">> ELSE <<"PushData">>)
    /\ ~ended
    /\ pushed < MaxBytes
    /\ \E b \in Bufs : free[b] > 0
    /\ ended' = endStream
    /\ UNCHANGED gone

(* An empty DATA frame, or HEADERS, with END_STREAM. *)
LookupEnd ==
    /\ LookUp(<<"CloseData">>)
    /\ ~ended
    /\ ended' = TRUE
    /\ UNCHANGED gone

(* HandleRSTStream, or FailAllStreams in the teardown. *)
LookupReset ==
    /\ LookUp(<<"FailBody">>)
    /\ ended' = TRUE
    /\ gone' \in BOOLEAN

(* Byte i of the stream has value i. *)
PushData(n) ==
    /\ todo # <<>> /\ Head(todo) = "PushData"
    /\ pushed + n <= MaxBytes
    /\ \E b \in Bufs :
          /\ free[b] > 0
          /\ free' = [free EXCEPT ![b] = @ - 1]
          /\ queue' = Append(queue, Chunk(b, [i \in 1..n |-> pushed + i]))
          /\ late' = IF InUse THEN late ELSE late \cup {b}
    /\ pushed' = pushed + n
    /\ todo' = <<"signal">> \o Tail(todo)
    /\ UNCHANGED <<ended, qHead, dataDone, dataErr, cancelled, body, gone, reader>>

(* Mutant: no Broadcast. *)
CloseData_silent ==
    /\ todo # <<>> /\ Head(todo) = "CloseData"
    /\ dataDone' = TRUE
    /\ todo' = <<>>
    /\ UNCHANGED <<ended, late, queue, qHead, dataErr, cancelled, body, free, gone, reader,
                   pushed>>

CloseData ==
    /\ todo # <<>> /\ Head(todo) = "CloseData"
    /\ dataDone' = TRUE
    /\ todo' = <<"signal">>
    /\ UNCHANGED <<ended, late, queue, qHead, dataErr, cancelled, body, free, gone, reader,
                   pushed>>

FailBody ==
    /\ todo # <<>> /\ Head(todo) = "FailBody"
    /\ dataErr' = TRUE
    /\ dataDone' = TRUE
    /\ todo' = <<"signal", "cancel">>
    /\ UNCHANGED <<ended, queue, qHead, cancelled, body, free, late, gone, reader,
                   pushed>>

(* cond.Signal or cond.Broadcast: a body has one reader. *)
Signal ==
    /\ todo # <<>> /\ Head(todo) = "signal"
    /\ pc' = IF pc = "parked" THEN "woken" ELSE pc
    /\ todo' = Tail(todo)
    /\ UNCHANGED <<ended, late, queue, qHead, dataDone, dataErr, cancelled, body, free, gone,
                   want, closed, out, result, pushed>>

CancelCtx ==
    /\ todo # <<>> /\ Head(todo) = "cancel"
    /\ cancelled' = TRUE
    /\ todo' = Tail(todo)
    /\ UNCHANGED <<ended, late, queue, qHead, dataDone, dataErr, body, free, gone, reader,
                   pushed>>

-----------------------------------------------------------------------------
(* bodyReader. *)

(* Mutant: the handle of a returned buffer is kept. *)
CopyOut_keep(n, b, data) ==
    LET k == IF n < Len(data) THEN n ELSE Len(data) IN
    /\ out' = out \o SubSeq(data, 1, k)
    /\ buf' = SubSeq(data, k + 1, Len(data))
    /\ bp' = b
    /\ free' = IF k = Len(data) THEN Put(free, {b} \ {NoBuf}) ELSE free
    /\ result' = "data"

(* Mutant: the buffer is returned after the first read of it. *)
CopyOut_first(n, b, data) ==
    LET k == IF n < Len(data) THEN n ELSE Len(data) IN
    /\ out' = out \o SubSeq(data, 1, k)
    /\ buf' = SubSeq(data, k + 1, Len(data))
    /\ bp' = NoBuf
    /\ free' = Put(free, {b} \ {NoBuf})
    /\ result' = "data"

(* Copy the first n bytes of data to the caller; the rest stays in buf, and *)
(* a buffer read to its end goes back to the pool.                          *)
CopyOut(n, b, data) ==
    LET k == IF n < Len(data) THEN n ELSE Len(data) IN
    /\ out' = out \o SubSeq(data, 1, k)
    /\ buf' = SubSeq(data, k + 1, Len(data))
    /\ IF k = Len(data)
       THEN bp' = NoBuf /\ free' = Put(free, {b} \ {NoBuf})
       ELSE bp' = b /\ UNCHANGED free
    /\ result' = "data"

MayRead == closed => ReadsAfterClose

ReadBuffered(n) ==
    /\ pc = "idle" /\ MayRead
    /\ buf # <<>>
    /\ CopyOut(n, bp, buf)
    /\ UNCHANGED <<ended, late, queue, qHead, dataDone, dataErr, cancelled, todo, gone, pc,
                   want, closed, pushed>>

(* Read with nothing buffered: entered afresh, or after cond.Wait.          *)
InRead(n) ==
    \/ pc = "idle" /\ MayRead /\ buf = <<>>
    \/ pc = "woken" /\ n = want

ReadWait(n) ==
    /\ InRead(n)
    /\ qHead = Len(queue) /\ ~dataDone
    /\ pc' = "parked"
    /\ want' = n
    /\ UNCHANGED <<ended, late, queue, qHead, dataDone, dataErr, cancelled, body, free, todo,
                   gone, closed, out, result, pushed>>

ReadEnd(n) ==
    /\ InRead(n)
    /\ qHead = Len(queue) /\ dataDone
    /\ result' = IF dataErr THEN "err" ELSE "eof"
    /\ pc' = "idle"
    /\ want' = 0
    /\ UNCHANGED <<ended, late, queue, qHead, dataDone, dataErr, cancelled, body, free, todo,
                   gone, closed, out, pushed>>

(* Drop the consumed slots once they are many and at least half of all.     *)
Compact(q, h) ==
    IF h > CompactAt /\ h * 2 >= Len(q)
    THEN queue' = SubSeq(q, h + 1, Len(q)) /\ qHead' = 0
    ELSE queue' = q /\ qHead' = h

ReadChunk(n) ==
    /\ InRead(n)
    /\ qHead < Len(queue)
    /\ LET chunk == queue[qHead + 1] IN CopyOut(n, chunk.bp, chunk.data)
    /\ Compact([queue EXCEPT ![qHead + 1] = NoChunk], qHead + 1)
    /\ pc' = "idle"
    /\ want' = 0
    /\ UNCHANGED <<ended, late, dataDone, dataErr, cancelled, todo, gone, closed, pushed>>

Queued == {queue[i].bp : i \in (qHead + 1)..Len(queue)} \ {NoBuf}

(* Close leaves buf alone. *)
Close ==
    /\ pc = "idle"
    /\ free' = Put(free, Queued \cup ({bp} \ {NoBuf}))
    /\ bp' = NoBuf
    /\ queue' = <<>>
    /\ qHead' = 0
    /\ closed' = TRUE
    /\ UNCHANGED <<ended, late, dataDone, dataErr, cancelled, buf, todo, gone, pc, want, out,
                   result, pushed>>

(* serveStream, or forward, is over.  serveStream ends with CloseData       *)
(* unless the handler panicked or the request target was not valid.         *)
HandlerReturns ==
    /\ pc = "idle"
    /\ dataDone' \in {TRUE, dataDone}
    /\ pc' = "returned"
    /\ UNCHANGED <<ended, late, queue, qHead, dataErr, cancelled, body, free, todo,
                   gone, want, closed, out, result, pushed>>

(* RemoveStream takes streamsMu, which FailAllStreams holds throughout. *)
Deregister ==
    /\ pc = "returned"
    /\ ~(gone /\ todo # <<>>)
    /\ pc' = "removed"
    /\ UNCHANGED <<ended, late, queue, qHead, dataDone, dataErr, cancelled, body, free,
                   todo, gone, want, closed, out, result, pushed>>

(* Release returns the buffers, without Stream.mu ... *)
DrainBody ==
    /\ pc = "removed"
    /\ cancelled' = TRUE
    /\ free' = Put(free, Queued \cup ({bp} \ {NoBuf}))
    /\ bp' = NoBuf
    /\ queue' = <<>>
    /\ qHead' = 0
    /\ pc' = "drained"
    /\ UNCHANGED <<ended, late, dataDone, dataErr, buf, todo, gone, want, closed, out,
                   result, pushed>>

(* ... and puts the stream in its pool.  It truncates the queue in a race   *)
(* with PushData: the append is lost, or stored after the truncation.       *)
ReleaseBody ==
    /\ pc = "drained"
    /\ queue' \in {<<>>, queue}
    /\ dataErr' = FALSE
    /\ pc' = "released"
    /\ UNCHANGED <<ended, late, qHead, dataDone, cancelled, body, free, todo, gone,
                   want, closed, out, result, pushed>>

(* What Acquire resets besides the queue.  A cancel that FailBody has taken *)
(* from the last use does nothing to this one.                              *)
ResetUse ==
    /\ dataDone' = FALSE
    /\ dataErr' = FALSE
    /\ cancelled' = FALSE
    /\ bp' = NoBuf
    /\ buf' = <<>>
    /\ gone' = FALSE
    /\ ended' = FALSE
    /\ pc' = "idle"
    /\ want' = 0
    /\ closed' = FALSE
    /\ pushed' = 0
    /\ out' = <<>>
    /\ result' = "none"
    /\ todo' = CASE todo = <<"cancel">> -> <<>>
                 [] todo = <<"signal", "cancel">> -> <<"signal">>
                 [] OTHER -> todo

(* Mutant: the queue of the last use is kept. *)
AcquireBody_stale ==
    /\ pc = "released"
    /\ ResetUse
    /\ UNCHANGED <<queue, qHead, free, late>>

(* Acquire, for the next stream.  The frame reader may still have to push   *)
(* or end what it looked up before; whose bytes it then pushes is what      *)
(* StreamPool asks.                                                         *)
AcquireBody ==
    /\ pc = "released"
    /\ queue' = <<>>
    /\ qHead' = 0
    /\ ResetUse
    /\ UNCHANGED <<free, late>>

-----------------------------------------------------------------------------
Sizes == 1..(MaxChunk + 1)

FrameReader ==
    \/ \E n \in 1..MaxChunk : PushData(n)
    \/ CloseData \/ FailBody \/ Signal \/ CancelCtx

Woken == pc = "woken" /\ \E n \in Sizes : ReadWait(n) \/ ReadEnd(n) \/ ReadChunk(n)

BodyNext ==
    \/ \E e \in BOOLEAN : LookupData(e)
    \/ LookupEnd \/ LookupReset \/ FrameReader
    \/ \E n \in Sizes : \/ ReadBuffered(n)
                        \/ ReadWait(n) \/ ReadEnd(n) \/ ReadChunk(n)
    \/ Close \/ HandlerReturns
    \/ Deregister \/ DrainBody \/ ReleaseBody \/ AcquireBody

BodySpec == BodyInit /\ [][BodyNext]_bodyVars

(* The frame reader finishes the handler of a frame, and a goroutine that   *)
(* was woken runs.  Neither the peer nor the body's reader has to act.      *)
FairSpec == BodySpec /\ WF_bodyVars(FrameReader) /\ WF_bodyVars(Woken)

-----------------------------------------------------------------------------
(* No lost wake-up, although the notification is sent outside the lock: a   *)
(* Read parked on the queue has nothing to return, or the frame reader is   *)
(* about to notify it.                                                      *)
ParkedHasNothing ==
    pc = "parked" => \/ qHead = Len(queue) /\ ~dataDone
                     \/ \E i \in DOMAIN todo : todo[i] = "signal"

(* How often buffer b is in the pool, in a queue slot that has not been     *)
(* consumed, or with the body reader.                                       *)
Places(b) ==
    free[b] + Cardinality({i \in (qHead + 1)..Len(queue) : queue[i].bp = b})
            + (IF bp = b THEN 1 ELSE 0)

(* No pooled buffer is ever in two places: reading to the end of a chunk,   *)
(* compaction, Close and Release return each once, in every order with the  *)
(* frame reader.  And one is lost in one way only: a DATA frame whose       *)
(* stream was found before RemoveStream and pushed after Release had        *)
(* drained the queue, which Release or Acquire then truncates.              *)
BuffersConserved ==
    \A b \in Bufs : Places(b) = 1 \/ (Places(b) = 0 /\ b \in late)

(* What Release is documented to do (stream.go:85, "drains and returns any  *)
(* queued DATA buffers"): no buffer is ever lost.  The code does not; it is *)
(* BuffersConserved without the late push.                                  *)
AllBuffersReturned == \A b \in Bufs : Places(b) = 1

(* Read only hands out bytes of a buffer the stream owns.  This holds while *)
(* nobody reads a body after closing it; with ReadsAfterClose it does not,  *)
(* since Close returns the buffer and keeps the slice into it.              *)
BufferedBytesOwned == buf # <<>> /\ MayRead /\ pc = "idle" => bp # NoBuf

(* A Read that has bytes or an end to report returns.                       *)
ReadReturns ==
    (pc = "parked" /\ (qHead < Len(queue) \/ dataDone)) ~> pc # "parked"

(* The queue implements BodyPipe, use after use: the reader gets what was   *)
(* pushed since Acquire, in order.  What Close, Release and Acquire drop    *)
(* leaves the pipe, and an error replaces a clean end.                      *)
Unread ==
    (IF bp = NoBuf THEN <<>> ELSE buf)
    \o Joined([i \in 1..(Len(queue) - qHead) |-> queue[qHead + i].data])

End == IF ~dataDone THEN "open" ELSE IF dataErr THEN "err" ELSE "eof"

Pipe == INSTANCE BodyPipe WITH pipe <- Unread, end <- End, inUse <- InUse

BodyInOrder == Pipe!Spec

=============================================================================
