------------------------------- MODULE Writer -------------------------------
(***************************************************************************)
(* The writer goroutine of a connection (internal/h2/writer.go) and the    *)
(* goroutines that hand frames to it.  Handlers call submit, which waits   *)
(* for the outcome on a pooled one-slot channel; the frame reader calls    *)
(* submitAsync, and on teardown SendGoAway, ShutdownWriter and Close.      *)
(*                                                                         *)
(* donePool is global to the process, so the connections of the model      *)
(* share it.  A pooled channel is any member of donePool: sync.Pool gives  *)
(* no order, and a channel nobody has used yet stands for a fresh one.     *)
(***************************************************************************)
EXTENDS Naturals, Sequences

CONSTANTS
    Conns,        \* connections; each stands for its frame reader goroutine too
    Handlers,     \* goroutines that submit frames
    HandlerConn,  \* the connection each handler writes to
    Chans,        \* done channels
    NoChan,       \* the nil channel of a fire-and-forget intent
    QSize,        \* writeQSize, 256 in the code
    MaxCalls      \* bound: frames submitted by one goroutine

ASSUME HandlerAssumption == HandlerConn \in [Handlers -> Conns]
ASSUME SizeAssumption == QSize \in Nat \ {0} /\ MaxCalls \in Nat \ {0}
ASSUME ChanAssumption == NoChan \notin Chans

Threads == Handlers \cup Conns

ConnOf(t) == IF t \in Conns THEN t ELSE HandlerConn[t]

VARIABLES
    writeQ,         \* per connection: intents queued for the writer
    writeShutdown, writeDeadCh,  \* per connection: these channels are closed
    wpc, cur,       \* per connection: where its writer is, and with what
    broken,         \* per connection: the transport fails writes
    wire,           \* per connection: set of frames written, <<thread, call>>
    donePool,       \* done channels in the pool
    buf,            \* contents of each done channel: results of intents
    pc,             \* where each goroutine is
    done,           \* the done channel each goroutine holds
    calls,          \* frames each goroutine has submitted
    result          \* what its submit is returning, and for which call

writerVars == <<writeDeadCh, wpc, cur, wire>>
threadVars == <<pc, done, calls, result>>
vars == <<writeQ, writeShutdown, writerVars, broken, donePool, buf, threadVars>>

InSubmit == {"enqueue", "wait", "return"}

Intent(t, d) == [owner |-> t, call |-> calls[t], done |-> d]

NoIntent == [owner |-> NoChan, call |-> 0, done |-> NoChan]

Result(i, err) == [owner |-> i.owner, call |-> i.call, err |-> err]

NoResult == Result(NoIntent, "none")

Init ==
    /\ writeQ = [c \in Conns |-> <<>>]
    /\ writeShutdown = [c \in Conns |-> FALSE]
    /\ writeDeadCh = [c \in Conns |-> FALSE]
    /\ wpc = [c \in Conns |-> "select"]
    /\ cur = [c \in Conns |-> NoIntent]
    /\ broken = [c \in Conns |-> FALSE]
    /\ wire = [c \in Conns |-> {}]
    /\ donePool = Chans
    /\ buf = [d \in Chans |-> <<>>]
    /\ pc = [t \in Threads |-> "idle"]
    /\ done = [t \in Threads |-> NoChan]
    /\ calls = [t \in Threads |-> 0]
    /\ result = [t \in Threads |-> NoResult]

-----------------------------------------------------------------------------
(* submit: take a done channel, enqueue, wait, give the channel back.       *)

(* Handlers submit when they like; a reader only its GOAWAY, on teardown.   *)
Submit(t) ==
    /\ \/ t \in Handlers /\ pc[t] = "idle" /\ calls[t] < MaxCalls
       \/ pc[t] = "goaway"
    /\ \E d \in donePool : /\ donePool' = donePool \ {d}
                           /\ done' = [done EXCEPT ![t] = d]
    /\ calls' = [calls EXCEPT ![t] = @ + 1]
    /\ pc' = [pc EXCEPT ![t] = "enqueue"]
    /\ UNCHANGED <<writeQ, writeShutdown, writerVars, broken, buf, result>>

Enqueue(t) ==
    /\ pc[t] = "enqueue"
    /\ Len(writeQ[ConnOf(t)]) < QSize
    /\ writeQ' = [writeQ EXCEPT ![ConnOf(t)] = Append(@, Intent(t, done[t]))]
    /\ pc' = [pc EXCEPT ![t] = "wait"]
    /\ UNCHANGED <<writeShutdown, writerVars, broken, donePool, buf, done,
                   calls, result>>

(* submit's select took writeDeadCh: return writeErr. *)
EnqueueDead(t) ==
    /\ pc[t] = "enqueue"
    /\ writeDeadCh[ConnOf(t)]
    /\ result' = [result EXCEPT ![t] = Result(Intent(t, done[t]), "err")]
    /\ pc' = [pc EXCEPT ![t] = "return"]
    /\ UNCHANGED <<writeQ, writeShutdown, writerVars, broken, donePool, buf,
                   done, calls>>

WaitDone(t) ==
    /\ pc[t] = "wait"
    /\ buf[done[t]] # <<>>
    /\ result' = [result EXCEPT ![t] = Head(buf[done[t]])]
    /\ buf' = [buf EXCEPT ![done[t]] = <<>>]
    /\ pc' = [pc EXCEPT ![t] = "return"]
    /\ UNCHANGED <<writeQ, writeShutdown, writerVars, broken, donePool, done,
                   calls>>

(* Mutant: submit gives up as soon as a shutdown is requested. *)
WaitDead_shutdown(t) ==
    /\ pc[t] = "wait"
    /\ writeShutdown[ConnOf(t)]
    /\ result' = [result EXCEPT ![t] = Result(Intent(t, done[t]), "err")]
    /\ pc' = [pc EXCEPT ![t] = "return"]
    /\ UNCHANGED <<writeQ, writeShutdown, writerVars, broken, donePool, buf,
                   done, calls>>

WaitDead_missing(t) == FALSE /\ UNCHANGED vars  \* mutant: no such select case

(* writeDeadCh is closed and nothing is in done: return writeErr. *)
WaitDead(t) ==
    /\ pc[t] = "wait"
    /\ writeDeadCh[ConnOf(t)]
    /\ buf[done[t]] = <<>>
    /\ result' = [result EXCEPT ![t] = Result(Intent(t, done[t]), "err")]
    /\ pc' = [pc EXCEPT ![t] = "return"]
    /\ UNCHANGED <<writeQ, writeShutdown, writerVars, broken, donePool, buf,
                   done, calls>>

(* submit's deferred function: empty the channel and pool it.  Afterwards a *)
(* handler is free, and teardown goes on to ShutdownWriter.                 *)
ReleaseDone(t) ==
    /\ pc[t] = "return"
    /\ buf' = [buf EXCEPT ![done[t]] = <<>>]
    /\ donePool' = donePool \cup {done[t]}
    /\ done' = [done EXCEPT ![t] = NoChan]
    /\ result' = [result EXCEPT ![t] = NoResult]
    /\ pc' = [pc EXCEPT ![t] = IF t \in Handlers THEN "idle" ELSE "shutdown"]
    /\ UNCHANGED <<writeQ, writeShutdown, writerVars, broken, calls>>

-----------------------------------------------------------------------------
(* The frame reader. *)

SubmitAsync(c) ==
    /\ pc[c] = "idle"
    /\ calls[c] < MaxCalls
    /\ \/ /\ Len(writeQ[c]) < QSize
          /\ writeQ' = [writeQ EXCEPT ![c] = Append(@, Intent(c, NoChan))]
       \/ /\ writeDeadCh[c]
          /\ UNCHANGED writeQ
    /\ calls' = [calls EXCEPT ![c] = @ + 1]
    /\ UNCHANGED <<writeShutdown, writerVars, broken, donePool, buf, pc, done,
                   result>>

(* Mutant: the GOAWAY is fire-and-forget. *)
Teardown_async(c) ==
    /\ pc[c] = "idle"
    /\ Len(writeQ[c]) < QSize
    /\ writeQ' = [writeQ EXCEPT ![c] = Append(@, [Intent(c, NoChan) EXCEPT !.call = @ + 1])]
    /\ calls' = [calls EXCEPT ![c] = @ + 1]
    /\ pc' = [pc EXCEPT ![c] = "shutdown"]
    /\ UNCHANGED <<writeShutdown, writerVars, broken, donePool, buf, done, result>>

(* serve's deferred teardown, after MarkDead and FailAllStreams. *)
Teardown(c) ==
    /\ pc[c] = "idle"
    /\ pc' = [pc EXCEPT ![c] = "goaway"]
    /\ UNCHANGED <<writeQ, writeShutdown, writerVars, broken, donePool, buf,
                   done, calls, result>>

ShutdownWriter(c) ==
    /\ pc[c] = "shutdown"
    /\ writeShutdown' = [writeShutdown EXCEPT ![c] = TRUE]
    /\ pc' = [pc EXCEPT ![c] = "join"]
    /\ UNCHANGED <<writeQ, writerVars, broken, donePool, buf, done, calls,
                   result>>

(* ShutdownWriter's wait is over; Close closes the transport. *)
Close(c) ==
    /\ pc[c] = "join"
    /\ writeDeadCh[c]
    /\ pc' = [pc EXCEPT ![c] = "closed"]
    /\ UNCHANGED <<writeQ, writeShutdown, writerVars, broken, donePool, buf,
                   done, calls, result>>

-----------------------------------------------------------------------------
(* runWriter. *)

TakeIntent(c) ==
    /\ wpc[c] = "select"
    /\ writeQ[c] # <<>>
    /\ cur' = [cur EXCEPT ![c] = Head(writeQ[c])]
    /\ writeQ' = [writeQ EXCEPT ![c] = Tail(@)]
    /\ wpc' = [wpc EXCEPT ![c] = "process"]
    /\ UNCHANGED <<writeShutdown, writeDeadCh, broken, wire, donePool, buf,
                   threadVars>>

(* Mutant: a failed write goes unnoticed. *)
ProcessIntent_unchecked(c) ==
    /\ wpc[c] = "process"
    /\ wpc' = [wpc EXCEPT ![c] = "reply-ok"]
    /\ wire' = IF broken[c] THEN wire
               ELSE [wire EXCEPT ![c] = @ \cup {<<cur[c].owner, cur[c].call>>}]
    /\ UNCHANGED <<writeQ, writeShutdown, writeDeadCh, cur, broken, donePool,
                   buf, threadVars>>

ProcessIntent(c) ==
    /\ wpc[c] = "process"
    /\ IF broken[c]
       THEN /\ wpc' = [wpc EXCEPT ![c] = "reply-err"]
            /\ UNCHANGED wire
       ELSE /\ wpc' = [wpc EXCEPT ![c] = "reply-ok"]
            /\ wire' = [wire EXCEPT ![c] = @ \cup {<<cur[c].owner, cur[c].call>>}]
    /\ UNCHANGED <<writeQ, writeShutdown, writeDeadCh, cur, broken, donePool,
                   buf, threadVars>>

(* intent.done <- err, on a channel with one slot. *)
Reply(i, err) ==
    \/ /\ i.done = NoChan
       /\ UNCHANGED buf
    \/ /\ i.done # NoChan
       /\ buf[i.done] = <<>>
       /\ buf' = [buf EXCEPT ![i.done] = <<Result(i, err)>>]

ReplyDone(c) ==
    /\ \/ /\ wpc[c] = "reply-ok"
          /\ Reply(cur[c], "ok")
          /\ wpc' = [wpc EXCEPT ![c] = "select"]
       \/ /\ wpc[c] = "reply-err"
          /\ Reply(cur[c], "err")
          /\ wpc' = [wpc EXCEPT ![c] = "exit"]
    /\ cur' = [cur EXCEPT ![c] = NoIntent]
    /\ UNCHANGED <<writeQ, writeShutdown, writeDeadCh, broken, wire, donePool,
                   threadVars>>

ObserveShutdown(c) ==
    /\ wpc[c] = "select"
    /\ writeShutdown[c]
    /\ wpc' = [wpc EXCEPT ![c] = "exit"]
    /\ UNCHANGED <<writeQ, writeShutdown, writeDeadCh, cur, broken, wire,
                   donePool, buf, threadVars>>

(* The deferred function: set writeErr, close writeDeadCh ... *)
CloseDeadCh(c) ==
    /\ wpc[c] = "exit"
    /\ writeDeadCh' = [writeDeadCh EXCEPT ![c] = TRUE]
    /\ wpc' = [wpc EXCEPT ![c] = "drain"]
    /\ UNCHANGED <<writeQ, writeShutdown, cur, broken, wire, donePool, buf,
                   threadVars>>

(* ... and answer what is still queued. *)
DrainIntent(c) ==
    /\ wpc[c] = "drain"
    /\ writeQ[c] # <<>>
    /\ Reply(Head(writeQ[c]), "err")
    /\ writeQ' = [writeQ EXCEPT ![c] = Tail(@)]
    /\ UNCHANGED <<writeShutdown, writerVars, broken, donePool, threadVars>>

WriterExits(c) ==
    /\ wpc[c] = "drain"
    /\ writeQ[c] = <<>>
    /\ wpc' = [wpc EXCEPT ![c] = "dead"]
    /\ UNCHANGED <<writeQ, writeShutdown, writeDeadCh, cur, broken, wire,
                   donePool, buf, threadVars>>

(* The peer or the network drops the connection. *)
Break(c) ==
    /\ ~broken[c]
    /\ broken' = [broken EXCEPT ![c] = TRUE]
    /\ UNCHANGED <<writeQ, writeShutdown, writerVars, donePool, buf, threadVars>>

-----------------------------------------------------------------------------
RunWriter(c) ==
    \/ TakeIntent(c) \/ ProcessIntent(c) \/ ReplyDone(c)
    \/ ObserveShutdown(c) \/ CloseDeadCh(c) \/ DrainIntent(c) \/ WriterExits(c)

Continue(t) ==
    \/ Enqueue(t) \/ EnqueueDead(t) \/ WaitDone(t) \/ WaitDead(t)
    \/ ReleaseDone(t)

ReaderTeardown(c) == ShutdownWriter(c) \/ Close(c) \/ (pc[c] = "goaway" /\ Submit(c))

Next ==
    \/ \E t \in Threads : Submit(t) \/ Continue(t)
    \/ \E c \in Conns : \/ SubmitAsync(c) \/ Teardown(c)
                        \/ ShutdownWriter(c) \/ Close(c)
                        \/ RunWriter(c) \/ Break(c)

Spec == Init /\ [][Next]_vars

(* Goroutines are scheduled and a write to the transport returns (with a    *)
(* result or an error).  Nobody is obliged to submit or to tear down.       *)
Fairness ==
    /\ \A t \in Threads : WF_vars(Continue(t))
    /\ \A c \in Conns : WF_vars(RunWriter(c)) /\ WF_vars(ReaderTeardown(c))

FairSpec == Spec /\ Fairness

-----------------------------------------------------------------------------
Intents == [owner : Threads \cup {NoChan}, call : Nat, done : Chans \cup {NoChan}]
Results == [owner : Threads \cup {NoChan}, call : Nat, err : {"none", "ok", "err"}]

(* The shapes of the state; writeQ and the done channels keep within their  *)
(* capacities.                                                              *)
TypeOK ==
    /\ writeQ \in [Conns -> Seq(Intents)]
    /\ \A c \in Conns : Len(writeQ[c]) <= QSize
    /\ writeShutdown \in [Conns -> BOOLEAN]
    /\ writeDeadCh \in [Conns -> BOOLEAN]
    /\ wpc \in [Conns -> {"select", "process", "reply-ok", "reply-err", "exit",
                          "drain", "dead"}]
    /\ cur \in [Conns -> Intents]
    /\ broken \in [Conns -> BOOLEAN]
    /\ wire \in [Conns -> SUBSET ((Threads \cup {NoChan}) \X Nat)]
    /\ donePool \subseteq Chans
    /\ buf \in [Chans -> Seq(Results)]
    /\ \A d \in Chans : Len(buf[d]) <= 1
    /\ pc \in [Threads -> InSubmit \cup {"idle", "goaway", "shutdown", "join", "closed"}]
    /\ done \in [Threads -> Chans \cup {NoChan}]
    /\ calls \in [Threads -> Nat]
    /\ result \in [Threads -> Results]

(* submit is synchronous: while the writer encodes a frame whose submitter  *)
(* waits for the outcome, that submitter is still inside the same submit.   *)
(* Otherwise the header map or the body slice of the intent is back in the  *)
(* handler's hands while the writer reads it.                               *)
SubmitterWaitsForWrite ==
    \A c \in Conns :
        LET i == cur[c] IN
        wpc[c] = "process" /\ i.done # NoChan =>
            /\ pc[i.owner] = "wait"
            /\ calls[i.owner] = i.call

(* submit returns the outcome of the frame it was given: a nil error means  *)
(* that very frame is on the wire.                                          *)
NilMeansWritten ==
    \A t \in Threads :
        pc[t] = "return" /\ result[t].err = "ok" =>
            <<t, calls[t]>> \in wire[ConnOf(t)]

(* Teardown puts its GOAWAY on a healthy transport before it closes it, and *)
(* the writer goroutine has stopped writing by then.                        *)
GoAwayBeforeClose ==
    \A c \in Conns :
        pc[c] = "closed" => /\ wpc[c] \in {"drain", "dead"}
                            /\ broken[c] \/ <<c, calls[c]>> \in wire[c]

(* Every submit returns, also when it is enqueued while the writer exits.   *)
SubmitReturns ==
    \A t \in Threads : pc[t] \in InSubmit ~> pc[t] \notin InSubmit

(* Teardown terminates: GOAWAY is answered and the writer goroutine joins.  *)
TeardownCompletes == \A c \in Conns : pc[c] = "goaway" ~> pc[c] = "closed"

=============================================================================
