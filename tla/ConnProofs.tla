----------------------------- MODULE ConnProofs -----------------------------
(***************************************************************************)
(* Proofs about the two halves of a connection: its writer goroutine       *)
(* (module Writer) and its read-idle watchdog (module Watchdog).           *)
(*                                                                         *)
(* Writer: types hold for any number of connections; the rest is for a     *)
(* process with one connection, whatever the number of goroutines that     *)
(* submit and the size of the queue: donePool is global, and with two      *)
(* connections SubmitterWaitsForWrite fails.                               *)
(*                                                                         *)
(* Watchdog: for all values of the intervals with AnswerTime <=            *)
(* PingTimeout < PingInterval, a silent peer is given up within two idle   *)
(* intervals, and one that answers in time never is.                       *)
(***************************************************************************)
EXTENDS Writer, Watchdog, TLAPS

-----------------------------------------------------------------------------
(* The writer goroutine and submit. *)

SingleConn == \A c, d \in Conns : c = d

(* A thread belongs to one connection. *)
LEMMA ConnOfType == \A t \in Threads : ConnOf(t) \in Conns
BY HandlerAssumption, Zenon DEF Threads, ConnOf

(* A goroutine inside submit has a done channel. *)
Holding == \A t \in Threads : pc[t] \in InSubmit => done[t] \in Chans

(* Every step keeps the shapes, one case for each action. *)
LEMMA StepType == TypeOK /\ Holding /\ [Next]_vars => TypeOK' /\ Holding'
<1> SUFFICES ASSUME TypeOK, Holding, [Next]_vars PROVE TypeOK' /\ Holding'
  BY Zenon
<1> USE SizeAssumption, ChanAssumption, ConnOfType DEF TypeOK, Holding, InSubmit
<1>1. ASSUME NEW t \in Threads, Submit(t) PROVE TypeOK' /\ Holding'
  <2> PICK d \in donePool : done' = [done EXCEPT ![t] = d] /\ donePool' = donePool \ {d}
    BY <1>1, Zenon DEF Submit
  <2> QED
    BY <1>1 DEF Submit, writerVars
<1>2. ASSUME NEW t \in Threads, Enqueue(t) PROVE TypeOK' /\ Holding'
  <2>1. Intent(t, done[t]) \in Intents
    BY Zenon DEF Intent, Intents
  <2>2. /\ Append(writeQ[ConnOf(t)], Intent(t, done[t])) \in Seq(Intents)
        /\ Len(Append(writeQ[ConnOf(t)], Intent(t, done[t]))) <= QSize
    BY <1>2, <2>1 DEF Enqueue
  <2>3. /\ writeQ' \in [Conns -> Seq(Intents)]
        /\ \A c \in Conns : Len(writeQ'[c]) <= QSize
    BY <1>2, <2>2, Zenon DEF Enqueue
  <2> QED
    BY <1>2, <2>3, Zenon DEF Enqueue, writerVars
<1>3. ASSUME NEW t \in Threads, EnqueueDead(t) \/ WaitDead(t) PROVE TypeOK' /\ Holding'
  <2>1. Result(Intent(t, done[t]), "err") \in Results
    BY Zenon DEF Intent, Result, Results
  <2> DEFINE r == Result(Intent(t, done[t]), "err")
  <2>2. result' = [result EXCEPT ![t] = r] /\ pc' = [pc EXCEPT ![t] = "return"]
    BY <1>3, Zenon DEF EnqueueDead, WaitDead
  <2>3. result' \in [Threads -> Results]
    BY <2>1, <2>2, Zenon
  <2>4. UNCHANGED <<writeQ, writeShutdown, writerVars, broken, donePool, buf, done, calls>>
    BY <1>3, Zenon DEF EnqueueDead, WaitDead
  <2>5. pc[t] \in InSubmit
    BY <1>3, Zenon DEF EnqueueDead, WaitDead
  <2> QED
    BY <2>2, <2>3, <2>4, <2>5, Zenon DEF writerVars
<1>4. ASSUME NEW t \in Threads, WaitDone(t) PROVE TypeOK' /\ Holding'
  <2>1. Head(buf[done[t]]) \in Results
    BY <1>4 DEF WaitDone
  <2>2. /\ buf' \in [Chans -> Seq(Results)]
        /\ \A d \in Chans : Len(buf'[d]) <= 1
    BY <1>4 DEF WaitDone
  <2> QED
    BY <1>4, <2>1, <2>2, Zenon DEF WaitDone, writerVars
<1>5. ASSUME NEW t \in Threads, ReleaseDone(t) PROVE TypeOK' /\ Holding'
  <2>1. NoResult \in Results
    BY Zenon DEF NoResult, NoIntent, Result, Results
  <2>2. /\ buf' \in [Chans -> Seq(Results)]
        /\ \A d \in Chans : Len(buf'[d]) <= 1
    BY <1>5 DEF ReleaseDone
  <2> QED
    BY <1>5, <2>1, <2>2, Zenon DEF ReleaseDone, writerVars
<1>6. ASSUME NEW c \in Conns, SubmitAsync(c) PROVE TypeOK' /\ Holding'
  <2>1. c \in Threads /\ Intent(c, NoChan) \in Intents
    BY Zenon DEF Intent, Intents, Threads
  <2>2. Len(writeQ[c]) < QSize => /\ Append(writeQ[c], Intent(c, NoChan)) \in Seq(Intents)
                                  /\ Len(Append(writeQ[c], Intent(c, NoChan))) <= QSize
    BY <2>1
  <2>3. /\ writeQ' \in [Conns -> Seq(Intents)]
        /\ \A k \in Conns : Len(writeQ'[k]) <= QSize
    <3> DEFINE q == Append(writeQ[c], Intent(c, NoChan))
    <3>1. CASE Len(writeQ[c]) < QSize /\ writeQ' = [writeQ EXCEPT ![c] = q]
      <4>1. q \in Seq(Intents) /\ Len(q) <= QSize
        BY <2>2, <3>1, Zenon
      <4> QED
        BY <3>1, <4>1, Zenon
    <3>2. CASE writeQ' = writeQ
      BY <3>2, Zenon
    <3> QED
      BY <1>6, <3>1, <3>2, Zenon DEF SubmitAsync
  <2>4. calls' \in [Threads -> Nat]
    BY <1>6, <2>1 DEF SubmitAsync
  <2>5. UNCHANGED <<writeShutdown, writerVars, broken, donePool, buf, pc, done, result>>
    BY <1>6, Zenon DEF SubmitAsync
  <2> QED
    BY <2>3, <2>4, <2>5, Zenon DEF writerVars
<1>7. ASSUME NEW c \in Conns, Teardown(c) \/ ShutdownWriter(c) \/ Close(c)
      PROVE  TypeOK' /\ Holding'
  <2>1. /\ \E l \in {"goaway", "join", "closed"} : pc' = [pc EXCEPT ![c] = l]
        /\ UNCHANGED <<writeQ, writerVars, broken, donePool, buf, done, calls, result>>
    BY <1>7, Zenon DEF Teardown, ShutdownWriter, Close
  <2>2. writeShutdown' = writeShutdown \/ writeShutdown' = [writeShutdown EXCEPT ![c] = TRUE]
    BY <1>7, Zenon DEF Teardown, ShutdownWriter, Close
  <2>3. writeShutdown' \in [Conns -> BOOLEAN]
    BY <2>2, Zenon
  <2>4. pc' \in [Threads -> InSubmit \cup {"idle", "goaway", "shutdown", "join", "closed"}]
    BY <2>1, Zenon
  <2>5. Holding'
    BY <2>1, Zenon
  <2> QED
    BY <2>1, <2>3, <2>4, <2>5, Zenon DEF writerVars
<1>8. ASSUME NEW c \in Conns, TakeIntent(c) PROVE TypeOK' /\ Holding'
  <2>1. /\ Head(writeQ[c]) \in Intents
        /\ Tail(writeQ[c]) \in Seq(Intents)
        /\ Len(Tail(writeQ[c])) <= QSize
    BY <1>8 DEF TakeIntent
  <2> QED
    BY <1>8, <2>1, Zenon DEF TakeIntent, threadVars
<1>9. ASSUME NEW c \in Conns, ProcessIntent(c) PROVE TypeOK' /\ Holding'
  <2>1. <<cur[c].owner, cur[c].call>> \in (Threads \cup {NoChan}) \X Nat
    BY Zenon DEF Intents
  <2>2. wire' \in [Conns -> SUBSET ((Threads \cup {NoChan}) \X Nat)]
    <3>1. CASE wire' = wire
      BY <3>1, Zenon
    <3>2. CASE wire' = [wire EXCEPT ![c] = @ \cup {<<cur[c].owner, cur[c].call>>}]
      <4>1. wire[c] \cup {<<cur[c].owner, cur[c].call>>}
               \in SUBSET ((Threads \cup {NoChan}) \X Nat)
        BY <2>1, Zenon
      <4> QED
        BY <3>2, <4>1, Zenon
    <3> QED
      BY <1>9, <3>1, <3>2, Zenon DEF ProcessIntent
  <2>3. wpc' = [wpc EXCEPT ![c] = "reply-err"] \/ wpc' = [wpc EXCEPT ![c] = "reply-ok"]
    BY <1>9, Zenon DEF ProcessIntent
  <2>4. UNCHANGED <<writeQ, writeShutdown, writeDeadCh, cur, broken, donePool, buf, threadVars>>
    BY <1>9, Zenon DEF ProcessIntent
  <2> QED
    BY <2>2, <2>3, <2>4, Zenon DEF threadVars
<1>10. ASSUME NEW i \in Intents, NEW e \in {"ok", "err"}, Reply(i, e)
       PROVE  buf' \in [Chans -> Seq(Results)] /\ \A d \in Chans : Len(buf'[d]) <= 1
  <2>1. Result(i, e) \in Results
    BY Zenon DEF Intents, Results, Result
  <2>2. <<Result(i, e)>> \in Seq(Results) /\ Len(<<Result(i, e)>>) <= 1
    BY <2>1
  <2>3. i.done \in Chans \cup {NoChan}
    BY Zenon DEF Intents
  <2>4. CASE buf' = buf
    BY <2>4, Zenon
  <2>5. CASE i.done # NoChan /\ buf' = [buf EXCEPT ![i.done] = <<Result(i, e)>>]
    BY <2>2, <2>3, <2>5, Zenon
  <2> QED
    BY <1>10, <2>4, <2>5, Zenon DEF Reply
<1>11. ASSUME NEW c \in Conns, ReplyDone(c) PROVE TypeOK' /\ Holding'
  <2>1. NoIntent \in Intents
    BY Zenon DEF NoIntent, Intents
  <2>2. buf' \in [Chans -> Seq(Results)] /\ \A d \in Chans : Len(buf'[d]) <= 1
    BY <1>10, <1>11, Zenon DEF ReplyDone
  <2> QED
    BY <1>11, <2>1, <2>2, Zenon DEF ReplyDone, threadVars
<1>12. ASSUME NEW c \in Conns, ObserveShutdown(c) \/ CloseDeadCh(c) \/ WriterExits(c)
       PROVE  TypeOK' /\ Holding'
  BY <1>12, Zenon DEF ObserveShutdown, CloseDeadCh, WriterExits, threadVars
<1>13. ASSUME NEW c \in Conns, DrainIntent(c) PROVE TypeOK' /\ Holding'
  <2>1. /\ Head(writeQ[c]) \in Intents
        /\ Tail(writeQ[c]) \in Seq(Intents)
        /\ Len(Tail(writeQ[c])) <= QSize
    BY <1>13 DEF DrainIntent
  <2>2. buf' \in [Chans -> Seq(Results)] /\ \A d \in Chans : Len(buf'[d]) <= 1
    BY <1>10, <1>13, <2>1, Zenon DEF DrainIntent
  <2> QED
    BY <1>13, <2>1, <2>2, Zenon DEF DrainIntent, writerVars, threadVars
<1>14. ASSUME NEW c \in Conns, Break(c) PROVE TypeOK' /\ Holding'
  BY <1>14, Zenon DEF Break, writerVars, threadVars
<1>15. CASE UNCHANGED vars
  BY <1>15, Zenon DEF vars, writerVars, threadVars
<1> QED
  BY <1>1, <1>2, <1>3, <1>4, <1>5, <1>6, <1>7, <1>8, <1>9, <1>11, <1>12, <1>13, <1>14,
     <1>15, Zenon DEF Next, Continue, RunWriter

-----------------------------------------------------------------------------
(* A done channel has one holder, which has taken it out of donePool. *)
Exclusive ==
    /\ \A t \in Threads : pc[t] \in InSubmit => done[t] \notin donePool
    /\ \A t, u \in Threads :
          pc[t] \in InSubmit /\ pc[u] \in InSubmit /\ done[t] = done[u] => t = u

(* writeDeadCh is closed last; the writer stops for a failed write or when  *)
(* teardown asks for it, and says ok only for what is on the wire.          *)
Death ==
    \A c \in Conns :
        /\ writeDeadCh[c] <=> wpc[c] \in {"drain", "dead"}
        /\ writeShutdown[c] <=> pc[c] \in {"join", "closed"}
        /\ pc[c] = "closed" => writeDeadCh[c]
        /\ wpc[c] = "reply-err" => broken[c]
        /\ wpc[c] \in {"exit", "drain", "dead"} => broken[c] \/ writeShutdown[c]
        /\ wpc[c] = "reply-ok" => <<cur[c].owner, cur[c].call>> \in wire[c]

(* The submitter of a synchronous intent is in the same submit, unanswered. *)
Live(i) ==
    i.done # NoChan =>
        /\ i.owner \in Threads
        /\ pc[i.owner] = "wait"
        /\ calls[i.owner] = i.call
        /\ done[i.owner] = i.done
        /\ buf[i.done] = <<>>

InHand(c) == wpc[c] \in {"process", "reply-ok", "reply-err"}

Apart(i, j) == i.done = NoChan \/ i.done # j.done

(* Until writeDeadCh is closed, whatever the writer has or will take is     *)
(* live, and no two intents share a channel.                                *)
Pending ==
    \A c \in Conns : ~writeDeadCh[c] =>
        /\ InHand(c) => Live(cur[c])
        /\ \A k \in 1..Len(writeQ[c]) :
              /\ Live(writeQ[c][k])
              /\ InHand(c) => Apart(cur[c], writeQ[c][k])
              /\ \A j \in 1..Len(writeQ[c]) : j # k => Apart(writeQ[c][j], writeQ[c][k])

(* The result in d is waited for by the goroutine whose frame it is about. *)
Awaited(d) ==
    LET r == Head(buf[d]) IN
    r.owner \in Threads /\ pc[r.owner] = "wait" /\ done[r.owner] = d

(* A result is awaited while the writer lives; ok is always awaited, for    *)
(* the very frame; and an error has a reason.                               *)
Replies ==
    \A c \in Conns, d \in Chans : buf[d] # <<>> =>
        LET r == Head(buf[d]) IN
        /\ ~writeDeadCh[c] \/ r.err = "ok" => Awaited(d)
        /\ r.err = "ok" => calls[r.owner] = r.call /\ <<r.owner, r.call>> \in wire[c]
        /\ r.err = "ok" \/ broken[c] \/ writeShutdown[c]

(* Teardown goes past SendGoAway only with the GOAWAY out, or no transport. *)
GoAwayOut ==
    \A c \in Conns :
        pc[c] \in {"return", "shutdown", "join", "closed"} =>
            broken[c] \/ <<c, calls[c]>> \in wire[c]

IInv == /\ TypeOK /\ Holding /\ Exclusive /\ Death
        /\ Pending /\ Replies /\ GoAwayOut /\ NilMeansWritten

(* A done channel goes to one thread at a time, whatever step is taken. *)
LEMMA StepExclusive == TypeOK /\ Holding /\ Exclusive /\ [Next]_vars => Exclusive'
<1> SUFFICES ASSUME TypeOK, Holding, Exclusive, [Next]_vars PROVE Exclusive'
  BY Zenon
<1> pc \in [Threads -> InSubmit \cup {"idle", "goaway", "shutdown", "join", "closed"}]
    /\ done \in [Threads -> Chans \cup {NoChan}] /\ donePool \subseteq Chans
  BY Zenon DEF TypeOK
<1> USE ChanAssumption DEF Holding, Exclusive, InSubmit
<1>1. ASSUME NEW t \in Threads, Submit(t) PROVE Exclusive'
  <2>1. PICK d \in donePool : donePool' = donePool \ {d} /\ done' = [done EXCEPT ![t] = d]
    BY <1>1, Zenon DEF Submit
  <2>2. pc' = [pc EXCEPT ![t] = "enqueue"]
    BY <1>1, Zenon DEF Submit
  <2> QED
    BY <2>1, <2>2
<1>2. ASSUME NEW t \in Threads, pc[t] \in InSubmit, NEW l \in InSubmit,
             pc' = [pc EXCEPT ![t] = l], UNCHANGED <<done, donePool>>
      PROVE  Exclusive'
  BY <1>2, Zenon
<1>3. ASSUME NEW t \in Threads,
             Enqueue(t) \/ EnqueueDead(t) \/ WaitDone(t) \/ WaitDead(t)
      PROVE  Exclusive'
  BY <1>2, <1>3, Zenon DEF Enqueue, EnqueueDead, WaitDone, WaitDead
<1>4. ASSUME NEW t \in Threads, ReleaseDone(t) PROVE Exclusive'
  <2>1. /\ pc[t] = "return"
        /\ donePool' = donePool \cup {done[t]}
        /\ done' = [done EXCEPT ![t] = NoChan]
        /\ \E l \in {"idle", "shutdown"} : pc' = [pc EXCEPT ![t] = l]
    BY <1>4, Zenon DEF ReleaseDone
  <2> QED
    BY <2>1, Zenon
<1>5. ASSUME NEW c \in Conns, Teardown(c) \/ ShutdownWriter(c) \/ Close(c) PROVE Exclusive'
  <2>1. /\ UNCHANGED <<done, donePool>>
        /\ \E l \in {"goaway", "join", "closed"} : pc' = [pc EXCEPT ![c] = l]
    BY <1>5, Zenon DEF Teardown, ShutdownWriter, Close
  <2> QED
    BY <2>1, Zenon
<1>6. CASE UNCHANGED <<pc, done, donePool>>
  BY <1>6, Zenon
<1>7. ASSUME NEW c \in Conns, SubmitAsync(c) \/ RunWriter(c) \/ Break(c)
      PROVE  UNCHANGED <<pc, done, donePool>>
  BY <1>7, Zenon DEF SubmitAsync, RunWriter, Break, TakeIntent, ProcessIntent, ReplyDone,
              ObserveShutdown, CloseDeadCh, DrainIntent, WriterExits, threadVars
<1> QED
  BY <1>1, <1>3, <1>4, <1>5, <1>6, <1>7, Zenon DEF Next, Continue, vars, threadVars

(* The writer stops only for a failed write or a teardown, and says so.     *)
LEMMA StepDeath == TypeOK /\ Death /\ [Next]_vars => Death'
<1> SUFFICES ASSUME TypeOK, Death, [Next]_vars PROVE Death'
  BY Zenon
<1> /\ pc \in [Threads -> InSubmit \cup {"idle", "goaway", "shutdown", "join", "closed"}]
    /\ DOMAIN wpc = Conns /\ DOMAIN cur = Conns /\ DOMAIN wire = Conns
    /\ wpc = [c \in Conns |-> wpc[c]] /\ wire = [c \in Conns |-> wire[c]]
    /\ writeShutdown \in [Conns -> BOOLEAN] /\ writeDeadCh \in [Conns -> BOOLEAN]
    /\ broken \in [Conns -> BOOLEAN]
  BY Zenon DEF TypeOK
<1> USE DEF Death, Threads
<1>1. ASSUME UNCHANGED <<writeShutdown, writerVars, broken>>,
             \A c \in Conns : /\ pc'[c] = "join" <=> pc[c] = "join"
                              /\ pc'[c] = "closed" <=> pc[c] = "closed"
      PROVE  Death'
  BY <1>1, Zenon DEF writerVars
<1>2. ASSUME NEW t \in Threads, Submit(t) \/ Continue(t) PROVE Death'
  <2>1. UNCHANGED <<writeShutdown, writerVars, broken>>
    BY <1>2, Zenon DEF Submit, Continue, Enqueue, EnqueueDead, WaitDone, WaitDead, ReleaseDone
  <2>2. /\ pc[t] \in {"idle", "goaway", "enqueue", "wait", "return"}
        /\ \E l \in {"enqueue", "wait", "return", "idle", "shutdown"} :
              pc' = [pc EXCEPT ![t] = l]
    BY <1>2, Zenon DEF Submit, Continue, Enqueue, EnqueueDead, WaitDone, WaitDead, ReleaseDone
  <2> QED
    BY <1>1, <2>1, <2>2, Zenon
<1>3. ASSUME NEW c \in Conns, SubmitAsync(c) PROVE Death'
  BY <1>1, <1>3, Zenon DEF SubmitAsync
<1>4. ASSUME NEW c \in Conns, Teardown(c) PROVE Death'
  BY <1>1, <1>4, Zenon DEF Teardown
<1>5. ASSUME NEW c \in Conns, ShutdownWriter(c) PROVE Death'
  BY <1>5, Zenon DEF ShutdownWriter, writerVars
<1>6. ASSUME NEW c \in Conns, Close(c) PROVE Death'
  BY <1>6, Zenon DEF Close, writerVars
<1>7. ASSUME NEW c \in Conns, TakeIntent(c) PROVE Death'
  BY <1>7, Zenon DEF TakeIntent, threadVars
<1>8. ASSUME NEW c \in Conns, ProcessIntent(c) PROVE Death'
  <2>1. UNCHANGED <<writeShutdown, writeDeadCh, cur, broken, pc>> /\ wpc[c] = "process"
    BY <1>8, Zenon DEF ProcessIntent, threadVars
  <2>2. CASE broken[c]
    <3>1. wpc' = [wpc EXCEPT ![c] = "reply-err"] /\ wire' = wire
      BY <1>8, <2>2, Zenon DEF ProcessIntent
    <3> QED
      BY <2>1, <2>2, <3>1, Zenon
  <2>3. CASE ~broken[c]
    <3>1. /\ wpc' = [wpc EXCEPT ![c] = "reply-ok"]
          /\ wire' = [wire EXCEPT ![c] = @ \cup {<<cur[c].owner, cur[c].call>>}]
      BY <1>8, <2>3, Zenon DEF ProcessIntent
    <3> QED
      BY <2>1, <3>1, Zenon
  <2> QED
    BY <2>2, <2>3, Zenon
<1>9. ASSUME NEW c \in Conns, ReplyDone(c) PROVE Death'
  <2>1. /\ UNCHANGED <<writeShutdown, writeDeadCh, wire, broken, pc>>
        /\ \E i : cur' = [cur EXCEPT ![c] = i]
        /\ \/ wpc[c] = "reply-ok" /\ wpc' = [wpc EXCEPT ![c] = "select"]
           \/ wpc[c] = "reply-err" /\ wpc' = [wpc EXCEPT ![c] = "exit"]
    BY <1>9, Zenon DEF ReplyDone, threadVars
  <2>2. CASE wpc[c] = "reply-ok" /\ wpc' = [wpc EXCEPT ![c] = "select"]
    BY <2>1, <2>2, Zenon
  <2>3. CASE wpc[c] = "reply-err" /\ wpc' = [wpc EXCEPT ![c] = "exit"]
    BY <2>1, <2>3, Zenon
  <2> QED
    BY <2>1, <2>2, <2>3, Zenon
<1>10. ASSUME NEW c \in Conns, ObserveShutdown(c) PROVE Death'
  BY <1>10, Zenon DEF ObserveShutdown, threadVars
<1>11. ASSUME NEW c \in Conns, CloseDeadCh(c) PROVE Death'
  BY <1>11, Zenon DEF CloseDeadCh, threadVars
<1>12. ASSUME NEW c \in Conns, WriterExits(c) PROVE Death'
  BY <1>12, Zenon DEF WriterExits, threadVars
<1>13. ASSUME NEW c \in Conns, DrainIntent(c) PROVE Death'
  BY <1>1, <1>13, Zenon DEF DrainIntent, threadVars
<1>14. ASSUME NEW c \in Conns, Break(c) PROVE Death'
  BY <1>14, Zenon DEF Break, writerVars, threadVars
<1>15. CASE UNCHANGED vars
  BY <1>1, <1>15, Zenon DEF vars, threadVars
<1> QED
  BY <1>2, <1>3, <1>4, <1>5, <1>6, <1>7, <1>8, <1>9, <1>10, <1>11, <1>12, <1>13, <1>14,
     <1>15, Zenon DEF Next, RunWriter

(* While the writer lives, an intent stays live until its reply is sent.    *)
LEMMA LiveStep ==
    ASSUME SingleConn, TypeOK, Holding, Death, [Next]_vars,
           NEW c \in Conns, ~writeDeadCh[c], ~ReplyDone(c),
           NEW i \in Intents, Live(i)
    PROVE  Live(i)'
<1> SUFFICES ASSUME i.done # NoChan PROVE Live(i)'
  BY Zenon DEF Live
<1> i.done \in Chans /\ i.owner \in Threads
  BY Zenon DEF Intents, Live
<1> /\ pc \in [Threads -> InSubmit \cup {"idle", "goaway", "shutdown", "join", "closed"}]
    /\ done \in [Threads -> Chans \cup {NoChan}]
    /\ calls \in [Threads -> Nat]
    /\ buf \in [Chans -> Seq(Results)]
  BY Zenon DEF TypeOK
<1> /\ pc[i.owner] = "wait" /\ calls[i.owner] = i.call
    /\ done[i.owner] = i.done /\ buf[i.done] = <<>>
  BY Zenon DEF Live
<1>1. ASSUME NEW t \in Threads, Submit(t) PROVE Live(i)'
  <2>1. pc[t] # "wait" /\ buf' = buf
    BY <1>1, Zenon DEF Submit
  <2>2. \E d : done' = [done EXCEPT ![t] = d]
    BY <1>1, Zenon DEF Submit
  <2>3. /\ calls' = [calls EXCEPT ![t] = @ + 1]
        /\ pc' = [pc EXCEPT ![t] = "enqueue"]
    BY <1>1, Zenon DEF Submit
  <2> QED
    BY <2>1, <2>2, <2>3, Zenon DEF Live
<1>2. ASSUME NEW t \in Threads, Enqueue(t) \/ EnqueueDead(t) PROVE Live(i)'
  <2>1. /\ pc[t] = "enqueue"
        /\ \E l : pc' = [pc EXCEPT ![t] = l]
        /\ UNCHANGED <<calls, done, buf>>
    BY <1>2, Zenon DEF Enqueue, EnqueueDead
  <2> QED
    BY <2>1, Zenon DEF Live
<1>3. ASSUME NEW t \in Threads, WaitDone(t) PROVE Live(i)'
  <2>1. /\ buf[done[t]] # <<>>
        /\ buf' = [buf EXCEPT ![done[t]] = <<>>]
        /\ pc' = [pc EXCEPT ![t] = "return"]
        /\ UNCHANGED <<calls, done>>
    BY <1>3, Zenon DEF WaitDone
  <2> QED
    BY <2>1, Zenon DEF Live
<1>4. ASSUME NEW t \in Threads PROVE ~WaitDead(t)
  BY ConnOfType, Zenon DEF WaitDead, SingleConn
<1>5. ASSUME NEW t \in Threads, ReleaseDone(t) PROVE Live(i)'
  <2>1. /\ pc[t] = "return"
        /\ buf' = [buf EXCEPT ![done[t]] = <<>>]
        /\ done' = [done EXCEPT ![t] = NoChan]
        /\ \E l : pc' = [pc EXCEPT ![t] = l]
        /\ calls' = calls
    BY <1>5, Zenon DEF ReleaseDone
  <2> QED
    BY <2>1, Zenon DEF Live
<1>6. ASSUME NEW k \in Conns, SubmitAsync(k) PROVE Live(i)'
  <2>1. /\ pc[k] = "idle"
        /\ calls' = [calls EXCEPT ![k] = @ + 1]
        /\ UNCHANGED <<pc, done, buf>>
    BY <1>6, Zenon DEF SubmitAsync
  <2> QED
    BY <2>1, Zenon DEF Live
<1>7. ASSUME NEW k \in Conns, Teardown(k) \/ ShutdownWriter(k) \/ Close(k) PROVE Live(i)'
  <2>1. /\ pc[k] # "wait"
        /\ \E l : pc' = [pc EXCEPT ![k] = l]
        /\ UNCHANGED <<calls, done, buf>>
    BY <1>7, Zenon DEF Teardown, ShutdownWriter, Close
  <2> QED
    BY <2>1, Zenon DEF Live
<1>8. ASSUME NEW k \in Conns
      PROVE  ~ReplyDone(k) /\ ~DrainIntent(k)
  <2>1. k = c
    BY Zenon DEF SingleConn
  <2> QED
    BY <2>1, Zenon DEF DrainIntent, Death
<1>9. CASE UNCHANGED <<pc, calls, done, buf>>
  BY <1>9, Zenon DEF Live
<1>10. ASSUME NEW k \in Conns,
              \/ TakeIntent(k) \/ ProcessIntent(k) \/ ObserveShutdown(k)
              \/ CloseDeadCh(k) \/ WriterExits(k) \/ Break(k)
       PROVE  UNCHANGED <<pc, calls, done, buf>>
  BY <1>10, Zenon DEF TakeIntent, ProcessIntent, ObserveShutdown, CloseDeadCh, WriterExits,
               Break, threadVars
<1>11. UNCHANGED vars => UNCHANGED <<pc, calls, done, buf>>
  BY Zenon DEF vars, threadVars
<1> QED
  BY <1>1, <1>2, <1>3, <1>4, <1>5, <1>6, <1>7, <1>8, <1>9, <1>10, <1>11, Zenon
     DEF Next, Continue, RunWriter

(* An entry of a sequence over S is in S. *)
LEMMA ElementOf == \A S : \A s \in Seq(S) : \A k \in 1..Len(s) : s[k] \in S
OBVIOUS

(* The queue grows by an intent on a channel that nobody else has, and      *)
(* shrinks at its head.                                                     *)
LEMMA StepPending ==
    ASSUME SingleConn, TypeOK, Holding, Exclusive, Death, Pending, Replies, [Next]_vars
    PROVE  Pending'
<1> DEFINE Goal(c) ==
              /\ \A x : InHand(c)' /\ x = cur'[c] => Live(x)'
              /\ \A k \in 1..Len(writeQ'[c]) :
                    /\ \A x : x = writeQ'[c][k] => Live(x)'
                    /\ InHand(c)' => Apart(cur'[c], writeQ'[c][k])
                    /\ \A j \in 1..Len(writeQ'[c]) :
                          j # k => Apart(writeQ'[c][j], writeQ'[c][k])
<1> SUFFICES ASSUME NEW c \in Conns, ~writeDeadCh'[c] PROVE Goal(c)
  BY DEF Pending, Apart, Live
<1> DEFINE q == writeQ[c]
<1> q \in Seq(Intents) /\ cur[c] \in Intents
  BY Zenon DEF TypeOK
<1>a. ~writeDeadCh[c]
  BY Zenon DEF Next, Continue, RunWriter, Submit, Enqueue, EnqueueDead, WaitDone, WaitDead,
         ReleaseDone, SubmitAsync, Teardown, ShutdownWriter, Close, TakeIntent,
         ProcessIntent, ReplyDone, ObserveShutdown, CloseDeadCh, DrainIntent, WriterExits,
         Break, TypeOK, vars, writerVars
<1>b. /\ InHand(c) => Live(cur[c])
      /\ \A k \in 1..Len(q) : /\ q[k] \in Intents
                              /\ Live(q[k])
                              /\ InHand(c) => Apart(cur[c], q[k])
                              /\ \A j \in 1..Len(q) : j # k => Apart(q[j], q[k])
  <2>1. \A k \in 1..Len(q) : q[k] \in Intents
    BY ElementOf, Zenon
  <2>2. /\ InHand(c) => Live(cur[c])
        /\ \A k \in 1..Len(q) : /\ Live(q[k])
                                /\ InHand(c) => Apart(cur[c], q[k])
                                /\ \A j \in 1..Len(q) : j # k => Apart(q[j], q[k])
    BY <1>a, Zenon DEF Pending
  <2> QED
    BY <2>1, <2>2, Zenon
<1>c. ASSUME ~ReplyDone(c), NEW i \in Intents, Live(i) PROVE Live(i)'
  BY <1>a, <1>c, LiveStep, Zenon
<1>d. \A k \in Conns : k = c
  BY Zenon DEF SingleConn
<1>1. ASSUME NEW t \in Threads, Enqueue(t)
      PROVE  /\ writeQ'[c] = Append(q, Intent(t, done[t]))
             /\ UNCHANGED <<wpc, cur>>
             /\ \A x : x = Intent(t, done[t]) => Live(x)'
             /\ \A i \in Intents : Live(i) => Apart(i, Intent(t, done[t]))
             /\ \A i \in Intents : Live(i) => Apart(Intent(t, done[t]), i)
  <2>1. /\ writeQ' = [writeQ EXCEPT ![c] = Append(@, Intent(t, done[t]))]
        /\ UNCHANGED <<wpc, cur, done, calls, buf>>
        /\ pc[t] = "enqueue" /\ pc' = [pc EXCEPT ![t] = "wait"]
    BY <1>1, <1>d, ConnOfType, Zenon DEF Enqueue, writerVars
  <2>2. done[t] \in Chans
    BY <2>1, Zenon DEF Holding, InSubmit
  <2>3. ASSUME NEW u \in Threads, pc[u] = "wait" PROVE done[u] # done[t]
    BY <2>1, <2>3, Zenon DEF Exclusive, InSubmit
  <2>4. buf[done[t]] = <<>>
    BY <1>a, <2>2, <2>3, Zenon DEF Replies, Awaited
  <2>5. \A x : x = Intent(t, done[t]) => Live(x)'
    BY <2>1, <2>4 DEF Live, Intent, TypeOK
  <2>6. \A i \in Intents : Live(i) /\ i.done # NoChan => i.done # done[t]
    BY <2>3, Zenon DEF Live
  <2>7. \A i \in Intents : Live(i) => /\ Apart(i, Intent(t, done[t]))
                                      /\ Apart(Intent(t, done[t]), i)
    BY <2>2, <2>6, ChanAssumption, Zenon DEF Apart, Intent
  <2>8. writeQ'[c] = Append(q, Intent(t, done[t]))
    BY <2>1, Zenon DEF TypeOK
  <2> QED
    BY <2>1, <2>5, <2>7, <2>8, Zenon
<1>2. ASSUME SubmitAsync(c)
      PROVE  /\ writeQ'[c] \in {q, Append(q, Intent(c, NoChan))}
             /\ UNCHANGED <<wpc, cur>>
             /\ \A x : x = Intent(c, NoChan) => Live(x)'
             /\ \A i \in Intents : Apart(i, Intent(c, NoChan)) /\ Apart(Intent(c, NoChan), i)
  <2>1. writeQ'[c] \in {q, Append(q, Intent(c, NoChan))} /\ UNCHANGED <<wpc, cur>>
    BY <1>2, Zenon DEF SubmitAsync, writerVars, TypeOK
  <2>2. \A x : x = Intent(c, NoChan) => Live(x)'
    <3>1. Intent(c, NoChan).done = NoChan
      BY Zenon DEF Intent
    <3> QED
      BY <3>1, Zenon DEF Live
  <2> QED
    BY <2>1, <2>2, Zenon DEF Apart, Intent
<1>3. ASSUME NEW y \in Intents, writeQ'[c] = Append(q, y), ~ReplyDone(c),
             UNCHANGED <<wpc, cur>>, \A x : x = y => Live(x)',
             \A i \in Intents : Live(i) => Apart(i, y) /\ Apart(y, i)
      PROVE  Goal(c)
  <2>1. /\ Len(writeQ'[c]) = Len(q) + 1
        /\ \A k \in 1..Len(q) : writeQ'[c][k] = q[k]
        /\ writeQ'[c][Len(q) + 1] = y
    BY <1>3
  <2>2. \A x : InHand(c)' /\ x = cur'[c] => Live(x)'
    BY <1>b, <1>c, <1>3, Zenon DEF InHand
  <2>3. ASSUME NEW k \in 1..Len(q) + 1
        PROVE  /\ \A x : x = writeQ'[c][k] => Live(x)'
               /\ InHand(c)' => Apart(cur'[c], writeQ'[c][k])
    <3>1. CASE k \in 1..Len(q)
      BY <1>b, <1>c, <1>3, <2>1, <3>1, Zenon DEF InHand
    <3>2. CASE k = Len(q) + 1
      BY <1>b, <1>3, <2>1, <3>2, Zenon DEF InHand
    <3> QED
      BY <3>1, <3>2
  <2>4. ASSUME NEW k \in 1..Len(q) + 1, NEW j \in 1..Len(q) + 1, j # k
        PROVE  Apart(writeQ'[c][j], writeQ'[c][k])
    <3>a. \A i \in 1..Len(q) : Apart(q[i], y) /\ Apart(y, q[i])
      BY <1>b, <1>3, Zenon
    <3>1. CASE k = Len(q) + 1
      <4>1. j \in 1..Len(q)
        BY <2>4, <3>1
      <4> QED
        BY <2>1, <3>a, <3>1, <4>1, Zenon
    <3>2. CASE j = Len(q) + 1
      <4>1. k \in 1..Len(q)
        BY <2>4, <3>2
      <4> QED
        BY <2>1, <3>a, <3>2, <4>1, Zenon
    <3>3. CASE k \in 1..Len(q) /\ j \in 1..Len(q)
      BY <1>b, <2>1, <2>4, <3>3, Zenon
    <3> QED
      BY <3>1, <3>2, <3>3
  <2> QED
    BY <2>1, <2>2, <2>3, <2>4, Zenon
<1>4. ASSUME writeQ'[c] = q, ~ReplyDone(c), cur' = cur, InHand(c)' => InHand(c)
      PROVE  Goal(c)
  BY <1>b, <1>c, <1>4, Zenon
<1>5. ASSUME TakeIntent(c) PROVE Goal(c)
  <2>1. /\ q # <<>> /\ writeQ'[c] = Tail(q) /\ cur'[c] = q[1]
        /\ wpc[c] = "select"
    BY <1>5 DEF TakeIntent, TypeOK
  <2>2. ~ReplyDone(c)
    BY <2>1, Zenon DEF ReplyDone
  <2>3. /\ Len(Tail(q)) = Len(q) - 1
        /\ \A k \in 1..Len(Tail(q)) : Tail(q)[k] = q[k + 1] /\ k + 1 \in 1..Len(q)
        /\ 1 \in 1..Len(q)
    BY <2>1
  <2>4. \A k \in 1..Len(q) : \A x : x = q[k] => Live(x)'
    BY <1>b, <1>c, <2>2, Zenon
  <2>5. ASSUME NEW k \in 1..Len(Tail(q))
        PROVE  Apart(q[1], Tail(q)[k])
    BY <1>b, <2>3, k + 1 # 1, Zenon
  <2>6. ASSUME NEW k \in 1..Len(Tail(q)), NEW j \in 1..Len(Tail(q)), j # k
        PROVE  Apart(Tail(q)[j], Tail(q)[k])
    BY <1>b, <2>3, <2>6, j + 1 # k + 1, Zenon
  <2> QED
    BY <2>1, <2>3, <2>4, <2>5, <2>6, Zenon
<1>6. ASSUME ReplyDone(c) PROVE Goal(c)
  <2>1. /\ writeQ'[c] = q /\ InHand(c) /\ ~InHand(c)'
        /\ \E e : Reply(cur[c], e)
        /\ UNCHANGED <<pc, calls, done>>
    BY <1>6, Zenon DEF ReplyDone, InHand, TypeOK, threadVars
  <2>2. ASSUME NEW i \in Intents, Live(i), Apart(cur[c], i) PROVE Live(i)'
    <3>1. i.done # NoChan => buf'[i.done] = buf[i.done]
      BY <2>1, <2>2, Zenon DEF Reply, Apart, TypeOK, Intents
    <3> QED
      BY <2>1, <2>2, <3>1, Zenon DEF Live
  <2> QED
    BY <1>b, <2>1, <2>2, Zenon
<1>7. ASSUME ~ReplyDone(c) PROVE Goal(c)
  <2>1. ASSUME NEW t \in Threads, Enqueue(t) PROVE Goal(c)
    <3>1. Intent(t, done[t]) \in Intents
      BY Zenon DEF Intent, Intents, TypeOK
    <3> QED
      BY <1>1, <1>3, <1>7, <2>1, <3>1, Zenon
  <2>2. ASSUME SubmitAsync(c) PROVE Goal(c)
    <3>1. Intent(c, NoChan) \in Intents
      BY Zenon DEF Intent, Intents, Threads, TypeOK
    <3>2. CASE writeQ'[c] = Append(q, Intent(c, NoChan))
      BY <1>2, <1>3, <1>7, <2>2, <3>1, <3>2, Zenon
    <3>3. CASE writeQ'[c] = q
      BY <1>2, <1>4, <1>7, <2>2, <3>3, Zenon DEF InHand
    <3> QED
      BY <1>2, <2>2, <3>2, <3>3, Zenon
  <2>3. CASE UNCHANGED <<writeQ, wpc, cur>>
    BY <1>4, <1>7, <2>3, Zenon DEF InHand
  <2>4. ASSUME NEW t \in Threads,
               Submit(t) \/ EnqueueDead(t) \/ WaitDone(t) \/ WaitDead(t) \/ ReleaseDone(t)
        PROVE  UNCHANGED <<writeQ, wpc, cur>>
    BY <2>4, Zenon DEF Submit, EnqueueDead, WaitDone, WaitDead, ReleaseDone, writerVars
  <2>5. ASSUME Teardown(c) \/ ShutdownWriter(c) \/ Close(c) \/ Break(c)
        PROVE  UNCHANGED <<writeQ, wpc, cur>>
    BY <2>5, Zenon DEF Teardown, ShutdownWriter, Close, Break, writerVars
  <2>6. ASSUME ProcessIntent(c) \/ ObserveShutdown(c) PROVE Goal(c)
    <3>1. writeQ'[c] = q /\ cur' = cur
      BY <2>6, Zenon DEF ProcessIntent, ObserveShutdown
    <3>2. InHand(c)' => InHand(c)
      BY <2>6, Zenon DEF ProcessIntent, ObserveShutdown, InHand, TypeOK
    <3> QED
      BY <1>4, <1>7, <3>1, <3>2, Zenon
  <2>7. ~CloseDeadCh(c) /\ ~DrainIntent(c) /\ ~WriterExits(c)
    BY <1>a, Zenon DEF CloseDeadCh, DrainIntent, WriterExits, Death, TypeOK
  <2>8. CASE UNCHANGED vars
    BY <2>3, <2>8, Zenon DEF vars, writerVars
  <2> QED
    BY <1>5, <1>7, <1>d, <2>1, <2>2, <2>3, <2>4, <2>5, <2>6, <2>7, <2>8, Zenon
       DEF Next, Continue, RunWriter
<1> QED
  BY <1>6, <1>7, Zenon

(* The goroutine that a result is waiting for takes it, and does nothing    *)
(* else before.                                                             *)
LEMMA AwaitedStep ==
    ASSUME TypeOK, Holding, [Next]_vars, NEW d \in Chans,
           buf[d] # <<>>, buf'[d] = buf[d], Awaited(d)
    PROVE  Awaited(d)' /\ calls'[Head(buf[d]).owner] = calls[Head(buf[d]).owner]
<1> DEFINE o == Head(buf[d]).owner
<1> o \in Threads /\ pc[o] = "wait" /\ done[o] = d
  BY Zenon DEF Awaited
<1> SUFFICES pc'[o] = "wait" /\ done'[o] = d /\ calls'[o] = calls[o]
  BY Zenon DEF Awaited
<1> HIDE DEF o
<1> /\ pc \in [Threads -> InSubmit \cup {"idle", "goaway", "shutdown", "join", "closed"}]
    /\ done \in [Threads -> Chans \cup {NoChan}]
    /\ calls \in [Threads -> Nat]
    /\ buf \in [Chans -> Seq(Results)]
  BY Zenon DEF TypeOK
<1> DEFINE Same == pc'[o] = "wait" /\ done'[o] = d /\ calls'[o] = calls[o]
<1>1. ASSUME NEW t \in Threads, Submit(t) PROVE Same
  <2>1. pc[t] # "wait" /\ \E x : done' = [done EXCEPT ![t] = x]
    BY <1>1, Zenon DEF Submit
  <2>2. /\ calls' = [calls EXCEPT ![t] = @ + 1]
        /\ pc' = [pc EXCEPT ![t] = "enqueue"]
    BY <1>1, Zenon DEF Submit
  <2> QED
    BY <2>1, <2>2, Zenon
<1>2. ASSUME NEW t \in Threads, Enqueue(t) \/ EnqueueDead(t) PROVE Same
  BY <1>2, Zenon DEF Enqueue, EnqueueDead
<1>3. ASSUME NEW t \in Threads, WaitDone(t) PROVE Same
  <2>1. /\ buf' = [buf EXCEPT ![done[t]] = <<>>]
        /\ pc' = [pc EXCEPT ![t] = "return"]
        /\ UNCHANGED <<calls, done>>
    BY <1>3, Zenon DEF WaitDone
  <2> QED
    BY <2>1, Zenon
<1>4. ASSUME NEW t \in Threads, WaitDead(t) PROVE Same
  <2>1. /\ buf[done[t]] = <<>>
        /\ pc' = [pc EXCEPT ![t] = "return"]
        /\ UNCHANGED <<calls, done>>
    BY <1>4, Zenon DEF WaitDead
  <2> QED
    BY <2>1, Zenon
<1>5. ASSUME NEW t \in Threads, ReleaseDone(t) PROVE Same
  <2>1. /\ pc[t] = "return"
        /\ done' = [done EXCEPT ![t] = NoChan]
        /\ \E l : pc' = [pc EXCEPT ![t] = l]
        /\ calls' = calls
    BY <1>5, Zenon DEF ReleaseDone
  <2> QED
    BY <2>1, Zenon
<1>6. ASSUME NEW k \in Conns, SubmitAsync(k) PROVE Same
  <2>1. /\ pc[k] = "idle"
        /\ calls' = [calls EXCEPT ![k] = @ + 1]
        /\ UNCHANGED <<pc, done>>
    BY <1>6, Zenon DEF SubmitAsync
  <2> QED
    BY <2>1, Zenon
<1>7. ASSUME NEW k \in Conns, Teardown(k) \/ ShutdownWriter(k) \/ Close(k) PROVE Same
  <2>1. /\ pc[k] # "wait"
        /\ \E l : pc' = [pc EXCEPT ![k] = l]
        /\ UNCHANGED <<calls, done>>
    BY <1>7, Zenon DEF Teardown, ShutdownWriter, Close
  <2> QED
    BY <2>1, Zenon
<1>8. ASSUME NEW k \in Conns, RunWriter(k) \/ Break(k) PROVE Same
  BY <1>8, Zenon DEF RunWriter, TakeIntent, ProcessIntent, ReplyDone, ObserveShutdown,
              CloseDeadCh, DrainIntent, WriterExits, Break, threadVars
<1>9. CASE UNCHANGED vars
  BY <1>9, Zenon DEF vars, threadVars
<1> QED
  BY <1>1, <1>2, <1>3, <1>4, <1>5, <1>6, <1>7, <1>8, <1>9, Zenon DEF Next, Continue

(* What is written stays written, and what has failed stays failed. *)
LEMMA Monotone ==
    ASSUME TypeOK, [Next]_vars, NEW c \in Conns
    PROVE  /\ wire[c] \subseteq wire'[c]
           /\ broken[c] => broken'[c]
           /\ writeShutdown[c] => writeShutdown'[c]
           /\ writeDeadCh[c] => writeDeadCh'[c]
<1> USE DEF TypeOK
<1>1. ASSUME NEW t \in Threads, Submit(t) \/ Continue(t)
      PROVE  UNCHANGED <<wire, broken, writeShutdown, writeDeadCh>>
  BY <1>1, Zenon DEF Submit, Continue, Enqueue, EnqueueDead, WaitDone, WaitDead, ReleaseDone,
              writerVars
<1>2. ASSUME NEW k \in Conns,
             \/ SubmitAsync(k) \/ Teardown(k) \/ Close(k) \/ TakeIntent(k) \/ ReplyDone(k)
             \/ ObserveShutdown(k) \/ DrainIntent(k) \/ WriterExits(k)
      PROVE  UNCHANGED <<wire, broken, writeShutdown, writeDeadCh>>
  BY <1>2, Zenon DEF SubmitAsync, Teardown, Close, TakeIntent, ReplyDone, ObserveShutdown,
              DrainIntent, WriterExits, writerVars
<1>3. ASSUME NEW k \in Conns, ShutdownWriter(k) \/ CloseDeadCh(k) \/ Break(k)
      PROVE  /\ wire' = wire
             /\ broken[c] => broken'[c]
             /\ writeShutdown[c] => writeShutdown'[c]
             /\ writeDeadCh[c] => writeDeadCh'[c]
  BY <1>3, Zenon DEF ShutdownWriter, CloseDeadCh, Break, writerVars
<1>4. ASSUME NEW k \in Conns, ProcessIntent(k)
      PROVE  /\ wire[c] \subseteq wire'[c]
             /\ UNCHANGED <<broken, writeShutdown, writeDeadCh>>
  <2>1. wire' = wire \/ \E x : wire' = [wire EXCEPT ![k] = @ \cup {x}]
    BY <1>4, Zenon DEF ProcessIntent
  <2>2. wire[c] \subseteq wire'[c]
    BY <2>1, Zenon
  <2> QED
    BY <1>4, <2>2, Zenon DEF ProcessIntent
<1>5. UNCHANGED vars => UNCHANGED <<wire, broken, writeShutdown, writeDeadCh>>
  BY Zenon DEF vars, writerVars
<1> QED
  BY <1>1, <1>2, <1>3, <1>4, <1>5, Zenon DEF Next, RunWriter

(* A channel is filled by a reply only. *)
LEMMA Filled ==
    ASSUME TypeOK, [Next]_vars, NEW d \in Chans, buf'[d] # buf[d], buf'[d] # <<>>
    PROVE  \E c \in Conns :
              \/ ReplyDone(c) /\ wpc[c] = "reply-ok" /\ Reply(cur[c], "ok")
              \/ ReplyDone(c) /\ wpc[c] = "reply-err" /\ Reply(cur[c], "err")
              \/ DrainIntent(c) /\ Reply(Head(writeQ[c]), "err")
<1> buf \in [Chans -> Seq(Results)]
  BY Zenon DEF TypeOK
<1>1. ASSUME NEW t \in Threads PROVE ~Submit(t) /\ ~Enqueue(t) /\ ~EnqueueDead(t) /\ ~WaitDead(t)
  BY Zenon DEF Submit, Enqueue, EnqueueDead, WaitDead
<1>2. ASSUME NEW t \in Threads PROVE ~WaitDone(t) /\ ~ReleaseDone(t)
  BY Zenon DEF WaitDone, ReleaseDone
<1>3. ASSUME NEW c \in Conns
      PROVE  /\ ~SubmitAsync(c) /\ ~Teardown(c) /\ ~ShutdownWriter(c) /\ ~Close(c)
             /\ ~TakeIntent(c) /\ ~ProcessIntent(c) /\ ~ObserveShutdown(c)
             /\ ~CloseDeadCh(c) /\ ~WriterExits(c) /\ ~Break(c)
  BY Zenon DEF SubmitAsync, Teardown, ShutdownWriter, Close, TakeIntent, ProcessIntent,
         ObserveShutdown, CloseDeadCh, WriterExits, Break
<1>4. ~UNCHANGED vars
  BY Zenon DEF vars
<1>5. PICK c \in Conns : ReplyDone(c) \/ DrainIntent(c)
  BY <1>1, <1>2, <1>3, <1>4, Zenon DEF Next, Continue, RunWriter
<1> QED
  BY <1>5, Zenon DEF ReplyDone, DrainIntent

(* A reply goes to the owner of the intent, who is waiting for it. *)
LEMMA StepReplies ==
    ASSUME SingleConn, TypeOK, Holding, Death, Pending, Replies, [Next]_vars
    PROVE  Replies'
<1> SUFFICES ASSUME NEW c \in Conns, NEW d \in Chans, buf'[d] # <<>>
             PROVE  LET r == Head(buf'[d]) IN
                    /\ ~writeDeadCh'[c] \/ r.err = "ok" => Awaited(d)'
                    /\ r.err = "ok" => calls'[r.owner] = r.call /\ <<r.owner, r.call>> \in wire'[c]
                    /\ r.err = "ok" \/ broken'[c] \/ writeShutdown'[c]
  BY Zenon DEF Replies
<1>m. /\ wire[c] \subseteq wire'[c]
      /\ broken[c] => broken'[c]
      /\ writeShutdown[c] => writeShutdown'[c]
      /\ writeDeadCh[c] => writeDeadCh'[c]
  BY Monotone, Zenon
<1>1. CASE buf'[d] = buf[d]
  <2>1. Awaited(d) => Awaited(d)' /\ calls'[Head(buf[d]).owner] = calls[Head(buf[d]).owner]
    BY <1>1, AwaitedStep, Zenon
  <2> QED
    BY <1>1, <1>m, <2>1, Zenon DEF Replies
<1>2. CASE buf'[d] # buf[d]
  <2>1. /\ \A k \in Conns : k = c
        /\ buf \in [Chans -> Seq(Results)]
    BY Zenon DEF SingleConn, TypeOK
  <2>2. ASSUME NEW i \in Intents, NEW e, Reply(i, e)
        PROVE  d = i.done /\ Head(buf'[d]) = Result(i, e)
    BY <1>2, <2>1, <2>2 DEF Reply
  <2>3. ASSUME ReplyDone(c), NEW e \in {"ok", "err"}, Reply(cur[c], e),
               wpc[c] = "reply-ok" \/ wpc[c] = "reply-err",
               e = "ok" => <<cur[c].owner, cur[c].call>> \in wire[c],
               e = "err" => broken[c]
        PROVE  LET r == Head(buf'[d]) IN
               /\ Awaited(d)'
               /\ r.err = "ok" => calls'[r.owner] = r.call /\ <<r.owner, r.call>> \in wire'[c]
               /\ r.err = "ok" \/ broken'[c]
    <3>1. cur[c] \in Intents
      BY Zenon DEF TypeOK
    <3>2. d = cur[c].done /\ Head(buf'[d]) = Result(cur[c], e)
      BY <2>2, <2>3, <3>1, Zenon
    <3>3. ~writeDeadCh[c] /\ InHand(c)
      BY <2>3, Zenon DEF Death, InHand
    <3>4. d # NoChan /\ Live(cur[c])
      BY <3>3, ChanAssumption, Zenon DEF Pending
    <3>5. UNCHANGED <<pc, done, calls>>
      BY <2>3, Zenon DEF ReplyDone, threadVars
    <3>6. LET r == Head(buf'[d]) IN r.owner = cur[c].owner /\ r.call = cur[c].call /\ r.err = e
      BY <3>2 DEF Result
    <3>7. Awaited(d)'
      BY <3>2, <3>4, <3>5, <3>6, Zenon DEF Awaited, Live
    <3> QED
      BY <1>m, <2>3, <3>2, <3>4, <3>5, <3>6, <3>7, Zenon DEF Live
  <2>4. ASSUME DrainIntent(c), Reply(Head(writeQ[c]), "err")
        PROVE  /\ Head(buf'[d]).err = "err"
               /\ writeDeadCh'[c] /\ (broken'[c] \/ writeShutdown'[c])
    <3>1. Head(writeQ[c]) \in Intents
      <4>1. writeQ[c] \in Seq(Intents)
        BY Zenon DEF TypeOK
      <4>2. writeQ[c] # <<>>
        BY <2>4, Zenon DEF DrainIntent
      <4> QED
        BY <4>1, <4>2
    <3>2. Head(buf'[d]) = Result(Head(writeQ[c]), "err")
      BY <2>2, <2>4, <3>1, Zenon
    <3>3. writeDeadCh[c] /\ (broken[c] \/ writeShutdown[c])
      BY <2>4, Zenon DEF DrainIntent, Death
    <3> QED
      BY <1>m, <3>2, <3>3 DEF Result
  <2>5. \/ ReplyDone(c) /\ wpc[c] = "reply-ok" /\ Reply(cur[c], "ok")
        \/ ReplyDone(c) /\ wpc[c] = "reply-err" /\ Reply(cur[c], "err")
        \/ DrainIntent(c) /\ Reply(Head(writeQ[c]), "err")
    BY <1>2, <2>1, Filled, Zenon
  <2>6. CASE ReplyDone(c) /\ wpc[c] = "reply-ok" /\ Reply(cur[c], "ok")
    BY <2>3, <2>6, Zenon DEF Death
  <2>7. CASE ReplyDone(c) /\ wpc[c] = "reply-err" /\ Reply(cur[c], "err")
    BY <2>3, <2>7, Zenon DEF Death
  <2>8. CASE DrainIntent(c) /\ Reply(Head(writeQ[c]), "err")
    BY <2>4, <2>8, Zenon
  <2> QED
    BY <2>5, <2>6, <2>7, <2>8, Zenon
<1> QED
  BY <1>1, <1>2, Zenon

-----------------------------------------------------------------------------
Past == {"return", "shutdown", "join", "closed"}

(* The three ways to the end of submit. *)
LEMMA Returns ==
    ASSUME TypeOK, [Next]_vars, NEW t \in Threads, pc'[t] \in Past
    PROVE  \/ EnqueueDead(t) \/ WaitDone(t) \/ WaitDead(t)
           \/ /\ pc[t] \in Past /\ calls'[t] = calls[t]
              /\ pc'[t] = "return" => pc[t] = "return" /\ result'[t] = result[t]
<1> /\ pc \in [Threads -> InSubmit \cup {"idle", "goaway", "shutdown", "join", "closed"}]
    /\ calls \in [Threads -> Nat]
    /\ result \in [Threads -> Results]
  BY Zenon DEF TypeOK
<1> USE DEF Past
<1> DEFINE Kept == /\ pc[t] \in Past /\ calls'[t] = calls[t]
                   /\ pc'[t] = "return" => pc[t] = "return" /\ result'[t] = result[t]
<1>1. ASSUME NEW u \in Threads, Submit(u) PROVE Kept
  <2>1. /\ calls' = [calls EXCEPT ![u] = @ + 1]
        /\ pc' = [pc EXCEPT ![u] = "enqueue"]
        /\ result' = result
    BY <1>1, Zenon DEF Submit
  <2> QED
    BY <2>1, Zenon
<1>2. ASSUME NEW u \in Threads, Enqueue(u) PROVE Kept
  BY <1>2, Zenon DEF Enqueue
<1>3. ASSUME NEW u \in Threads, u # t, EnqueueDead(u) \/ WaitDone(u) \/ WaitDead(u) PROVE Kept
  <2>1. /\ pc' = [pc EXCEPT ![u] = "return"]
        /\ \E r : result' = [result EXCEPT ![u] = r]
        /\ calls' = calls
    BY <1>3, Zenon DEF EnqueueDead, WaitDone, WaitDead
  <2> QED
    BY <1>3, <2>1, Zenon
<1>4. ASSUME NEW u \in Threads, ReleaseDone(u) PROVE Kept
  <2>1. /\ pc[u] = "return"
        /\ \E l \in {"idle", "shutdown"} : pc' = [pc EXCEPT ![u] = l]
        /\ \E r : result' = [result EXCEPT ![u] = r]
        /\ calls' = calls
    BY <1>4, Zenon DEF ReleaseDone
  <2> QED
    BY <2>1, Zenon
<1>5. ASSUME NEW c \in Conns, SubmitAsync(c) PROVE Kept
  <2>1. /\ pc[c] = "idle"
        /\ calls' = [calls EXCEPT ![c] = @ + 1]
        /\ UNCHANGED <<pc, result>>
    BY <1>5, Zenon DEF SubmitAsync
  <2> QED
    BY <2>1, Zenon
<1>6. ASSUME NEW c \in Conns, Teardown(c) \/ ShutdownWriter(c) \/ Close(c) PROVE Kept
  <2>1. /\ \/ pc' = [pc EXCEPT ![c] = "goaway"]
           \/ pc[c] = "shutdown" /\ pc' = [pc EXCEPT ![c] = "join"]
           \/ pc[c] = "join" /\ pc' = [pc EXCEPT ![c] = "closed"]
        /\ UNCHANGED <<calls, result>>
    BY <1>6, Zenon DEF Teardown, ShutdownWriter, Close
  <2> QED
    BY <2>1, Zenon
<1>7. ASSUME NEW c \in Conns, RunWriter(c) \/ Break(c) PROVE UNCHANGED threadVars
  BY <1>7, Zenon DEF RunWriter, TakeIntent, ProcessIntent, ReplyDone, ObserveShutdown,
              CloseDeadCh, DrainIntent, WriterExits, Break
<1>8. CASE UNCHANGED threadVars
  BY <1>8, Zenon DEF threadVars
<1> QED
  BY <1>1, <1>2, <1>3, <1>4, <1>5, <1>6, <1>7, <1>8, Zenon DEF Next, Continue, vars

(* The result that submit receives is its own if it is ok. *)
LEMMA Received ==
    ASSUME TypeOK, Holding, Exclusive, Replies, NEW c \in Conns, NEW t \in Threads,
           WaitDone(t)
    PROVE  /\ result'[t].err = "ok" => <<t, calls[t]>> \in wire[c]
           /\ result'[t].err = "ok" \/ broken[c] \/ writeShutdown[c]
           /\ calls'[t] = calls[t]
<1> DEFINE d == done[t]
           r == Head(buf[d])
<1>1. d \in Chans /\ buf[d] # <<>> /\ pc[t] = "wait"
  BY Zenon DEF WaitDone, Holding, InSubmit
<1>2. result'[t] = r /\ calls' = calls
  BY Zenon DEF WaitDone, TypeOK
<1>3. r.err = "ok" => Awaited(d) /\ calls[r.owner] = r.call /\ <<r.owner, r.call>> \in wire[c]
  BY <1>1, Zenon DEF Replies
<1>4. Awaited(d) => r.owner = t
  BY <1>1, Zenon DEF Awaited, Exclusive, InSubmit
<1>5. r.err = "ok" \/ broken[c] \/ writeShutdown[c]
  BY <1>1, Zenon DEF Replies
<1> QED
  BY <1>2, <1>3, <1>4, <1>5, Zenon

(* No step takes teardown past a GOAWAY that is neither out nor impossible. *)
LEMMA StepGoAway ==
    ASSUME TypeOK, Holding, Exclusive, Death, Replies, GoAwayOut, [Next]_vars
    PROVE  GoAwayOut'
<1> SUFFICES ASSUME NEW c \in Conns, pc'[c] \in Past
             PROVE  broken'[c] \/ <<c, calls'[c]>> \in wire'[c]
  BY Zenon DEF GoAwayOut, Past
<1> c \in Threads /\ ConnOf(c) = c
  BY Zenon DEF Threads, ConnOf
<1>m. wire[c] \subseteq wire'[c] /\ (broken[c] => broken'[c])
  BY Monotone, Zenon
<1>1. CASE EnqueueDead(c) \/ WaitDead(c)
  <2>1. writeDeadCh[c] /\ pc[c] \in {"enqueue", "wait"}
    BY <1>1, Zenon DEF EnqueueDead, WaitDead
  <2>2. broken[c]
    BY <2>1, Zenon DEF Death
  <2> QED
    BY <1>m, <2>2, Zenon
<1>2. CASE WaitDone(c)
  <2>1. ~writeShutdown[c]
    BY <1>2, Zenon DEF WaitDone, Death
  <2> QED
    BY <1>2, <1>m, <2>1, Received, Zenon
<1>3. CASE pc[c] \in Past /\ calls'[c] = calls[c]
  BY <1>3, <1>m, Zenon DEF GoAwayOut, Past
<1> QED
  BY <1>1, <1>2, <1>3, Returns, Zenon

(* A nil result keeps meaning that the frame was handed to the transport. *)
LEMMA StepNil ==
    ASSUME TypeOK, Holding, Exclusive, Replies, NilMeansWritten, [Next]_vars
    PROVE  NilMeansWritten'
<1> SUFFICES ASSUME NEW t \in Threads, pc'[t] = "return", result'[t].err = "ok"
             PROVE  <<t, calls'[t]>> \in wire'[ConnOf(t)]
  BY Zenon DEF NilMeansWritten, ConnOf
<1>m. ConnOf(t) \in Conns /\ wire[ConnOf(t)] \subseteq wire'[ConnOf(t)]
  BY ConnOfType, Monotone, Zenon
<1>1. ~EnqueueDead(t) /\ ~WaitDead(t)
  BY DEF EnqueueDead, WaitDead, Result, TypeOK
<1>2. CASE WaitDone(t)
  BY <1>2, <1>m, Received, Zenon
<1>3. CASE /\ calls'[t] = calls[t]
           /\ pc[t] = "return" /\ result'[t] = result[t]
  BY <1>3, <1>m, Zenon DEF NilMeansWritten
<1> QED
  BY <1>1, <1>2, <1>3, Returns, Zenon DEF Past

(* A new connection satisfies the inductive invariant. *)
LEMMA InitInv == Init => IInv
<1> SUFFICES ASSUME Init PROVE IInv
  BY Zenon
<1>1. NoIntent \in Intents /\ NoResult \in Results
  BY Zenon DEF NoIntent, NoResult, Intents, Results, Result
<1>2. TypeOK
  BY <1>1, SizeAssumption DEF Init, TypeOK, InSubmit
<1>3. Holding /\ Exclusive
  BY Zenon DEF Init, Holding, Exclusive, InSubmit
<1>4. Death
  BY Zenon DEF Init, Death, Threads
<1>5. Pending /\ Replies
  BY DEF Init, Pending, Replies, InHand
<1>6. GoAwayOut /\ NilMeansWritten
  BY Zenon DEF Init, GoAwayOut, NilMeansWritten, Threads
<1> QED
  BY <1>2, <1>3, <1>4, <1>5, <1>6, Zenon DEF IInv

-----------------------------------------------------------------------------
(* writeQ and the done channels of runWriter and submit never hold more     *)
(* than they are made for, on any number of connections.                    *)
THEOREM WriterTypes == Spec => []TypeOK
<1>1. Init => TypeOK /\ Holding
  BY InitInv, Zenon DEF IInv
<1> QED
  BY <1>1, StepType, PTL DEF Spec

(* The inductive invariant, on a process with one connection. *)
THEOREM WriterInvariant ==
    ASSUME SingleConn
    PROVE  Spec => []IInv
<1>1. IInv /\ [Next]_vars => IInv'
  BY SingleConn, StepType, StepExclusive, StepDeath, StepPending, StepReplies, StepGoAway,
     StepNil, Zenon DEF IInv
<1> QED
  BY <1>1, InitInv, PTL DEF Spec

(* submit is synchronous on a process with one connection, for any number   *)
(* of goroutines and any queue: what the writer encodes is not yet back in  *)
(* its submitter's hands, although donePool recycles channels.              *)
THEOREM WriterSynchronous ==
    ASSUME SingleConn
    PROVE  Spec => []SubmitterWaitsForWrite
<1>1. IInv => SubmitterWaitsForWrite
  BY Zenon DEF IInv, Death, Pending, InHand, Live, SubmitterWaitsForWrite
<1> QED
  BY <1>1, WriterInvariant, PTL

(* On such a process a nil error of submit means that the frame it was      *)
(* given is written.                                                        *)
THEOREM WriterNilMeansWritten ==
    ASSUME SingleConn
    PROVE  Spec => []NilMeansWritten
<1>1. IInv => NilMeansWritten
  BY Zenon DEF IInv
<1> QED
  BY <1>1, WriterInvariant, PTL

(* On such a process teardown closes a healthy transport only after its     *)
(* GOAWAY is written and the writer goroutine has stopped.                  *)
THEOREM WriterGoAway ==
    ASSUME SingleConn
    PROVE  Spec => []GoAwayBeforeClose
<1>1. IInv => GoAwayBeforeClose
  BY Zenon DEF IInv, Death, GoAwayOut, GoAwayBeforeClose
<1> QED
  BY <1>1, WriterInvariant, PTL

-----------------------------------------------------------------------------
(* The watchdog. *)

(* A PING is outstanding exactly while an answer is owed; its deadline      *)
(* falls before the next look at it; a responsive peer owes it for at most  *)
(* AnswerTime.                                                              *)
PingInv ==
    /\ ~pingPending => asked = NoPing
    /\ pingPending => asked # NoPing
    /\ pingPending =>
          /\ pingDeadline = asked + PingTimeout
          /\ asked + PingInterval <= deadline
          /\ asked <= now
          /\ responsive => now <= asked + AnswerTime

(* The read deadline is armed by the last frame or, once, by the PING.      *)
DeadlineInv ==
    running =>
        /\ now <= deadline
        /\ ~pingPending => deadline <= heard + PingInterval
        /\ deadline <= heard + 2 * PingInterval

WatchInv == WatchTypeOK /\ PingInv /\ DeadlineInv /\ ResponsiveSpared

(* The invariant holds initially. *)
LEMMA WatchInitInv == WatchInit => WatchInv
<1> SUFFICES ASSUME WatchInit PROVE WatchInv
  BY Zenon
<1> USE TimeAssumption, PingAssumption DEF WatchInit
<1>1. WatchTypeOK
  <2>1. {running, pingPending, responsive} \subseteq BOOLEAN
    BY Zenon
  <2>2. now \in 0..MaxTime /\ heard \in 0..MaxTime
    OBVIOUS
  <2>3. deadline \in Nat /\ pingDeadline \in Nat
    BY Zenon
  <2> QED
    BY <2>1, <2>2, <2>3, Zenon DEF WatchTypeOK
<1>2. PingInv
  BY Zenon DEF PingInv
<1>3. DeadlineInv
  BY DEF DeadlineInv
<1>4. ResponsiveSpared
  BY Zenon DEF ResponsiveSpared
<1> QED
  BY <1>1, <1>2, <1>3, <1>4, Zenon DEF WatchInv

(* NoPing is no time. *)
LEMMA NoPingNegative == NoPing \notin Nat
BY DEF NoPing

(* One step preserves the invariant. *)
LEMMA WatchStepInv == WatchInv /\ [WatchNext]_watchVars => WatchInv'
<1> SUFFICES ASSUME WatchInv, [WatchNext]_watchVars PROVE WatchInv'
  BY Zenon
<1> USE TimeAssumption, PingAssumption, NoPingNegative
    DEF WatchInv, WatchTypeOK, PingInv, DeadlineInv, ResponsiveSpared
<1>1. CASE SendOrCheckPing
  <2>1. running /\ now >= deadline /\ UNCHANGED <<now, heard, responsive>>
    BY <1>1, Zenon DEF SendOrCheckPing
  <2>2. CASE pingPending
    <3>1. deadline = now /\ now > pingDeadline
      BY <2>1, <2>2
    <3>2. ~responsive
      BY <3>1, <2>2
    <3>3. running' = FALSE /\ UNCHANGED <<deadline, pingPending, pingDeadline, asked>>
      <4>1. ~(now <= pingDeadline)
        BY <3>1
      <4> QED
        BY ONLY <1>1, <2>2, <4>1, Zenon DEF SendOrCheckPing
    <3>4. ~running' /\ (running \in BOOLEAN)'
      BY <3>3, Zenon
    <3> QED
      BY <2>1, <3>2, <3>3, <3>4, Zenon
  <2>3. CASE ~pingPending
    <3>1. /\ pingPending' = TRUE
          /\ pingDeadline' = now + PingTimeout
          /\ asked' = now
          /\ deadline' = now + PingInterval
          /\ running' = running
      BY <1>1, <2>3, Zenon DEF SendOrCheckPing, SetIdleDeadline
    <3>2. pingPending' /\ (pingPending \in BOOLEAN)' /\ (running \in BOOLEAN)'
      BY <3>1, Zenon
    <3>3. deadline = now /\ now <= heard + PingInterval
      BY <2>1, <2>3
    <3> QED
      BY <2>1, <3>1, <3>2, <3>3
  <2> QED
    BY <2>2, <2>3, Zenon
<1>2. CASE HandlePingAck
  <2>1. /\ running
        /\ asked' = NoPing
        /\ pingPending' = FALSE
        /\ heard' = now
        /\ deadline' = now + PingInterval
        /\ UNCHANGED <<now, running, pingDeadline, responsive>>
    BY <1>2, Zenon DEF HandlePingAck, SetIdleDeadline
  <2>2. ~pingPending' /\ (pingPending \in BOOLEAN)'
    BY <2>1, Zenon
  <2> QED
    BY <2>1, <2>2
<1>3. CASE OtherFrame
  BY <1>3 DEF OtherFrame, SetIdleDeadline
<1>4. CASE Tick
  BY <1>4 DEF Tick
<1>5. CASE PeerStalls
  BY <1>5, Zenon DEF PeerStalls
<1>6. CASE UNCHANGED watchVars
  BY <1>6, Zenon DEF watchVars
<1> QED
  BY <1>1, <1>2, <1>3, <1>4, <1>5, <1>6, Zenon DEF WatchNext

(* The invariant is inductive. *)
THEOREM WatchInductive == WatchSpec => []WatchInv
BY WatchInitInv, WatchStepInv, PTL DEF WatchSpec

(* Times stay times, whatever the order of timeouts, answers and frames. *)
THEOREM WatchTypes == WatchSpec => []WatchTypeOK
<1>1. WatchInv => WatchTypeOK
  BY Zenon DEF WatchInv
<1> QED
  BY <1>1, WatchInductive, PTL

(* SetIdleDeadline and SendOrCheckPing: serve gives up a silent peer within *)
(* two idle intervals.                                                      *)
THEOREM Silence == WatchSpec => []SilenceBounded
<1>1. WatchInv => SilenceBounded
  BY TimeAssumption DEF WatchInv, WatchTypeOK, DeadlineInv, SilenceBounded
<1> QED
  BY <1>1, WatchInductive, PTL

(* SendOrCheckPing and HandlePingAck: a peer that answers every PING within *)
(* PingTimeout is never given up.                                           *)
THEOREM Responsive == WatchSpec => []ResponsiveSpared
<1>1. WatchInv => ResponsiveSpared
  BY Zenon DEF WatchInv
<1> QED
  BY <1>1, WatchInductive, PTL

=============================================================================
