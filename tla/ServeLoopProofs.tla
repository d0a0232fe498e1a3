--------------------------- MODULE ServeLoopProofs --------------------------
(***************************************************************************)
(* For any number of streams, the end of a graceful drain is never missed. *)
(***************************************************************************)
EXTENDS ServeLoop, TLAPS

(* Every step of the frame reader, the handlers and Pool.Shutdown keeps the *)
(* types.                                                                   *)
LEMMA StepType == TypeOK /\ [Next]_vars => TypeOK'
<1> SUFFICES ASSUME TypeOK, [Next]_vars PROVE TypeOK'
  OBVIOUS
<1> USE DEF TypeOK, vars, reader, drain
<1>1. CASE AwaitSettings
  BY <1>1 DEF AwaitSettings, Exit
<1>2. CASE Check
  BY <1>2 DEF Check, Exit
<1>3. CASE SetIdleDeadline
  BY <1>3 DEF SetIdleDeadline
<1>4. CASE ReadTimeout
  BY <1>4 DEF ReadTimeout, Exit
<1>5. CASE ReadFails
  BY <1>5 DEF ReadFails, Exit
<1>6. ASSUME NEW s \in Streams, ReadHeaders(s) PROVE TypeOK'
  BY <1>6 DEF ReadHeaders, Receive, Dispatch
<1>7. CASE ReadContinuation
  BY <1>7 DEF ReadContinuation, Exit, Dispatch
<1>8. CASE ReadOther
  BY <1>8 DEF ReadOther, Receive
<1>9. CASE ReadGoAway
  BY <1>9 DEF ReadGoAway, Receive
<1>10. CASE CountStreams
  BY <1>10 DEF CountStreams
<1>11. CASE PokeSelf
  BY <1>11 DEF PokeSelf
<1>12. CASE Teardown
  BY <1>12 DEF Teardown
<1>13. ASSUME NEW s \in Streams, RemoveStream(s) PROVE TypeOK'
  BY <1>13 DEF RemoveStream
<1>14. ASSUME NEW s \in Streams, LoadDraining(s) PROVE TypeOK'
  <2>1. CASE draining /\ ~drainDone
    BY <1>14, <2>1 DEF LoadDraining
  <2>2. CASE ~(draining /\ ~drainDone)
    BY <1>14, <2>2 DEF LoadDraining
  <2> QED
    BY <2>1, <2>2
<1>15. ASSUME NEW s \in Streams, Poke(s) PROVE TypeOK'
  BY <1>15 DEF Poke
<1>16. CASE CloseShutdownCh
  BY <1>16 DEF CloseShutdownCh
<1>17. CASE PoolPokes
  BY <1>17 DEF PoolPokes
<1>18. CASE IdleTick
  BY <1>18 DEF IdleTick
<1>19. CASE PeerGoesSilent
  BY <1>19 DEF PeerGoesSilent
<1>20. CASE UNCHANGED vars
  BY <1>20
<1> QED
  BY <1>1, <1>2, <1>3, <1>4, <1>5, <1>6, <1>7, <1>8, <1>9, <1>10, <1>11,
     <1>12, <1>13, <1>14, <1>15, <1>16, <1>17, <1>18, <1>19, <1>20
     DEF Next, Reader, Frame, Handler

(* BeginDrain stores draining and then counts; RemoveStream deletes and     *)
(* then loads.  Whoever comes second sees what the first has done.          *)
LEMMA StepDrain == TypeOK /\ DrainNotMissed /\ [Next]_vars => DrainNotMissed'
<1> SUFFICES ASSUME TypeOK, DrainNotMissed, [Next]_vars PROVE DrainNotMissed'
  OBVIOUS
<1> USE DEF TypeOK, DrainNotMissed, vars, reader, drain
<1>1. CASE AwaitSettings
  BY <1>1 DEF AwaitSettings, Exit
<1>2. CASE Check
  BY <1>2 DEF Check, Exit
<1>3. CASE SetIdleDeadline
  BY <1>3 DEF SetIdleDeadline
<1>4. CASE ReadTimeout
  BY <1>4 DEF ReadTimeout, Exit
<1>5. CASE ReadFails
  BY <1>5 DEF ReadFails, Exit
<1>6. ASSUME NEW s \in Streams, ReadHeaders(s) PROVE DrainNotMissed'
  BY <1>6 DEF ReadHeaders, Receive, Dispatch
<1>7. CASE ReadContinuation
  BY <1>7 DEF ReadContinuation, Exit, Dispatch
<1>8. CASE ReadOther
  BY <1>8 DEF ReadOther, Receive
<1>9. CASE ReadGoAway
  BY <1>9 DEF ReadGoAway, Receive
<1>10. CASE CountStreams
  BY <1>10 DEF CountStreams
<1>11. CASE PokeSelf
  BY <1>11 DEF PokeSelf
<1>12. CASE Teardown
  BY <1>12 DEF Teardown
<1>13. ASSUME NEW s \in Streams, RemoveStream(s) PROVE DrainNotMissed'
  BY <1>13 DEF RemoveStream
<1>14. ASSUME NEW s \in Streams, LoadDraining(s) PROVE DrainNotMissed'
  BY <1>14 DEF LoadDraining
<1>15. ASSUME NEW s \in Streams, Poke(s) PROVE DrainNotMissed'
  BY <1>15 DEF Poke
<1>16. CASE CloseShutdownCh
  BY <1>16 DEF CloseShutdownCh
<1>17. CASE PoolPokes
  BY <1>17 DEF PoolPokes
<1>18. CASE IdleTick
  BY <1>18 DEF IdleTick
<1>19. CASE PeerGoesSilent
  BY <1>19 DEF PeerGoesSilent
<1>20. CASE UNCHANGED vars
  BY <1>20
<1> QED
  BY <1>1, <1>2, <1>3, <1>4, <1>5, <1>6, <1>7, <1>8, <1>9, <1>10, <1>11,
     <1>12, <1>13, <1>14, <1>15, <1>16, <1>17, <1>18, <1>19, <1>20
     DEF Next, Reader, Frame, Handler

-----------------------------------------------------------------------------
(* The frame loop keeps its types; in particular only streams the peer      *)
(* opened enter the registry, also by way of a CONTINUATION.                *)
THEOREM TypeCorrect == Spec => []TypeOK
<1>1. Init => TypeOK
  BY DEF Init, TypeOK
<1> QED
  BY <1>1, StepType, PTL DEF Spec

(* BeginDrain and RemoveStream: when the last stream of a draining tunnel   *)
(* is gone, the drain is complete or somebody is about to complete it.      *)
THEOREM Drain == Spec => []DrainNotMissed
<1>1. Init => DrainNotMissed
  BY DEF Init, DrainNotMissed
<1> QED
  BY <1>1, TypeCorrect, StepDrain, PTL DEF Spec

=============================================================================
