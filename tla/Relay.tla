------------------------------- MODULE Relay -------------------------------
(***************************************************************************)
(* A response from the handler to the public client: the frames that       *)
(* module Response queues at the worker are read by the proxy's tunnel     *)
(* loop (deliverResponse, HandleInboundData, cs.fail), which hands them to *)
(* the forwarder (waitForResponseHeaders, writeResponse).  The tunnel may  *)
(* be lost and the client may leave at any point.                          *)
(***************************************************************************)
EXTENDS Response

VARIABLES
    handled,   \* frames of wire the proxy's frame reader has handled
    lost,      \* the proxy has torn the tunnel down
    resp,      \* respOnce: "none", "INTERIM", "HEADERS" or "failed"
    queued,    \* bytes in the stream's body queue
    dataEnd,   \* dataDone and dataErr: "open", "eof" or "err"
    fwd,       \* forwarder: "wait", "copy", "ended" or "left"
    out        \* body bytes written to the client

proxy == <<handled, lost, resp, queued, dataEnd, fwd, out>>
relayVars == <<vars, proxy>>

RelayInit ==
    /\ Init
    /\ handled = 0
    /\ lost = FALSE
    /\ resp = "none"
    /\ queued = 0
    /\ dataEnd = "open"
    /\ fwd = "wait"
    /\ out = 0

Registered == fwd \in {"wait", "copy"}

(* respOnce.Do: the first response HEADERS or failure counts. *)
Once(x) == resp' = IF resp = "none" THEN x ELSE resp

(* CloseData and FailBody; the error of a later RST_STREAM replaces a clean *)
(* end that has not been read yet, never the other way round.               *)
End(f) ==
    dataEnd' = IF f.kind = "RST" THEN "err"
               ELSE IF f.end /\ dataEnd = "open" THEN "eof" ELSE dataEnd

(* The frame reader handles the next frame of the stream. *)
Deliver ==
    /\ handled < Len(wire) /\ ~lost /\ Registered
    /\ handled' = handled + 1
    /\ LET f == wire[handled + 1] IN
       /\ CASE f.kind \in {"INTERIM", "HEADERS"} -> Once(f.kind)
            [] f.kind = "RST" -> Once("failed")
            [] OTHER -> UNCHANGED resp
       /\ queued' = queued + f.len
       /\ End(f)
    /\ UNCHANGED <<vars, lost, fwd, out>>

(* failAllStreams, when the tunnel is torn down. *)
Lose ==
    /\ ~lost /\ Registered
    /\ lost' = TRUE
    /\ Once("failed")
    /\ dataEnd' = "err"
    /\ UNCHANGED <<vars, handled, queued, fwd, out>>

-----------------------------------------------------------------------------
(* The forwarder. *)

(* waitForResponseHeaders: the response, a 502, or a client that left. *)
Respond ==
    /\ fwd = "wait"
    /\ resp # "none"
    /\ fwd' = IF resp = "failed" THEN "left" ELSE "copy"
    /\ UNCHANGED <<vars, handled, lost, resp, queued, dataEnd, out>>

Cancel ==
    /\ fwd = "wait"
    /\ fwd' = "left"
    /\ UNCHANGED <<vars, handled, lost, resp, queued, dataEnd, out>>

(* A Read that returns bytes; the Write to the client may fail.             *)
Copy ==
    /\ fwd = "copy"
    /\ \E n \in 1..queued :
          /\ queued' = queued - n
          /\ \/ out' = out + n /\ UNCHANGED fwd
             \/ fwd' = "left" /\ UNCHANGED out
    /\ UNCHANGED <<vars, handled, lost, resp, dataEnd>>

BodyRead_early == dataEnd # "open"  \* mutant: the end is seen before the queue

(* Read reports EOF or an error only once the queue is empty. *)
BodyRead == dataEnd # "open" /\ queued = 0

CopyEnds ==
    /\ fwd = "copy"
    /\ BodyRead
    /\ fwd' = "ended"
    /\ UNCHANGED <<vars, handled, lost, resp, queued, dataEnd, out>>

RelayNext ==
    \/ Next /\ UNCHANGED proxy
    \/ Deliver \/ Lose
    \/ Respond \/ Cancel \/ Copy \/ CopyEnds

RelaySpec == RelayInit /\ [][RelayNext]_relayVars

-----------------------------------------------------------------------------
(* A client whose response writeResponse has copied to the end, when that   *)
(* end was the worker's END_STREAM, has the final status and every byte     *)
(* that the handler wrote.  Interim responses are excepted: deliverHeaders  *)
(* takes the first HEADERS for the response.                                *)
ResponseRelayed ==
    LET seen == SubSeq(wire, 1, handled) IN
    fwd = "ended" /\ Wire!Ended(seen) =>
        /\ Wire!Has(seen, "INTERIM") \/ resp = "HEADERS"
        /\ Wire!Headers(seen).bodyless \/ out = requested

=============================================================================
