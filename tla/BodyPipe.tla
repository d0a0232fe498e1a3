------------------------------ MODULE BodyPipe ------------------------------
(***************************************************************************)
(* What a stream's body promises its reader (internal/h2/stream.go, Body): *)
(* the bytes pushed by the frame reader come out in order and without      *)
(* gaps, and the end of the body, or the error that cut it short, is       *)
(* reported only when every byte has come out.  A reader that closes the   *)
(* body gives up the bytes it has not read.  The stream that carries it is *)
(* used again and again: no byte and no end of one use shows in the next.  *)
(***************************************************************************)
EXTENDS Naturals, Sequences

CONSTANTS MaxBytes  \* bound: bytes sent on the stream

VARIABLES
    pushed,   \* number of bytes the peer has sent; byte i has value i
    pipe,     \* bytes not read yet
    out,      \* bytes the reader has got
    end,      \* "open", "eof" or "err": how the body ends once pipe is empty
    result,   \* what the reader was told last
    inUse     \* the stream belongs to a reader: it is not back in its pool

vars == <<pushed, pipe, out, end, result, inUse>>

Init ==
    /\ pushed = 0
    /\ pipe = <<>>
    /\ out = <<>>
    /\ end = "open"
    /\ result = "none"
    /\ inUse = TRUE

Push ==
    \E n \in 1..(MaxBytes - pushed) :
        /\ pushed' = pushed + n
        /\ pipe' = pipe \o [i \in 1..n |-> pushed + i]
        /\ UNCHANGED <<out, end, result, inUse>>

End ==
    /\ end' \in {"eof", "err"}
    /\ end = "err" => end' = "err"
    /\ UNCHANGED <<pushed, pipe, out, result, inUse>>

Deliver ==
    /\ inUse
    /\ \E n \in 1..Len(pipe) :
          /\ out' = out \o SubSeq(pipe, 1, n)
          /\ pipe' = SubSeq(pipe, n + 1, Len(pipe))
    /\ result' = "data"
    /\ UNCHANGED <<pushed, end, inUse>>

ReportEnd ==
    /\ inUse
    /\ pipe = <<>>
    /\ end # "open"
    /\ result' = end
    /\ UNCHANGED <<pushed, pipe, out, end, inUse>>

Discard ==
    /\ pipe' = <<>>
    /\ UNCHANGED <<pushed, out, end, result, inUse>>

(* The stream goes back to its pool: what was not read is dropped, ...      *)
Recycle ==
    /\ inUse
    /\ inUse' = FALSE
    /\ pipe' = <<>>
    /\ UNCHANGED <<pushed, out, end, result>>

(* ... and the error, and perhaps what has come in meanwhile ...            *)
Scrub ==
    /\ ~inUse
    /\ pipe' \in {<<>>, pipe}
    /\ end' = IF end = "err" THEN "eof" ELSE end
    /\ UNCHANGED <<pushed, out, result, inUse>>

(* ... and the next use begins afresh. *)
Reuse == ~inUse /\ Init'

Next ==
    \/ Push \/ End \/ Deliver \/ ReportEnd \/ Discard
    \/ Recycle \/ Scrub \/ Reuse

Spec == Init /\ [][Next]_vars

=============================================================================
