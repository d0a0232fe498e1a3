---------------------------- MODULE ResponseWire ----------------------------
(***************************************************************************)
(* What the peer may see of one response on its stream: interim HEADERS,   *)
(* the final HEADERS, DATA, and one end, which is END_STREAM or RST_STREAM.*)
(* END_STREAM promises that the body has the declared length; a response   *)
(* that carries no body (HEAD, 204, 304) ends with its HEADERS.  After     *)
(* END_STREAM only RST_STREAM(NO_ERROR) may follow, to stop the request    *)
(* body.                                                                   *)
(***************************************************************************)
EXTENDS Totals

VARIABLES wire     \* frames sent so far on the stream, in order

Has(w, kind) == \E i \in DOMAIN w : w[i].kind = kind

Ended(w) == \E i \in DOMAIN w : w[i].end

Terminated(w) == Ended(w) \/ Has(w, "RST")

(* The final HEADERS: Legal allows only one frame of this kind. *)
Finals(w) == {f \in {w[i] : i \in DOMAIN w} : f.kind = "HEADERS"}

Headers(w) == CHOOSE f \in Finals(w) : TRUE

BodyBytes(w) == Total([i \in DOMAIN w |-> w[i].len])

Legal(f) ==
    CASE f.kind = "INTERIM" -> ~Has(wire, "HEADERS") /\ ~Terminated(wire) /\ ~f.end
      [] f.kind = "HEADERS" ->
            /\ ~Has(wire, "HEADERS") /\ ~Terminated(wire)
            /\ f.end /\ ~f.bodyless => f.cl <= 0
            /\ f.bodyless => f.end
      [] f.kind = "DATA" ->
            /\ Has(wire, "HEADERS") /\ ~Terminated(wire)
            /\ LET cl == Headers(wire).cl
                   n == BodyBytes(wire) + f.len
               IN cl >= 0 => n <= cl /\ (f.end => n = cl)
      [] f.kind = "RST" ->
            ~Has(wire, "RST") /\ (Ended(wire) <=> f.code = "NO_ERROR")

Init == wire = <<>>

Next == /\ wire' # <<>>
        /\ LET f == wire'[Len(wire')] IN wire' = Append(wire, f) /\ Legal(f)

Spec == Init /\ [][Next]_wire

=============================================================================
