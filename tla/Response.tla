------------------------------ MODULE Response ------------------------------
(***************************************************************************)
(* One response of the worker: responseWriter (writer.go) driven by an     *)
(* arbitrary http.Handler, and serveStream (stream.go) around it.  The     *)
(* handler sets Content-Length, calls WriteHeader, Write and Flush in any  *)
(* order, and returns or panics.  Frames go to the writer goroutine's      *)
(* queue in order; sends fail once the connection has broken.              *)
(***************************************************************************)
EXTENDS Integers, Sequences

CONSTANTS
    MaxCL,       \* bound: largest Content-Length a handler declares
    MaxWrite,    \* bound: bytes in one Write
    MaxCalls     \* bound: calls the handler makes on its ResponseWriter

ASSUME BoundAssumption == {MaxCL, MaxWrite, MaxCalls} \subseteq Nat

(* Values of the Content-Length header that are not a decimal length. *)
Absent == -1
Malformed == -2
Empty == -3

VARIABLES
    isHead,                    \* the request is a HEAD request
    CL,                        \* stream.Header["Content-Length"]
    status, prepared, wroteHeaders, noBody, clViolated,
    declaredCL, written, err,  \* the fields of responseWriter
    left,                      \* bytes the current Write has still to send
    pc,                        \* serveStream: "start", "handler", "flush",
                               \* "write", "completed", "done"
    calls, requested,          \* handler calls, and bytes it has passed to Write
    dataDone,                  \* the request body has ended
    broken,                    \* sends fail
    wire                       \* frames of the stream queued for the peer

rw == <<status, prepared, wroteHeaders, noBody, clViolated, declaredCL,
        written, err>>
env == <<dataDone, broken>>
vars == <<isHead, CL, rw, left, pc, calls, requested, env, wire>>

Frame(kind, end) == [kind |-> kind, end |-> end, cl |-> Absent, len |-> 0,
                     bodyless |-> FALSE, code |-> "none"]

Data(n, end) == [Frame("DATA", end) EXCEPT !.len = n]

RST(code) == [Frame("RST", FALSE) EXCEPT !.code = code]

Init ==
    /\ isHead \in BOOLEAN
    /\ CL = Absent
    /\ status = 0
    /\ prepared = FALSE
    /\ wroteHeaders = FALSE
    /\ noBody = FALSE
    /\ clViolated = FALSE
    /\ declaredCL = 0
    /\ written = 0
    /\ err = FALSE
    /\ left = 0
    /\ pc = "start"
    /\ calls = 0
    /\ requested = 0
    /\ dataDone \in BOOLEAN
    /\ broken = FALSE
    /\ wire = <<>>

-----------------------------------------------------------------------------
(* Pieces of responseWriter's methods.  rw is passed on as a record, since  *)
(* a method may change it several times before it returns.                  *)

RW == [status |-> status, prepared |-> prepared, wroteHeaders |-> wroteHeaders,
       noBody |-> noBody, declaredCL |-> declaredCL, err |-> err, CL |-> CL,
       wire |-> wire]

Set(r) ==
    /\ status' = r.status
    /\ prepared' = r.prepared
    /\ wroteHeaders' = r.wroteHeaders
    /\ noBody' = r.noBody
    /\ declaredCL' = r.declaredCL
    /\ err' = r.err
    /\ CL' = r.CL
    /\ wire' = r.wire

Send(r, f) == IF broken THEN [r EXCEPT !.err = TRUE]
              ELSE [r EXCEPT !.wire = Append(@, f)]

Reset_lost(w, code) == w  \* mutant: no RST_STREAM

(* RST_STREAM is sent without waiting for the outcome. *)
Reset(w, code) == IF broken THEN w ELSE Append(w, RST(code))

BodyAllowedForStatus(s) == s \notin {204, 304}

DeclaredLength_ignored(r) == -1    \* mutant: Content-Length not looked at

DeclaredLength(r) == IF r.CL >= 0 THEN r.CL ELSE -1

(* The default status, whether a body is allowed, the declared length; a    *)
(* value that does not parse is dropped from the header.                    *)
Prepare(r) ==
    IF r.prepared THEN r
    ELSE LET s == IF r.status = 0 THEN 200 ELSE r.status IN
         [r EXCEPT !.prepared = TRUE,
                   !.status = s,
                   !.noBody = isHead \/ ~BodyAllowedForStatus(s),
                   !.declaredCL = DeclaredLength(r),
                   !.CL = IF r.CL = Malformed THEN Absent ELSE r.CL]

WriteHeaders(r, end) ==
    IF r.wroteHeaders THEN r
    ELSE LET p == Prepare(r) IN
         Send([p EXCEPT !.wroteHeaders = TRUE],
              [Frame("HEADERS", end) EXCEPT !.cl = p.CL, !.bodyless = p.noBody])

-----------------------------------------------------------------------------
(* Calls of the handler. *)

Call == /\ pc = "handler"
        /\ calls < MaxCalls
        /\ calls' = calls + 1

(* Header().Set("Content-Length", v), or Del. *)
SetContentLength ==
    /\ Call
    /\ CL' \in {Absent, Malformed, Empty} \cup 0..MaxCL
    /\ UNCHANGED <<isHead, rw, left, pc, requested, env, wire>>

(* 1xx is sent at once, 101 dropped; other codes are remembered.            *)
WriteHeader(code) ==
    /\ Call
    /\ LET ignored == prepared \/ err IN
       IF ignored \/ code = 101 THEN Set(RW)
       ELSE IF code < 200
       THEN Set(IF status = 0 THEN Send(RW, Frame("INTERIM", FALSE)) ELSE RW)
       ELSE Set([RW EXCEPT !.status = code])
    /\ UNCHANGED <<isHead, clViolated, written, left, pc, requested, env>>

Flush ==
    /\ Call
    /\ LET p == Prepare(RW)
           h == WriteHeaders(p, FALSE)
       IN IF err THEN Set(RW) /\ UNCHANGED pc
          ELSE IF p.noBody THEN Set(p) /\ UNCHANGED pc
          ELSE Set(h) /\ pc' = IF h.err THEN "handler" ELSE "flush"
    /\ UNCHANGED <<isHead, clViolated, written, left, requested, env>>

FlushData ==
    /\ pc = "flush"
    /\ Set(Send(RW, Data(0, FALSE)))
    /\ pc' = "handler"
    /\ UNCHANGED <<isHead, clViolated, written, left, calls, requested, env>>

(* Mutant: the refusal is reported to the handler and forgotten. *)
Refuse_unlatched(h) == Set(h) /\ UNCHANGED clViolated

(* A Write past the declared length is refused for good. *)
Refuse(h) == Set([h EXCEPT !.err = TRUE]) /\ clViolated' = TRUE

(* Write up to its loop: it fails, is discarded, or starts to send.         *)
Write(n) ==
    /\ Call
    /\ LET p == Prepare(RW)
           h == WriteHeaders(p, FALSE)
           excess == h.declaredCL >= 0 /\ written + n > h.declaredCL
       IN IF err THEN Set(RW) /\ UNCHANGED <<clViolated, left, pc>>
          ELSE IF p.noBody THEN Set(p) /\ UNCHANGED <<clViolated, left, pc>>
          ELSE IF h.err \/ n = 0 THEN Set(h) /\ UNCHANGED <<clViolated, left, pc>>
          ELSE IF excess
          THEN Refuse(h) /\ UNCHANGED <<left, pc>>
          ELSE Set(h) /\ left' = n /\ pc' = "write" /\ UNCHANGED clViolated
    /\ requested' = requested + n
    /\ UNCHANGED <<isHead, written, env>>

(* One turn of the loop: Reserve grants part of what is left ...            *)
WriteChunk ==
    /\ pc = "write"
    /\ \E got \in 1..left :
          LET r == Send(RW, Data(got, FALSE)) IN
          /\ Set(r)
          /\ IF r.err
             THEN pc' = "handler" /\ left' = 0 /\ UNCHANGED written
             ELSE /\ left' = left - got
                  /\ written' = written + got
                  /\ pc' = IF got = left THEN "handler" ELSE "write"
    /\ UNCHANGED <<isHead, clViolated, calls, requested, env>>

(* ... or reports that the connection is dead. *)
WriteConnDead ==
    /\ pc = "write"
    /\ broken
    /\ err' = TRUE
    /\ left' = 0
    /\ pc' = "handler"
    /\ UNCHANGED <<isHead, CL, status, prepared, wroteHeaders, noBody,
                   clViolated, declaredCL, written, calls, requested, env, wire>>

-----------------------------------------------------------------------------
(* serveStream. *)

Start ==
    /\ pc = "start"
    /\ pc' = "handler"
    /\ UNCHANGED <<isHead, CL, rw, left, calls, requested, env, wire>>

(* parseRequestURI rejects the :path. *)
BadPath ==
    /\ pc = "start"
    /\ wire' = Reset(wire, "PROTOCOL_ERROR")
    /\ pc' = "done"
    /\ UNCHANGED <<isHead, CL, rw, left, calls, requested, env>>

Panic ==
    /\ pc = "handler"
    /\ IF wroteHeaders
       THEN Set([RW EXCEPT !.wire = Reset(wire, "INTERNAL_ERROR")])
       ELSE Set(WriteHeaders([RW EXCEPT !.status = 500, !.CL = Absent,
                                        !.declaredCL = -1], TRUE))
    /\ pc' = "done"
    /\ UNCHANGED <<isHead, clViolated, written, left, calls, requested, env>>

(* The handler returned: end the stream, or reset it if the body does not   *)
(* match its declared length.                                               *)
Return ==
    /\ pc = "handler"
    /\ LET p == Prepare(RW)
           short == ~p.noBody /\ p.declaredCL >= 0 /\ written < p.declaredCL
           ended == IF wroteHeaders THEN Send(p, Data(0, TRUE))
                    ELSE WriteHeaders(p, TRUE)
       IN IF clViolated
          THEN Set([RW EXCEPT !.wire = Reset(wire, "INTERNAL_ERROR")]) /\ pc' = "done"
          ELSE IF err THEN Set(RW) /\ pc' = "done"
          ELSE IF short
          THEN Set([p EXCEPT !.wire = Reset(wire, "INTERNAL_ERROR")]) /\ pc' = "done"
          ELSE Set(ended) /\ pc' = IF ended.err THEN "done" ELSE "completed"
    /\ UNCHANGED <<isHead, clViolated, written, left, calls, requested, env>>

(* Stop a request body that is still coming. *)
StopRequestBody ==
    /\ pc = "completed"
    /\ wire' = IF dataDone THEN wire ELSE Reset(wire, "NO_ERROR")
    /\ pc' = "done"
    /\ UNCHANGED <<isHead, CL, rw, left, calls, requested, env>>

-----------------------------------------------------------------------------
(* The rest of the connection. *)

RequestBodyEnds ==
    /\ ~dataDone
    /\ pc # "done"
    /\ dataDone' = TRUE
    /\ UNCHANGED <<isHead, CL, rw, left, pc, calls, requested, broken, wire>>

Break ==
    /\ ~broken
    /\ pc # "done"
    /\ broken' = TRUE
    /\ UNCHANGED <<isHead, CL, rw, left, pc, calls, requested, dataDone, wire>>

Statuses == {100, 101, 200, 204}

Next ==
    \/ Start \/ BadPath
    \/ SetContentLength
    \/ \E code \in Statuses : WriteHeader(code)
    \/ Flush \/ FlushData
    \/ \E n \in 0..MaxWrite : Write(n)
    \/ WriteChunk \/ WriteConnDead
    \/ Return \/ Panic \/ StopRequestBody
    \/ RequestBodyEnds \/ Break

Spec == Init /\ [][Next]_vars

-----------------------------------------------------------------------------
Wire == INSTANCE ResponseWire

(* Whatever the handler does, the frames of the stream form a legal         *)
(* response: ResponseWire.                                                  *)
LegalResponse == Wire!Spec

(* On a connection that works, a stream whose handler has finished has been *)
(* ended or reset: the peer is never left waiting.                          *)
StreamTerminated == pc = "done" /\ ~broken => Wire!Terminated(wire)

(* A response that may carry a body and ends with END_STREAM carries every  *)
(* byte the handler passed to Write: a Write that failed half-way or was    *)
(* refused never leads to a clean end.                                      *)
CompleteBody ==
    Wire!Ended(wire) /\ ~Wire!Headers(wire).bodyless =>
        Wire!BodyBytes(wire) = requested

(* prepare: "A Content-Length that doesn't parse as a decimal length is     *)
(* dropped rather than forwarded".  Does not hold for an empty value, nor   *)
(* for one set after prepare has run.                                       *)
ForwardsOnlyLengths ==
    \A i \in DOMAIN wire : wire[i].cl \notin {Malformed, Empty}

=============================================================================
