---------------------------- MODULE ResponseProofs ---------------------------
(***************************************************************************)
(* What TLAPS proves of a response, for any declared length, any sizes and *)
(* any number of Writes: the frames of the stream form a legal response    *)
(* (Response implements ResponseWire), a finished handler leaves no open   *)
(* stream, a clean end means a complete body, and the proxy hands exactly  *)
(* that body to the public client (Relay).                                 *)
(***************************************************************************)
EXTENDS Relay, SequenceLemmas

(* The frames of a stream.  Only DATA has a length. *)
Frames ==
    {f \in [kind : {"INTERIM", "HEADERS", "DATA", "RST"}, end : BOOLEAN,
            cl : Int, len : Nat, bodyless : BOOLEAN,
            code : {"none", "NO_ERROR", "INTERNAL_ERROR", "PROTOCOL_ERROR"}] :
        f.kind # "DATA" => f.len = 0}

Lens(w) == [i \in DOMAIN w |-> w[i].len]

(* Totals as ResponseWire instantiates it is Totals as the lemmas use it.   *)
LEMMA WireTotal ==
  ASSUME NEW s
  PROVE  Wire!Total(s) = Total(s)
BY Zenon DEF Total, Partial, Wire!Total, Wire!Partial

(* The lengths of the frames are natural numbers. *)
LEMMA LensShape ==
  ASSUME NEW w \in Seq(Frames)
  PROVE  /\ Lens(w) \in Seq(Nat) /\ Len(Lens(w)) = Len(w)
         /\ \A i \in 1..Len(w) : Lens(w)[i] = w[i].len
<1>1. \A f \in Frames : f.len \in Nat
  BY Zenon DEF Frames
<1>2. DOMAIN w = 1..Len(w) /\ \A i \in 1..Len(w) : w[i] \in Frames
  OBVIOUS
<1>3. \A i \in 1..Len(w) : w[i].len \in Nat
  BY <1>1, <1>2, Zenon
<1> QED BY <1>2, <1>3 DEF Lens

(* One more frame adds its length. *)
LEMMA LensAppend ==
  ASSUME NEW w \in Seq(Frames), NEW f \in Frames
  PROVE  Lens(Append(w, f)) = Append(Lens(w), f.len)
<1> DEFINE t == Append(w, f)
           l == Lens(t)
           p == Lens(w)
           r == Append(p, f.len)
<1>1. t \in Seq(Frames) /\ Len(t) = Len(w) + 1 /\ t[Len(w) + 1] = f
      /\ \A i \in 1..Len(w) : t[i] = w[i]
  OBVIOUS
<1>2. /\ p \in Seq(Nat) /\ Len(p) = Len(w)
      /\ \A i \in 1..Len(w) : p[i] = w[i].len
  BY LensShape, Zenon
<1>3. /\ l \in Seq(Nat) /\ Len(l) = Len(t)
      /\ \A i \in 1..Len(t) : l[i] = t[i].len
  BY <1>1, LensShape, Zenon
<1>4. f.len \in Nat
  BY Zenon DEF Frames
<1> HIDE DEF t, l, p
<1>5. r \in Seq(Nat) /\ Len(r) = Len(w) + 1 /\ r[Len(w) + 1] = f.len
      /\ \A i \in 1..Len(w) : r[i] = p[i]
  BY <1>2, <1>4
<1> HIDE DEF r
<1>6. \A i \in 1..Len(l) : l[i] = r[i]
  <2> TAKE i \in 1..Len(l)
  <2>1. i \in 1..Len(w) \/ i = Len(w) + 1
    BY <1>1, <1>3
  <2>2. i \in 1..Len(t)
    BY <1>3, Zenon
  <2> QED BY <1>1, <1>2, <1>3, <1>5, <2>1, <2>2, Zenon
<1>7. l = r
  BY <1>1, <1>3, <1>5, <1>6, SameSequence, Zenon
<1> QED BY <1>7, Zenon DEF l, t, r, p

(* What a frame adds to the wire. *)
LEMMA WireAppend ==
  ASSUME NEW w \in Seq(Frames), NEW f \in Frames
  PROVE  /\ Append(w, f) \in Seq(Frames)
         /\ \A k : Wire!Has(Append(w, f), k) <=> Wire!Has(w, k) \/ f.kind = k
         /\ Wire!Ended(Append(w, f)) <=> Wire!Ended(w) \/ f.end
         /\ Wire!BodyBytes(Append(w, f)) = Wire!BodyBytes(w) + f.len
         /\ f.kind # "HEADERS" => Wire!Headers(Append(w, f)) = Wire!Headers(w)
         /\ f.kind = "HEADERS" /\ ~Wire!Has(w, "HEADERS")
                => Wire!Headers(Append(w, f)) = f
<1> DEFINE t == Append(w, f)
<1>1. /\ t \in Seq(Frames) /\ Len(t) = Len(w) + 1 /\ t[Len(w) + 1] = f
      /\ DOMAIN w = 1..Len(w) /\ DOMAIN t = 1..(Len(w) + 1)
      /\ \A i \in 1..Len(w) : t[i] = w[i]
  OBVIOUS
<1>2. /\ \A i \in DOMAIN t : i \in DOMAIN w \/ i = Len(w) + 1
      /\ Len(w) + 1 \in DOMAIN t
      /\ \A i \in DOMAIN w : i \in DOMAIN t /\ t[i] = w[i]
  BY <1>1
<1>3. Wire!BodyBytes(t) = Wire!BodyBytes(w) + f.len
  <2>1. Lens(w) \in Seq(Int) /\ f.len \in Int
    <3>1. Lens(w) \in Seq(Nat)
      BY LensShape, Zenon
    <3> QED BY <3>1 DEF Frames
  <2>2. Total(Append(Lens(w), f.len)) = Total(Lens(w)) + f.len
    BY <2>1, TotalAppend, Zenon
  <2>3. Lens(t) = Append(Lens(w), f.len)
    BY LensAppend, Zenon
  <2> QED BY <2>2, <2>3, WireTotal, Zenon DEF Wire!BodyBytes, Lens
<1> HIDE DEF t
<1>4. \A k : Wire!Has(t, k) <=> Wire!Has(w, k) \/ f.kind = k
  BY <1>1, <1>2, Zenon DEF Wire!Has
<1>5. Wire!Ended(t) <=> Wire!Ended(w) \/ f.end
  BY <1>1, <1>2, Zenon DEF Wire!Ended
<1>6. {t[i] : i \in DOMAIN t} = {w[i] : i \in DOMAIN w} \cup {f}
  BY <1>1, <1>2, Zenon
<1>7. ASSUME f.kind # "HEADERS" PROVE Wire!Headers(t) = Wire!Headers(w)
  <2>1. Wire!Finals(t) = Wire!Finals(w)
    BY <1>6, <1>7, Zenon DEF Wire!Finals
  <2> QED BY <2>1, Zenon DEF Wire!Headers
<1>8. ASSUME f.kind = "HEADERS", ~Wire!Has(w, "HEADERS") PROVE Wire!Headers(t) = f
  <2>1. \A i \in DOMAIN w : w[i].kind # "HEADERS"
    BY <1>8, Zenon DEF Wire!Has
  <2>2. Wire!Finals(t) = {f}
    BY <1>6, <1>8, <2>1, Zenon DEF Wire!Finals
  <2> QED BY <2>2, Zenon DEF Wire!Headers
<1> QED BY <1>1, <1>3, <1>4, <1>5, <1>7, <1>8, Zenon DEF t

(* An empty wire has no header, no end and no bytes. *)
LEMMA WireEmpty ==
  /\ <<>> \in Seq(Frames)
  /\ \A k : ~Wire!Has(<<>>, k)
  /\ ~Wire!Ended(<<>>)
  /\ Wire!BodyBytes(<<>>) = 0
<1>1. <<>> \in Seq(Frames) /\ DOMAIN <<>> = {}
  OBVIOUS
<1>2. Lens(<<>>) = <<>>
  BY DEF Lens
<1>3. Wire!BodyBytes(<<>>) = 0
  BY <1>2, WireTotal, TotalEmpty, Zenon DEF Wire!BodyBytes, Lens
<1> QED BY <1>1, <1>3, Zenon DEF Wire!Has, Wire!Ended

(* The bytes of a body are a natural number. *)
LEMMA WireBytes ==
  ASSUME NEW w \in Seq(Frames)
  PROVE  Wire!BodyBytes(w) \in Nat
<1>1. Lens(w) \in Seq(Nat)
  BY LensShape, Zenon
<1> QED BY <1>1, TotalNat, WireTotal, Zenon DEF Wire!BodyBytes, Lens

-----------------------------------------------------------------------------
(* The inductive invariant of a response. *)

sawHeaders == Wire!Has(wire, "HEADERS")
sawRST == Wire!Has(wire, "RST")
ended == Wire!Ended(wire)
bytes == Wire!BodyBytes(wire)
final == Wire!Headers(wire)

ResponseTypeOK ==
    /\ isHead \in BOOLEAN /\ dataDone \in BOOLEAN /\ broken \in BOOLEAN
    /\ prepared \in BOOLEAN /\ wroteHeaders \in BOOLEAN /\ noBody \in BOOLEAN
    /\ clViolated \in BOOLEAN /\ err \in BOOLEAN
    /\ status \in Int /\ CL \in Int /\ declaredCL \in Int
    /\ written \in Nat /\ left \in Nat /\ requested \in Nat
    /\ pc \in {"start", "handler", "flush", "write", "completed", "done"}
    /\ wire \in Seq(Frames)

(* The header has gone out iff wroteHeaders says so, or it was lost with    *)
(* the connection; a response without a body ends with its header, and the  *)
(* length it declares is the one Write counts against.                      *)
HeadersInv ==
    /\ wroteHeaders => prepared /\ (sawHeaders \/ broken)
    /\ sawHeaders => wroteHeaders
    /\ noBody => prepared
    /\ prepared /\ ~noBody /\ pc # "done" => wroteHeaders
    /\ wroteHeaders /\ noBody => pc \in {"completed", "done"}
    /\ sawHeaders => (final.bodyless <=> noBody) /\ (noBody => ended)
    /\ sawHeaders /\ ~noBody => /\ final.cl >= 0 => declaredCL = final.cl
                                /\ declaredCL >= 0 => final.cl = declaredCL

(* The bytes on the wire are those Write counts, and those the handler has  *)
(* asked for unless a Write has failed.                                     *)
BodyInv ==
    /\ bytes = written
    /\ ~wroteHeaders => written = 0
    /\ pc # "write" => left = 0
    /\ ~noBody /\ ~err => written + left = requested
    /\ ~noBody /\ declaredCL >= 0 => written + left <= declaredCL
    /\ ended => noBody \/ written = requested

(* A latched error has a cause, and the stream ends when serveStream ends.  *)
EndInv ==
    /\ err => broken \/ clViolated
    /\ clViolated => err /\ wroteHeaders
    /\ pc \in {"flush", "write"} => wroteHeaders /\ ~err
    /\ ended => sawHeaders /\ pc \in {"completed", "done"}
    /\ sawRST => pc = "done"
    /\ pc = "completed" => ended
    /\ pc = "done" => broken \/ ended \/ sawRST

ResponseInv == ResponseTypeOK /\ HeadersInv /\ BodyInv /\ EndInv

(* A stream that serveStream has just been given satisfies ResponseInv. *)
LEMMA ResponseInitInv ==
  ASSUME Init
  PROVE  ResponseInv
<1>1. wire = <<>>
  BY Zenon DEF Init
<1>2. wire \in Seq(Frames) /\ ~sawHeaders /\ ~sawRST /\ ~ended /\ bytes = 0
  BY <1>1, WireEmpty, Zenon DEF sawHeaders, sawRST, ended, bytes
<1>3. ResponseTypeOK
  <2>1. /\ isHead \in BOOLEAN /\ dataDone \in BOOLEAN /\ broken \in BOOLEAN
        /\ prepared \in BOOLEAN /\ wroteHeaders \in BOOLEAN /\ noBody \in BOOLEAN
        /\ clViolated \in BOOLEAN /\ err \in BOOLEAN
    BY Zenon DEF Init
  <2>2. /\ status \in Int /\ CL \in Int /\ declaredCL \in Int
        /\ written \in Nat /\ left \in Nat /\ requested \in Nat
        /\ pc = "start"
    BY DEF Init, Absent
  <2> QED BY <1>2, <2>1, <2>2, Zenon DEF ResponseTypeOK
<1>4. HeadersInv /\ BodyInv /\ EndInv
  BY <1>2 DEF Init, HeadersInv, BodyInv, EndInv
<1> QED BY <1>3, <1>4, Zenon DEF ResponseInv

(* A step that sends nothing on the stream. *)
LEMMA Silent ==
  ASSUME wire' = wire
  PROVE  /\ sawHeaders' = sawHeaders /\ sawRST' = sawRST /\ ended' = ended
         /\ bytes' = bytes /\ final' = final
BY Zenon DEF sawHeaders, sawRST, ended, bytes, final

(* A step that sends f. *)
LEMMA Sends ==
  ASSUME wire \in Seq(Frames), NEW f \in Frames, wire' = Append(wire, f)
  PROVE  /\ wire' \in Seq(Frames)
         /\ sawHeaders' <=> sawHeaders \/ f.kind = "HEADERS"
         /\ sawRST' <=> sawRST \/ f.kind = "RST"
         /\ ended' <=> ended \/ f.end
         /\ bytes' = bytes + f.len
         /\ f.kind # "HEADERS" => final' = final
         /\ f.kind = "HEADERS" /\ ~sawHeaders => final' = f
         /\ Wire!Legal(f) => Wire!Next
<1>1. wire' # <<>> /\ wire'[Len(wire')] = f
  OBVIOUS
<1>2. Wire!Legal(f) => Wire!Next
  BY <1>1, Zenon DEF Wire!Next
<1> QED BY <1>2, WireAppend, Zenon DEF sawHeaders, sawRST, ended, bytes, final

(* The frames Response sends, and when they are legal. *)
HeaderFrame(end, cl, bodyless) ==
    [Frame("HEADERS", end) EXCEPT !.cl = cl, !.bodyless = bodyless]

(* The frames that the response writer builds, field by field. *)
LEMMA FrameShapes ==
  /\ Frame("INTERIM", FALSE) \in Frames
  /\ Frame("INTERIM", FALSE).kind = "INTERIM" /\ ~Frame("INTERIM", FALSE).end
  /\ Frame("INTERIM", FALSE).len = 0
  /\ \A end, bodyless \in BOOLEAN, cl \in Int :
        LET f == HeaderFrame(end, cl, bodyless) IN
        /\ f \in Frames /\ f.kind = "HEADERS" /\ f.end = end /\ f.len = 0
        /\ f.cl = cl /\ f.bodyless = bodyless
  /\ \A n \in Nat, end \in BOOLEAN :
        LET f == Data(n, end) IN
        f \in Frames /\ f.kind = "DATA" /\ f.end = end /\ f.len = n
  /\ \A code \in {"NO_ERROR", "INTERNAL_ERROR", "PROTOCOL_ERROR"} :
        LET f == RST(code) IN
        f \in Frames /\ f.kind = "RST" /\ ~f.end /\ f.len = 0 /\ f.code = code
<1> DEFINE Kinds == {"INTERIM", "HEADERS", "DATA", "RST"}
           Codes == {"none", "NO_ERROR", "INTERNAL_ERROR", "PROTOCOL_ERROR"}
           R == [kind : Kinds, end : BOOLEAN, cl : Int, len : Nat,
                 bodyless : BOOLEAN, code : Codes]
<1>1. ASSUME NEW kind \in Kinds, NEW end \in BOOLEAN
      PROVE  LET g == Frame(kind, end) IN
             /\ g \in R /\ g.kind = kind /\ g.end = end /\ g.len = 0
  BY DEF Frame, Absent
<1>2. /\ \A g \in R, cl \in Int, b \in BOOLEAN :
            LET f == [g EXCEPT !.cl = cl, !.bodyless = b] IN
            /\ f \in R /\ f.kind = g.kind /\ f.end = g.end /\ f.len = g.len
            /\ f.cl = cl /\ f.bodyless = b
      /\ \A g \in R, n \in Nat :
            LET f == [g EXCEPT !.len = n] IN
            f \in R /\ f.kind = g.kind /\ f.end = g.end /\ f.len = n
      /\ \A g \in R, c \in Codes :
            LET f == [g EXCEPT !.code = c] IN
            f \in R /\ f.kind = g.kind /\ f.end = g.end /\ f.len = g.len /\ f.code = c
  OBVIOUS
<1>3. \A f \in R : (f.kind # "DATA" => f.len = 0) => f \in Frames
  BY Zenon DEF Frames
<1>4. "RST" # "DATA" /\ "HEADERS" # "DATA" /\ "INTERIM" # "DATA"
  BY Zenon
<1>5. Codes \subseteq Codes /\ Kinds = {"INTERIM", "HEADERS", "DATA", "RST"}
      /\ {"NO_ERROR", "INTERNAL_ERROR", "PROTOCOL_ERROR"} \subseteq Codes
  BY Zenon
<1> HIDE DEF R, Codes, Kinds
<1>6. /\ Frame("INTERIM", FALSE) \in Frames
      /\ Frame("INTERIM", FALSE).kind = "INTERIM" /\ ~Frame("INTERIM", FALSE).end
      /\ Frame("INTERIM", FALSE).len = 0
  BY <1>1, <1>3, <1>5, Zenon
<1>7. ASSUME NEW end \in BOOLEAN, NEW bodyless \in BOOLEAN, NEW cl \in Int
      PROVE  LET f == HeaderFrame(end, cl, bodyless) IN
             /\ f \in Frames /\ f.kind = "HEADERS" /\ f.end = end /\ f.len = 0
             /\ f.cl = cl /\ f.bodyless = bodyless
  <2> DEFINE g == Frame("HEADERS", end)
             f == [g EXCEPT !.cl = cl, !.bodyless = bodyless]
  <2>1. g \in R /\ g.kind = "HEADERS" /\ g.end = end /\ g.len = 0
    BY <1>1, <1>5, Zenon
  <2>2. f = HeaderFrame(end, cl, bodyless)
    BY Zenon DEF HeaderFrame
  <2> HIDE DEF g
  <2>3. /\ f \in R /\ f.kind = g.kind /\ f.end = g.end /\ f.len = g.len
        /\ f.cl = cl /\ f.bodyless = bodyless
    BY <2>1, Zenon DEF R, Kinds, Codes
  <2> HIDE DEF f
  <2> QED BY <1>3, <1>4, <2>1, <2>2, <2>3, Zenon
<1>8. ASSUME NEW n \in Nat, NEW end \in BOOLEAN
      PROVE  LET f == Data(n, end) IN
             f \in Frames /\ f.kind = "DATA" /\ f.end = end /\ f.len = n
  <2> DEFINE g == Frame("DATA", end)
             f == [g EXCEPT !.len = n]
  <2>1. g \in R /\ g.kind = "DATA" /\ g.end = end /\ g.len = 0
    BY <1>1, <1>5, Zenon
  <2>2. f = Data(n, end)
    BY Zenon DEF Data
  <2> HIDE DEF g
  <2>3. f \in R /\ f.kind = g.kind /\ f.end = g.end /\ f.len = n
    BY <1>2, <1>5, <2>1, ZenonT(30)
  <2> HIDE DEF f
  <2> QED BY <1>3, <1>4, <2>1, <2>2, <2>3, Zenon
<1>9. ASSUME NEW code \in {"NO_ERROR", "INTERNAL_ERROR", "PROTOCOL_ERROR"}
      PROVE  LET f == RST(code) IN
             f \in Frames /\ f.kind = "RST" /\ ~f.end /\ f.len = 0 /\ f.code = code
  <2> DEFINE g == Frame("RST", FALSE)
             f == [g EXCEPT !.code = code]
  <2>1. g \in R /\ g.kind = "RST" /\ g.end = FALSE /\ g.len = 0
    BY <1>1, <1>5, Zenon
  <2>2. f = RST(code)
    BY Zenon DEF RST
  <2> HIDE DEF g
  <2>3. f \in R /\ f.kind = g.kind /\ f.end = g.end /\ f.len = g.len /\ f.code = code
    BY <1>2, <1>5, <2>1, Zenon
  <2> HIDE DEF f
  <2> QED BY <1>3, <1>4, <2>1, <2>2, <2>3, Zenon
<1> QED BY <1>6, <1>7, <1>8, <1>9, Zenon

(* The frames of a response in the order ResponseWire allows. *)
LEMMA SendsInterim ==
  ASSUME wire \in Seq(Frames), wire' = Append(wire, Frame("INTERIM", FALSE)),
         ~sawHeaders, ~ended, ~sawRST
  PROVE  /\ wire' \in Seq(Frames) /\ ~sawHeaders' /\ ~sawRST' /\ ~ended'
         /\ bytes' = bytes /\ Wire!Next
<1> DEFINE f == Frame("INTERIM", FALSE)
<1>1. f \in Frames /\ f.kind = "INTERIM" /\ ~f.end /\ f.len = 0
  BY FrameShapes, Zenon
<1> HIDE DEF f
<1>2. f.kind # "HEADERS" /\ f.kind # "RST" /\ f.kind # "DATA"
  BY <1>1, Zenon
<1>3. Wire!Legal(f)
  BY <1>1, Zenon DEF Wire!Legal, Wire!Terminated, sawHeaders, sawRST, ended
<1>4. bytes \in Int
  BY WireBytes DEF bytes
<1>5. wire' = Append(wire, f)
  BY Zenon DEF f
<1>6. bytes' = bytes + f.len
  BY <1>1, <1>5, Sends, Zenon
<1>7. bytes' = bytes
  BY <1>1, <1>4, <1>6
<1> QED BY <1>1, <1>2, <1>3, <1>5, <1>7, Sends, Zenon

(* A final HEADERS frame is legal once, and not behind an end. *)
LEMMA SendsHeaders ==
  ASSUME wire \in Seq(Frames),
         NEW end \in BOOLEAN, NEW cl \in Int, NEW bodyless \in BOOLEAN,
         wire' = Append(wire, HeaderFrame(end, cl, bodyless)),
         ~sawHeaders, ~ended, ~sawRST,
         end /\ ~bodyless => cl <= 0, bodyless => end
  PROVE  /\ wire' \in Seq(Frames) /\ sawHeaders' /\ ~sawRST' /\ (ended' <=> end)
         /\ bytes' = bytes /\ final'.cl = cl /\ final'.bodyless = bodyless
         /\ Wire!Next
<1> DEFINE f == HeaderFrame(end, cl, bodyless)
<1>1. /\ f \in Frames /\ f.kind = "HEADERS" /\ f.end = end /\ f.len = 0
      /\ f.cl = cl /\ f.bodyless = bodyless
  BY FrameShapes, ZenonT(30)
<1>5. wire' = Append(wire, f)
  BY Zenon DEF f
<1> HIDE DEF f
<1>2. f.kind # "RST"
  BY <1>1, Zenon
<1>3. Wire!Legal(f)
  BY <1>1, Zenon DEF Wire!Legal, Wire!Terminated, sawHeaders, sawRST, ended
<1>4. bytes \in Int
  BY WireBytes DEF bytes
<1>6. bytes' = bytes + f.len
  BY <1>1, <1>5, Sends, Zenon
<1>7. bytes' = bytes
  BY <1>1, <1>4, <1>6
<1> QED BY <1>1, <1>2, <1>3, <1>5, <1>7, Sends, Zenon

(* A DATA frame within the declared length is legal before the end. *)
LEMMA SendsData ==
  ASSUME wire \in Seq(Frames), NEW n \in Nat, NEW end \in BOOLEAN,
         wire' = Append(wire, Data(n, end)),
         sawHeaders, ~ended, ~sawRST,
         final.cl >= 0 => bytes + n <= final.cl /\ (end => bytes + n = final.cl)
  PROVE  /\ wire' \in Seq(Frames) /\ sawHeaders' /\ ~sawRST' /\ (ended' <=> end)
         /\ bytes' = bytes + n /\ final' = final /\ Wire!Next
<1> DEFINE f == Data(n, end)
<1>1. f \in Frames /\ f.kind = "DATA" /\ f.end = end /\ f.len = n
  BY FrameShapes, Zenon
<1>5. wire' = Append(wire, f)
  BY Zenon DEF f
<1> HIDE DEF f
<1>2. f.kind # "RST" /\ f.kind # "HEADERS"
  BY <1>1, Zenon
<1>3. Wire!Legal(f)
  BY <1>1, Zenon DEF Wire!Legal, Wire!Terminated, sawHeaders, sawRST, ended, final, bytes
<1> QED BY <1>1, <1>2, <1>3, <1>5, Sends, Zenon

(* RST_STREAM is legal once, with NO_ERROR exactly behind END_STREAM. *)
LEMMA SendsRST ==
  ASSUME wire \in Seq(Frames),
         NEW code \in {"NO_ERROR", "INTERNAL_ERROR", "PROTOCOL_ERROR"},
         wire' = Append(wire, RST(code)), ~sawRST, ended <=> code = "NO_ERROR"
  PROVE  /\ wire' \in Seq(Frames) /\ sawRST' /\ (sawHeaders' <=> sawHeaders)
         /\ (ended' <=> ended) /\ bytes' = bytes /\ final' = final /\ Wire!Next
<1> DEFINE f == RST(code)
<1>1. f \in Frames /\ f.kind = "RST" /\ ~f.end /\ f.len = 0 /\ f.code = code
  BY FrameShapes, Zenon
<1>5. wire' = Append(wire, f)
  BY Zenon DEF f
<1> HIDE DEF f
<1>2. f.kind # "HEADERS"
  BY <1>1, Zenon
<1>3. Wire!Legal(f)
  BY <1>1, Zenon DEF Wire!Legal, sawRST, ended
<1>4. bytes \in Int
  BY WireBytes DEF bytes
<1>6. bytes' = bytes + f.len
  BY <1>1, <1>5, Sends, Zenon
<1>7. bytes' = bytes
  BY <1>1, <1>4, <1>6
<1> QED BY <1>1, <1>2, <1>3, <1>5, <1>7, Sends, Zenon

-----------------------------------------------------------------------------
(* The pieces of responseWriter's methods. *)

RWs == [status : Int, prepared : BOOLEAN, wroteHeaders : BOOLEAN, noBody : BOOLEAN,
        declaredCL : Int, err : BOOLEAN, CL : Int, wire : Seq(Frames)]

(* The fields of the response writer. *)
LEMMA RWType ==
  ASSUME ResponseTypeOK
  PROVE  /\ RW \in RWs /\ RW.status = status /\ RW.prepared = prepared
         /\ RW.wroteHeaders = wroteHeaders /\ RW.noBody = noBody
         /\ RW.declaredCL = declaredCL /\ RW.err = err /\ RW.CL = CL /\ RW.wire = wire
<1>1. /\ RW.status = status /\ RW.prepared = prepared
      /\ RW.wroteHeaders = wroteHeaders /\ RW.noBody = noBody
      /\ RW.declaredCL = declaredCL /\ RW.err = err /\ RW.CL = CL /\ RW.wire = wire
  BY Zenon DEF RW
<1>2. RW \in RWs
  BY Zenon DEF RW, RWs, ResponseTypeOK
<1> QED BY <1>1, <1>2, Zenon

(* prepare does nothing the second time.  After the first time the length   *)
(* that is declared is the one in the header.                               *)
(* What Panic makes of the response writer before its header is written. *)
Failed(q) == [q EXCEPT !.status = 500, !.CL = Absent, !.declaredCL = -1]

(* The reset of the header on a panic changes nothing else. *)
LEMMA FailedIs ==
  ASSUME NEW q \in RWs
  PROVE  /\ Failed(q) \in RWs /\ Failed(q).prepared = q.prepared
         /\ Failed(q).wroteHeaders = q.wroteHeaders /\ Failed(q).noBody = q.noBody
         /\ Failed(q).declaredCL = -1 /\ Failed(q).err = q.err
         /\ Failed(q).CL = Absent /\ Failed(q).wire = q.wire
<1> DEFINE n == -1
           s == 500
<1>1. n \in Int /\ s \in Int /\ Absent = n
  BY DEF Absent
<1> HIDE DEF n, s
<1> DEFINE u == [q EXCEPT !.status = s, !.CL = n, !.declaredCL = n]
<1>2. /\ u \in RWs /\ u.prepared = q.prepared
      /\ u.wroteHeaders = q.wroteHeaders /\ u.noBody = q.noBody
      /\ u.declaredCL = n /\ u.err = q.err /\ u.CL = n /\ u.wire = q.wire
  BY <1>1, Zenon DEF RWs
<1>3. Failed(q) = u
  BY <1>1, Zenon DEF Failed, n, s, Absent
<1> HIDE DEF u
<1> QED BY <1>1, <1>2, <1>3, Zenon DEF n

(* prepare runs once; the length that goes out is then the one Write counts *)
(* against.                                                                 *)
LEMMA PrepareIs ==
  ASSUME NEW r \in RWs, isHead \in BOOLEAN
  PROVE  LET p == Prepare(r) IN
         /\ p \in RWs /\ p.prepared /\ p.wroteHeaders = r.wroteHeaders
         /\ p.err = r.err /\ p.wire = r.wire /\ p.CL \in {r.CL, Absent}
         /\ r.prepared => p = r
         /\ ~r.prepared => /\ p.CL >= 0 => p.declaredCL = p.CL
                           /\ p.declaredCL >= 0 => p.CL = p.declaredCL
<1>1. CASE r.prepared
  BY <1>1, Zenon DEF Prepare, RWs
<1>2. CASE ~r.prepared
  <2> DEFINE s == IF r.status = 0 THEN 200 ELSE r.status
             b == isHead \/ ~BodyAllowedForStatus(s)
             d == DeclaredLength(r)
             c == IF r.CL = Malformed THEN Absent ELSE r.CL
             p == [r EXCEPT !.prepared = TRUE, !.status = s, !.noBody = b,
                            !.declaredCL = d, !.CL = c]
  <2>1. Prepare(r) = p
    BY <1>2, Zenon DEF Prepare
  <2>2. r.status \in Int /\ r.CL \in Int
    BY Zenon DEF RWs
  <2>3. /\ s \in Int /\ d \in Int /\ c \in Int /\ (c >= 0 => d = c) /\ (d >= 0 => c = d)
        /\ c \in {r.CL, Absent}
    BY <2>2 DEF DeclaredLength, Malformed, Absent
  <2>4. b \in BOOLEAN
    BY Zenon
  <2> HIDE DEF s, b, d, c
  <2>5. /\ p \in RWs /\ p.prepared /\ p.wroteHeaders = r.wroteHeaders
        /\ p.err = r.err /\ p.wire = r.wire /\ p.declaredCL = d /\ p.CL = c
    BY <2>3, <2>4, Zenon DEF RWs
  <2> HIDE DEF p
  <2> QED BY <1>2, <2>1, <2>3, <2>5, Zenon
<1> QED BY <1>1, <1>2, Zenon

(* A send appends its frame or, on a broken connection, latches the error. *)
LEMMA SendIs ==
  ASSUME NEW r \in RWs, NEW f \in Frames, broken \in BOOLEAN
  PROVE  LET s == Send(r, f) IN
         /\ s \in RWs /\ s.status = r.status /\ s.prepared = r.prepared
         /\ s.wroteHeaders = r.wroteHeaders /\ s.noBody = r.noBody
         /\ s.declaredCL = r.declaredCL /\ s.CL = r.CL
         /\ broken => s.err /\ s.wire = r.wire
         /\ ~broken => s.err = r.err /\ s.wire = Append(r.wire, f)
<1>1. r.wire \in Seq(Frames)
  BY Zenon DEF RWs
<1> DEFINE q == Append(r.wire, f)
<1>2. q \in Seq(Frames)
  BY <1>1
<1> HIDE DEF q
<1>3. CASE broken
  BY <1>3, Zenon DEF Send, RWs
<1>4. CASE ~broken
  <2>1. Send(r, f) = [r EXCEPT !.wire = q]
    BY <1>4, Zenon DEF Send, q
  <2> DEFINE s == [r EXCEPT !.wire = q]
  <2>2. /\ s \in RWs /\ s.status = r.status /\ s.prepared = r.prepared
        /\ s.wroteHeaders = r.wroteHeaders /\ s.noBody = r.noBody
        /\ s.declaredCL = r.declaredCL /\ s.CL = r.CL
        /\ s.err = r.err /\ s.wire = q
    BY <1>2, Zenon DEF RWs
  <2> HIDE DEF s
  <2> QED BY <1>4, <2>1, <2>2, Zenon DEF s, q
<1> QED BY <1>3, <1>4, Zenon

(* writeHeaders sends the header once. *)
LEMMA HeadersAre ==
  ASSUME NEW r \in RWs, NEW end \in BOOLEAN, broken \in BOOLEAN, isHead \in BOOLEAN
  PROVE  LET p == Prepare(r)
             h == WriteHeaders(r, end)
         IN /\ h \in RWs /\ h.wroteHeaders
            /\ r.wroteHeaders => h = r
            /\ ~r.wroteHeaders =>
                  /\ h.prepared /\ h.noBody = p.noBody
                  /\ h.declaredCL = p.declaredCL /\ h.CL = p.CL
                  /\ broken => h.err /\ h.wire = r.wire
                  /\ ~broken => /\ h.err = r.err
                                /\ h.wire = Append(r.wire, HeaderFrame(end, p.CL, p.noBody))
<1> DEFINE p == Prepare(r)
           g == [p EXCEPT !.wroteHeaders = TRUE]
           f == HeaderFrame(end, p.CL, p.noBody)
<1>1. p \in RWs /\ p.prepared /\ p.err = r.err /\ p.wire = r.wire
  BY PrepareIs, Zenon
<1>2. ~r.wroteHeaders => WriteHeaders(r, end) = Send(g, f)
  BY Zenon DEF WriteHeaders, HeaderFrame
<1>3. r.wroteHeaders => WriteHeaders(r, end) = r
  BY Zenon DEF WriteHeaders
<1> HIDE DEF p
<1>4. /\ g \in RWs /\ g.prepared = p.prepared /\ g.wroteHeaders /\ g.noBody = p.noBody
      /\ g.declaredCL = p.declaredCL /\ g.CL = p.CL /\ g.err = p.err /\ g.wire = p.wire
  BY <1>1, Zenon DEF RWs
<1>5. p.CL \in Int /\ p.noBody \in BOOLEAN
  BY <1>1, Zenon DEF RWs
<1>6. f \in Frames
  BY <1>5, FrameShapes, Zenon
<1> DEFINE h == Send(g, f)
<1> HIDE DEF f, g
<1>7. /\ h \in RWs /\ h.prepared = g.prepared /\ h.wroteHeaders = g.wroteHeaders
      /\ h.noBody = g.noBody /\ h.declaredCL = g.declaredCL /\ h.CL = g.CL
      /\ broken => h.err /\ h.wire = g.wire
      /\ ~broken => h.err = g.err /\ h.wire = Append(g.wire, f)
  BY <1>4, <1>6, SendIs, Zenon
<1> HIDE DEF h
<1>8. CASE r.wroteHeaders
  BY <1>3, <1>8, Zenon
<1>9. CASE ~r.wroteHeaders
  <2>1. WriteHeaders(r, end) = h
    BY <1>2, <1>9, Zenon DEF h
  <2> QED BY <1>1, <1>4, <1>7, <1>9, <2>1, Zenon DEF f, p
<1> QED BY <1>8, <1>9, Zenon


-----------------------------------------------------------------------------
(* Every step keeps the invariant and is a step of ResponseWire. *)

Kept == ResponseInv' /\ [Wire!Next]_wire

(* The invariant is shown part by part. *)
LEMMA KeptBy ==
  ASSUME ResponseTypeOK', HeadersInv', BodyInv', EndInv', wire' = wire \/ Wire!Next
  PROVE  Kept
BY Zenon DEF Kept, ResponseInv

(* Steps that send nothing: the handler's start, its header map, the        *)
(* request body's end and the loss of the connection.                       *)
LEMMA StepQuiet ==
  ASSUME ResponseInv, Start \/ SetContentLength \/ RequestBodyEnds \/ Break
  PROVE  Kept
<1>1. ResponseTypeOK /\ HeadersInv /\ BodyInv /\ EndInv
  BY Zenon DEF ResponseInv
<1>2. /\ UNCHANGED <<isHead, status, prepared, wroteHeaders, noBody, clViolated,
                     declaredCL, written, err, left, requested, wire>>
      /\ dataDone' \in BOOLEAN /\ broken' \in BOOLEAN /\ (broken => broken')
      /\ pc' = pc \/ (pc = "start" /\ pc' = "handler")
  <2>1. CASE Start
    BY <1>1, <2>1, Zenon DEF Start, rw, env, ResponseTypeOK
  <2>2. CASE SetContentLength
    BY <1>1, <2>2, Zenon DEF SetContentLength, rw, env, ResponseTypeOK
  <2>3. CASE RequestBodyEnds
    BY <1>1, <2>3, Zenon DEF RequestBodyEnds, rw, ResponseTypeOK
  <2>4. CASE Break
    BY <1>1, <2>4, Zenon DEF Break, rw, ResponseTypeOK
  <2> QED BY <2>1, <2>2, <2>3, <2>4, Zenon
<1>3. CL' \in Int
  <2>1. CASE SetContentLength
    BY <2>1, BoundAssumption DEF SetContentLength, Absent, Malformed, Empty
  <2>2. CASE Start \/ RequestBodyEnds \/ Break
    BY <1>1, <2>2, Zenon DEF Start, RequestBodyEnds, Break, ResponseTypeOK
  <2> QED BY <2>1, <2>2, Zenon
<1>4. /\ sawHeaders' = sawHeaders /\ sawRST' = sawRST /\ ended' = ended
      /\ bytes' = bytes /\ final' = final
  BY <1>2, Silent, Zenon
<1>5. ResponseTypeOK'
  BY <1>1, <1>2, <1>3, Zenon DEF ResponseTypeOK
<1>6. HeadersInv'
  BY <1>1, <1>2, <1>4, Zenon DEF HeadersInv
<1>7. BodyInv'
  BY <1>1, <1>2, <1>4, Zenon DEF BodyInv
<1>8. EndInv'
  BY <1>1, <1>2, <1>4, Zenon DEF EndInv
<1> QED BY <1>2, <1>5, <1>6, <1>7, <1>8, KeptBy, Zenon

(* RST_STREAM(code) is sent, or lost with the connection, and serveStream   *)
(* is done.                                                                 *)
LEMMA StepReset ==
  ASSUME ResponseInv, pc # "done", pc # "write",
         NEW code \in {"NO_ERROR", "INTERNAL_ERROR", "PROTOCOL_ERROR"},
         ended <=> code = "NO_ERROR",
         wire' = Reset(wire, code), pc' = "done",
         status' \in Int, CL' \in Int, declaredCL' \in Int,
         prepared' \in BOOLEAN, noBody' \in BOOLEAN,
         sawHeaders => /\ prepared' = prepared /\ noBody' = noBody
                       /\ declaredCL' = declaredCL,
         wroteHeaders' = wroteHeaders, wroteHeaders => prepared' /\ noBody' = noBody,
         noBody' => prepared', ~noBody' => ~noBody, prepared => prepared',
         ~noBody' /\ declaredCL' >= 0 => written <= declaredCL',
         UNCHANGED <<isHead, clViolated, written, err, left, requested, dataDone, broken>>
  PROVE  Kept
<1>1. ResponseTypeOK /\ HeadersInv /\ BodyInv /\ EndInv
  BY Zenon DEF ResponseInv
<1>2. ~sawRST
  BY <1>1, Zenon DEF EndInv
<1>3. /\ wire' \in Seq(Frames) /\ (sawRST' \/ broken) /\ (sawHeaders' <=> sawHeaders)
      /\ (ended' <=> ended) /\ bytes' = bytes /\ final' = final
      /\ wire' = wire \/ Wire!Next
  <2>1. CASE broken
    <3>1. wire' = wire
      BY <2>1, Zenon DEF Reset
    <3>2. wire' \in Seq(Frames)
      BY <1>1, <3>1, Zenon DEF ResponseTypeOK
    <3>3. /\ sawHeaders' = sawHeaders /\ ended' = ended
          /\ bytes' = bytes /\ final' = final
      BY <3>1, Silent, Zenon
    <3> QED BY <2>1, <3>1, <3>2, <3>3, Zenon
  <2>2. CASE ~broken
    <3>1. wire' = Append(wire, RST(code))
      BY <2>2, Zenon DEF Reset
    <3> QED BY <1>1, <1>2, <3>1, SendsRST, Zenon DEF ResponseTypeOK
  <2> QED BY <2>1, <2>2, Zenon
<1>4. ResponseTypeOK'
  BY <1>1, <1>3, Zenon DEF ResponseTypeOK
<1>5. HeadersInv'
  BY <1>1, <1>3, Zenon DEF HeadersInv, EndInv
<1>6. left = 0
  BY <1>1, Zenon DEF BodyInv
<1>7. BodyInv'
  BY <1>1, <1>3, <1>6 DEF BodyInv, ResponseTypeOK
<1>8. EndInv'
  BY <1>1, <1>3, Zenon DEF EndInv
<1> QED BY <1>3, <1>4, <1>5, <1>7, <1>8, KeptBy, Zenon


(* A request whose path does not parse is reset. *)
LEMMA StepBadPath ==
  ASSUME ResponseInv, BadPath
  PROVE  Kept
<1>1. ResponseTypeOK /\ HeadersInv /\ BodyInv /\ EndInv
  BY Zenon DEF ResponseInv
<1>2. /\ pc = "start" /\ wire' = Reset(wire, "PROTOCOL_ERROR") /\ pc' = "done"
      /\ UNCHANGED <<isHead, CL, status, prepared, wroteHeaders, noBody, clViolated,
                     declaredCL, written, err, left, requested, dataDone, broken>>
  BY Zenon DEF BadPath, rw, env
<1>3. pc # "done" /\ pc # "write" /\ ~ended /\ "PROTOCOL_ERROR" # "NO_ERROR"
  BY <1>1, <1>2, Zenon DEF EndInv
<1>4. ~noBody' /\ declaredCL' >= 0 => written <= declaredCL'
  BY <1>1, <1>2 DEF BodyInv, ResponseTypeOK
<1>5. /\ status' \in Int /\ CL' \in Int /\ declaredCL' \in Int
      /\ prepared' \in BOOLEAN /\ noBody' \in BOOLEAN
      /\ wroteHeaders => prepared' /\ noBody' = noBody
      /\ noBody' => prepared'
  BY <1>1, <1>2, Zenon DEF ResponseTypeOK, HeadersInv
<1> QED BY <1>2, <1>3, <1>4, <1>5, StepReset, Zenon

(* After a complete response RST_STREAM(NO_ERROR) stops the request body. *)
LEMMA StepStopRequestBody ==
  ASSUME ResponseInv, StopRequestBody
  PROVE  Kept
<1>1. ResponseTypeOK /\ HeadersInv /\ BodyInv /\ EndInv
  BY Zenon DEF ResponseInv
<1>2. /\ pc = "completed" /\ pc' = "done"
      /\ wire' = IF dataDone THEN wire ELSE Reset(wire, "NO_ERROR")
      /\ UNCHANGED <<isHead, CL, status, prepared, wroteHeaders, noBody, clViolated,
                     declaredCL, written, err, left, requested, dataDone, broken>>
  BY Zenon DEF StopRequestBody, rw, env
<1>3. pc # "done" /\ pc # "write" /\ ended
  BY <1>1, <1>2, Zenon DEF EndInv
<1>4. ~noBody' /\ declaredCL' >= 0 => written <= declaredCL'
  BY <1>1, <1>2 DEF BodyInv, ResponseTypeOK
<1>5. /\ status' \in Int /\ CL' \in Int /\ declaredCL' \in Int
      /\ prepared' \in BOOLEAN /\ noBody' \in BOOLEAN
      /\ wroteHeaders => prepared' /\ noBody' = noBody
      /\ noBody' => prepared'
  BY <1>1, <1>2, Zenon DEF ResponseTypeOK, HeadersInv
<1>6. CASE ~dataDone
  <2>1. wire' = Reset(wire, "NO_ERROR")
    BY <1>2, <1>6, Zenon
  <2> QED BY <1>2, <1>3, <1>4, <1>5, <2>1, StepReset, Zenon
<1>7. CASE dataDone
  <2>1. wire' = wire
    BY <1>2, <1>7, Zenon
  <2>2. /\ sawHeaders' = sawHeaders /\ sawRST' = sawRST /\ ended' = ended
        /\ bytes' = bytes /\ final' = final
    BY <2>1, Silent, Zenon
  <2>3. ResponseTypeOK'
    BY <1>1, <1>2, <2>1, Zenon DEF ResponseTypeOK
  <2>4. HeadersInv'
    BY <1>1, <1>2, <2>2, Zenon DEF HeadersInv
  <2>5. BodyInv'
    BY <1>1, <1>2, <2>2, Zenon DEF BodyInv
  <2>6. EndInv'
    BY <1>1, <1>2, <1>3, <2>2, Zenon DEF EndInv
  <2> QED BY <2>1, <2>3, <2>4, <2>5, <2>6, KeptBy, Zenon
<1> QED BY <1>6, <1>7, Zenon

(* A call that leaves the header and the body alone. *)
LEMMA StepCall ==
  ASSUME ResponseInv, pc = "handler", pc' = "handler",
         NEW n \in Nat, n = 0 \/ err \/ noBody',
         status' \in Int, CL' \in Int, declaredCL' \in Int,
         prepared' \in BOOLEAN, noBody' \in BOOLEAN,
         prepared => prepared' /\ noBody' = noBody /\ declaredCL' = declaredCL,
         ~prepared /\ prepared' => noBody',
         ~prepared' => noBody' = noBody /\ declaredCL' = declaredCL,
         requested' = requested + n,
         UNCHANGED <<isHead, wroteHeaders, clViolated, written, err, left,
                     dataDone, broken, wire>>
  PROVE  Kept
<1>1. ResponseTypeOK /\ HeadersInv /\ BodyInv /\ EndInv
  BY Zenon DEF ResponseInv
<1>2. /\ sawHeaders' = sawHeaders /\ sawRST' = sawRST /\ ended' = ended
      /\ bytes' = bytes /\ final' = final
  BY Silent, Zenon
<1>3. ResponseTypeOK'
  BY <1>1 DEF ResponseTypeOK
<1>4. HeadersInv'
  BY <1>1, <1>2, Zenon DEF HeadersInv, EndInv, ResponseTypeOK
<1>5. BodyInv'
  BY <1>1, <1>2 DEF BodyInv, HeadersInv, EndInv, ResponseTypeOK
<1>6. EndInv'
  BY <1>1, <1>2, Zenon DEF EndInv
<1> QED BY <1>3, <1>4, <1>5, <1>6, KeptBy, Zenon


(* The header has just been written, or lost with the connection: the       *)
(* conjuncts of the invariant that this touches.                            *)
LEMMA HeaderWritten ==
  ASSUME ResponseInv, pc = "handler", ~wroteHeaders, NEW end \in BOOLEAN,
         ~prepared \/ noBody,
         wroteHeaders', prepared', noBody' \in BOOLEAN, noBody' => end,
         CL' \in Int, declaredCL' \in Int, NEW c \in Int, NEW e \in BOOLEAN,
         end /\ ~noBody' => c <= 0,
         ~noBody' => (c >= 0 => declaredCL' = c) /\ (declaredCL' >= 0 => c = declaredCL'),
         broken => e /\ wire' = wire,
         ~broken => e = err /\ wire' = Append(wire, HeaderFrame(end, c, noBody'))
  PROVE  /\ wire' \in Seq(Frames) /\ ~sawRST' /\ bytes' = 0 /\ written = 0 /\ left = 0
         /\ wire' = wire \/ Wire!Next
         /\ sawHeaders' <=> ~broken
         /\ ended' <=> ~broken /\ end
         /\ sawHeaders' => final'.bodyless = noBody'
         /\ sawHeaders' /\ ~noBody' => /\ final'.cl >= 0 => declaredCL' = final'.cl
                                       /\ declaredCL' >= 0 => final'.cl = declaredCL'
<1>1. ResponseTypeOK /\ HeadersInv /\ BodyInv /\ EndInv
  BY Zenon DEF ResponseInv
<1>2. ~sawHeaders /\ ~ended /\ ~sawRST /\ bytes = 0 /\ written = 0 /\ left = 0
  BY <1>1, Zenon DEF HeadersInv, BodyInv, EndInv
<1>3. wire \in Seq(Frames)
  BY <1>1, Zenon DEF ResponseTypeOK
<1>4. CASE broken
  <2>1. wire' = wire
    BY <1>4, Zenon
  <2>2. /\ sawHeaders' = sawHeaders /\ sawRST' = sawRST /\ ended' = ended
        /\ bytes' = bytes
    BY <2>1, Silent, Zenon
  <2>3. wire' \in Seq(Frames)
    BY <1>3, <2>1, Zenon
  <2> QED BY <1>2, <1>4, <2>1, <2>2, <2>3, Zenon
<1>5. CASE ~broken
  <2> DEFINE b == noBody'
  <2>1. b \in BOOLEAN /\ (b => end) /\ (end /\ ~b => c <= 0)
        /\ wire' = Append(wire, HeaderFrame(end, c, b))
    BY <1>5, Zenon
  <2> HIDE DEF b
  <2>2. /\ wire' \in Seq(Frames) /\ sawHeaders' /\ ~sawRST' /\ (ended' <=> end)
        /\ bytes' = bytes /\ final'.cl = c /\ final'.bodyless = b /\ Wire!Next
    BY <1>2, <1>3, <2>1, SendsHeaders, Zenon
  <2>3. final'.bodyless = noBody'
    BY <2>2, Zenon DEF b
  <2> QED BY <1>2, <1>5, <2>2, <2>3, Zenon
<1> QED BY <1>4, <1>5, Zenon

(* WriteHeader sends an interim response, records the status, or is         *)
(* ignored.                                                                 *)
LEMMA StepWriteHeader ==
  ASSUME ResponseInv, NEW code \in Statuses, WriteHeader(code)
  PROVE  Kept
<1>1. ResponseTypeOK /\ HeadersInv /\ BodyInv /\ EndInv
  BY Zenon DEF ResponseInv
<1>2. /\ pc = "handler" /\ pc' = "handler"
      /\ UNCHANGED <<isHead, clViolated, written, left, requested, dataDone, broken>>
  BY Zenon DEF WriteHeader, Call, env
<1>3. /\ RW \in RWs /\ RW.status = status /\ RW.prepared = prepared
      /\ RW.wroteHeaders = wroteHeaders /\ RW.noBody = noBody
      /\ RW.declaredCL = declaredCL /\ RW.err = err /\ RW.CL = CL /\ RW.wire = wire
  BY <1>1, RWType, Zenon
<1>4. code \in Int
  BY DEF Statuses
<1>5. CASE /\ status' \in Int
           /\ UNCHANGED <<prepared, wroteHeaders, noBody, declaredCL, err, CL, wire>>
  <2>1. requested' = requested + 0
    BY <1>1, <1>2 DEF ResponseTypeOK
  <2>2. /\ CL' \in Int /\ declaredCL' \in Int
        /\ prepared' \in BOOLEAN /\ noBody' \in BOOLEAN /\ 0 \in Nat
        /\ ~(~prepared /\ prepared')
    BY <1>1, <1>5, Zenon DEF ResponseTypeOK
  <2> QED BY <1>2, <1>5, <2>1, <2>2, StepCall, Zenon
<1>6. CASE Set(RW)
  <2>1. status \in Int
    BY <1>1, Zenon DEF ResponseTypeOK
  <2> QED BY <1>3, <1>5, <1>6, <2>1, Zenon DEF Set
<1>7. CASE Set([RW EXCEPT !.status = code])
  <2> DEFINE r == [RW EXCEPT !.status = code]
  <2>1. /\ r.status = code /\ r.prepared = prepared
        /\ r.wroteHeaders = wroteHeaders /\ r.noBody = noBody
        /\ r.declaredCL = declaredCL /\ r.err = err /\ r.CL = CL /\ r.wire = wire
    BY <1>3, <1>4, Zenon DEF RWs
  <2>2. Set(r)
    BY <1>7, Zenon
  <2> HIDE DEF r
  <2> QED BY <1>4, <1>5, <2>1, <2>2, Zenon DEF Set
<1>8. CASE ~prepared /\ ~err /\ Set(Send(RW, Frame("INTERIM", FALSE)))
  <2> DEFINE r == Send(RW, Frame("INTERIM", FALSE))
  <2>1. Frame("INTERIM", FALSE) \in Frames
    BY FrameShapes, Zenon
  <2>2. /\ r.status = status /\ r.prepared = prepared
        /\ r.wroteHeaders = wroteHeaders /\ r.noBody = noBody
        /\ r.declaredCL = declaredCL /\ r.CL = CL
        /\ broken => r.err /\ r.wire = wire
        /\ ~broken => r.err = err /\ r.wire = Append(wire, Frame("INTERIM", FALSE))
    BY <1>1, <1>3, <2>1, SendIs, Zenon DEF ResponseTypeOK
  <2>2a. r \in RWs
    BY <1>1, <1>3, <2>1, SendIs, Zenon DEF ResponseTypeOK
  <2>3. Set(r)
    BY <1>8, Zenon
  <2> HIDE DEF r
  <2>4. /\ UNCHANGED <<status, prepared, wroteHeaders, noBody, declaredCL, CL>>
        /\ broken => err' /\ wire' = wire
        /\ ~broken => err' = err /\ wire' = Append(wire, Frame("INTERIM", FALSE))
    BY <2>2, <2>3, Zenon DEF Set
  <2>4a. err' \in BOOLEAN
    BY <2>2a, <2>3, Zenon DEF Set, RWs
  <2>5. ~sawHeaders /\ ~ended /\ ~sawRST /\ ~wroteHeaders /\ ~noBody /\ ~clViolated
    BY <1>1, <1>2, <1>8, Zenon DEF HeadersInv, EndInv
  <2>6. /\ wire' \in Seq(Frames) /\ ~sawHeaders' /\ ~sawRST' /\ ~ended'
        /\ bytes' = bytes /\ (wire' = wire \/ Wire!Next)
    <3>1. CASE broken
      <4>1. wire' = wire
        BY <2>4, <3>1, Zenon
      <4>2. /\ sawHeaders' = sawHeaders /\ sawRST' = sawRST /\ ended' = ended
            /\ bytes' = bytes
        BY <4>1, Silent, Zenon
      <4>3. wire' \in Seq(Frames)
        BY <1>1, <4>1, Zenon DEF ResponseTypeOK
      <4> QED BY <2>5, <4>1, <4>2, <4>3, Zenon
    <3>2. CASE ~broken
      BY <1>1, <2>4, <2>5, <3>2, SendsInterim, Zenon DEF ResponseTypeOK
    <3> QED BY <3>1, <3>2, Zenon
  <2>7. ResponseTypeOK'
    BY <1>1, <1>2, <2>4, <2>4a, <2>6, Zenon DEF ResponseTypeOK
  <2>8. HeadersInv'
    BY <1>1, <1>2, <2>4, <2>5, <2>6, Zenon DEF HeadersInv
  <2>9. BodyInv'
    BY <1>1, <1>2, <1>8, <2>4, <2>5, <2>6, Zenon DEF BodyInv
  <2>10. EndInv'
    BY <1>1, <1>2, <1>8, <2>4, <2>5, <2>6, Zenon DEF EndInv
  <2> QED BY <2>6, <2>7, <2>8, <2>9, <2>10, KeptBy, Zenon
<1>9. CASE prepared \/ err \/ code = 101
  BY <1>6, <1>9, Zenon DEF WriteHeader
<1>10. CASE ~(prepared \/ err \/ code = 101) /\ code < 200 /\ status = 0
  BY <1>8, <1>10, Zenon DEF WriteHeader
<1>11. CASE ~(prepared \/ err \/ code = 101) /\ code < 200 /\ status # 0
  BY <1>6, <1>11, Zenon DEF WriteHeader
<1>12. CASE ~(prepared \/ err \/ code = 101) /\ ~(code < 200)
  BY <1>7, <1>12, Zenon DEF WriteHeader
<1> QED BY <1>9, <1>10, <1>11, <1>12, Zenon


(* Flush and Write prepare a response that may carry a body and write its   *)
(* header, if that has not happened yet.                                    *)
LEMMA PreparedRW ==
  ASSUME ResponseInv
  PROVE  LET p == Prepare(RW) IN
         /\ p \in RWs /\ p.prepared /\ p.wroteHeaders = wroteHeaders
         /\ p.err = err /\ p.wire = wire /\ Prepare(p) = p
         /\ prepared => p.noBody = noBody /\ p.declaredCL = declaredCL /\ p.CL = CL
         /\ ~prepared => /\ p.CL >= 0 => p.declaredCL = p.CL
                         /\ p.declaredCL >= 0 => p.CL = p.declaredCL
<1>1. ResponseTypeOK
  BY Zenon DEF ResponseInv
<1>2. isHead \in BOOLEAN
  BY <1>1, Zenon DEF ResponseTypeOK
<1> DEFINE r == RW
           p == Prepare(r)
<1>3. /\ r \in RWs /\ r.status = status /\ r.prepared = prepared
      /\ r.wroteHeaders = wroteHeaders /\ r.noBody = noBody
      /\ r.declaredCL = declaredCL /\ r.err = err /\ r.CL = CL /\ r.wire = wire
  BY <1>1, RWType, Zenon
<1> HIDE DEF r
<1>4. /\ p \in RWs /\ p.prepared /\ p.wroteHeaders = r.wroteHeaders
      /\ p.err = r.err /\ p.wire = r.wire
      /\ r.prepared => p = r
      /\ ~r.prepared => /\ p.CL >= 0 => p.declaredCL = p.CL
                        /\ p.declaredCL >= 0 => p.CL = p.declaredCL
  BY <1>2, <1>3, PrepareIs, Zenon
<1> HIDE DEF p
<1>5. Prepare(p) = p
  BY <1>2, <1>4, PrepareIs, Zenon
<1> QED BY <1>3, <1>4, <1>5, Zenon DEF p, r

(* The header of a response that may carry a body goes out without          *)
(* END_STREAM.                                                              *)
LEMMA BodyHeader ==
  ASSUME ResponseInv, pc = "handler", ~err, ~Prepare(RW).noBody
  PROVE  LET h == WriteHeaders(Prepare(RW), FALSE) IN
         /\ h \in RWs /\ h.prepared /\ h.wroteHeaders /\ ~h.noBody
         /\ wroteHeaders => ~h.err /\ h.wire = wire /\ h.declaredCL = declaredCL
         /\ wroteHeaders => prepared /\ ~noBody
         /\ ~wroteHeaders =>
               /\ ~prepared
               /\ broken => h.err /\ h.wire = wire
               /\ ~broken => /\ ~h.err
                             /\ h.wire = Append(wire, HeaderFrame(FALSE, h.CL, h.noBody))
               /\ h.CL >= 0 => h.declaredCL = h.CL
               /\ h.declaredCL >= 0 => h.CL = h.declaredCL
<1>1. ResponseTypeOK /\ HeadersInv /\ BodyInv /\ EndInv
  BY Zenon DEF ResponseInv
<1>2. isHead \in BOOLEAN /\ broken \in BOOLEAN
  BY <1>1, Zenon DEF ResponseTypeOK
<1> DEFINE p == Prepare(RW)
           h == WriteHeaders(p, FALSE)
<1>3. /\ p \in RWs /\ p.prepared /\ p.wroteHeaders = wroteHeaders
      /\ p.err = err /\ p.wire = wire /\ Prepare(p) = p
      /\ prepared => p.noBody = noBody /\ p.declaredCL = declaredCL /\ p.CL = CL
      /\ ~prepared => /\ p.CL >= 0 => p.declaredCL = p.CL
                      /\ p.declaredCL >= 0 => p.CL = p.declaredCL
  BY PreparedRW, Zenon
<1>3a. ~p.noBody
  BY Zenon DEF p
<1> HIDE DEF p
<1>4. /\ h \in RWs /\ h.wroteHeaders
      /\ p.wroteHeaders => h = p
      /\ ~p.wroteHeaders =>
            /\ h.prepared /\ h.noBody = p.noBody
            /\ h.declaredCL = p.declaredCL /\ h.CL = p.CL
            /\ broken => h.err /\ h.wire = p.wire
            /\ ~broken => /\ h.err = p.err
                          /\ h.wire = Append(p.wire, HeaderFrame(FALSE, p.CL, p.noBody))
  <2>1. FALSE \in BOOLEAN
    BY Zenon
  <2> DEFINE o == Prepare(p)
  <2>2. /\ h \in RWs /\ h.wroteHeaders
        /\ p.wroteHeaders => h = p
        /\ ~p.wroteHeaders =>
              /\ h.prepared /\ h.noBody = o.noBody
              /\ h.declaredCL = o.declaredCL /\ h.CL = o.CL
              /\ broken => h.err /\ h.wire = p.wire
              /\ ~broken => /\ h.err = p.err
                            /\ h.wire = Append(p.wire, HeaderFrame(FALSE, o.CL, o.noBody))
    BY <1>2, <1>3, <2>1, HeadersAre, Zenon
  <2>3. o = p
    BY <1>3, Zenon
  <2> HIDE DEF o, h
  <2> QED BY <2>2, <2>3, Zenon
<1> HIDE DEF h
<1>5. CASE wroteHeaders
  <2>1. prepared
    BY <1>1, <1>5, Zenon DEF HeadersInv
  <2> QED BY <1>3, <1>3a, <1>4, <1>5, <2>1, Zenon DEF h, p
<1>6. CASE ~wroteHeaders
  <2>1. ~prepared
    BY <1>1, <1>3, <1>3a, <1>6, Zenon DEF HeadersInv
  <2> QED BY <1>3, <1>3a, <1>4, <1>6, <2>1, Zenon DEF h, p
<1> QED BY <1>5, <1>6, Zenon

(* A Write that starts has room below the declared length. *)
LEMMA Room ==
  ASSUME NEW w \in Nat, NEW l \in Nat, NEW d \in Int,
         l = 0 \/ (d >= 0 => w + l <= d), d >= 0 => w <= d
  PROVE  d >= 0 => w + l <= d
OBVIOUS

(* What holds once Write or Flush has sent the header. *)
LEMMA AfterHeader ==
  ASSUME ResponseInv, pc = "handler", ~err, ~Prepare(RW).noBody,
         NEW h, h = WriteHeaders(Prepare(RW), FALSE),
         status' = h.status, prepared' = h.prepared, wroteHeaders' = h.wroteHeaders,
         noBody' = h.noBody, declaredCL' = h.declaredCL, CL' = h.CL, wire' = h.wire,
         UNCHANGED <<isHead, written, dataDone, broken>>,
         err' \in BOOLEAN, clViolated' \in BOOLEAN, h.err => err', clViolated' => err',
         err' => h.err \/ clViolated',
         left' \in Nat, requested' \in Nat, pc' \in {"handler", "flush", "write"},
         pc' # "handler" => ~err', pc' # "write" => left' = 0,
         ~err' => requested' = requested + left',
         left' = 0 \/ (declaredCL' >= 0 => written + left' <= declaredCL')
  PROVE  Kept
<1>1. ResponseTypeOK /\ HeadersInv /\ BodyInv /\ EndInv
  BY Zenon DEF ResponseInv
<1>2. /\ h \in RWs /\ h.prepared /\ h.wroteHeaders /\ ~h.noBody
      /\ wroteHeaders => ~h.err /\ h.wire = wire /\ h.declaredCL = declaredCL
      /\ wroteHeaders => prepared /\ ~noBody
      /\ ~wroteHeaders =>
            /\ ~prepared
            /\ broken => h.err /\ h.wire = wire
            /\ ~broken => /\ ~h.err
                          /\ h.wire = Append(wire, HeaderFrame(FALSE, h.CL, h.noBody))
            /\ h.CL >= 0 => h.declaredCL = h.CL
            /\ h.declaredCL >= 0 => h.CL = h.declaredCL
  BY BodyHeader, Zenon
<1>3. /\ status' \in Int /\ CL' \in Int /\ declaredCL' \in Int
      /\ prepared' \in BOOLEAN /\ wroteHeaders' \in BOOLEAN /\ noBody' \in BOOLEAN
      /\ prepared' /\ wroteHeaders' /\ ~noBody'
  BY <1>2, Zenon DEF RWs
<1>4. CASE wroteHeaders
  <2>1. wire' = wire /\ declaredCL' = declaredCL /\ prepared /\ ~noBody
    BY <1>2, <1>4, Zenon
  <2>2. /\ sawHeaders' = sawHeaders /\ sawRST' = sawRST /\ ended' = ended
        /\ bytes' = bytes /\ final' = final
    BY <2>1, Silent, Zenon
  <2>3. ~ended /\ ~sawRST
    BY <1>1, Zenon DEF EndInv
  <2>3a. ResponseTypeOK'
    BY <1>1, <1>3, <2>1, Zenon DEF ResponseTypeOK
  <2>4. HeadersInv'
    BY <1>1, <1>3, <1>4, <2>1, <2>2, <2>3, Zenon DEF HeadersInv
  <2>5. BodyInv'
    <3>1. /\ written \in Nat /\ requested = written /\ bytes = written
          /\ declaredCL >= 0 => written <= declaredCL
      BY <1>1, <2>1 DEF BodyInv, ResponseTypeOK
    <3>2. declaredCL' \in Int /\ left' \in Nat
      BY <1>3, Zenon
    <3>3. ~err' => written' + left' = requested'
      BY <3>1, <3>2, Zenon
    <3>4. declaredCL' >= 0 => written' + left' <= declaredCL'
      <4> DEFINE d == declaredCL'
                 l == left'
      <4>1. /\ written' = written /\ d \in Int /\ l \in Nat
            /\ l = 0 \/ (d >= 0 => written + l <= d)
            /\ d >= 0 => written <= d
        BY <2>1, <3>1, <3>2, Zenon
      <4> HIDE DEF d, l
      <4>2. d >= 0 => written + l <= d
        BY <3>1, <4>1, Room, Zenon
      <4> QED BY <4>1, <4>2, Zenon DEF d, l
    <3> QED BY <1>3, <2>2, <2>3, <3>1, <3>3, <3>4, Zenon DEF BodyInv
  <2>6. EndInv'
    <3>1. h.err => broken
      BY <1>2, <1>4, Zenon
    <3> QED BY <1>1, <1>3, <1>4, <2>2, <2>3, <3>1, Zenon DEF EndInv
  <2> QED BY <2>1, <2>3a, <2>4, <2>5, <2>6, KeptBy, Zenon
<1>5. CASE ~wroteHeaders
  <2>1. h.CL \in Int /\ h.err \in BOOLEAN
    BY <1>2, Zenon DEF RWs
  <2>2. /\ ~prepared
        /\ broken => h.err /\ wire' = wire
        /\ ~broken => h.err = err /\ wire' = Append(wire, HeaderFrame(FALSE, h.CL, noBody'))
        /\ h.CL >= 0 => declaredCL' = h.CL
        /\ declaredCL' >= 0 => h.CL = declaredCL'
    <3>1. ~h.err => h.err = err
      BY <1>1, <2>1, Zenon DEF ResponseTypeOK
    <3> QED BY <1>2, <1>5, <3>1, Zenon
  <2>3. /\ wire' \in Seq(Frames) /\ ~sawRST' /\ bytes' = 0 /\ written = 0 /\ left = 0
        /\ wire' = wire \/ Wire!Next
        /\ sawHeaders' <=> ~broken
        /\ ended' <=> ~broken /\ FALSE
        /\ sawHeaders' => final'.bodyless = noBody'
        /\ sawHeaders' /\ ~noBody' => /\ final'.cl >= 0 => declaredCL' = final'.cl
                                      /\ declaredCL' >= 0 => final'.cl = declaredCL'
    <3>1. FALSE \in BOOLEAN
      BY Zenon
    <3> QED BY <1>3, <1>5, <2>1, <2>2, <3>1, HeaderWritten, Zenon
  <2>4. ~ended'
    BY <2>3, Zenon
  <2>5. h.err => broken
    BY <1>2, <1>5, Zenon
  <2>5a. ResponseTypeOK'
    BY <1>1, <1>3, <2>3, Zenon DEF ResponseTypeOK
  <2>6. HeadersInv'
    BY <1>1, <1>3, <2>3, <2>4, Zenon DEF HeadersInv
  <2>7. BodyInv'
    <3>1. requested = 0
      BY <1>1, <2>2, <2>3 DEF BodyInv, HeadersInv, ResponseTypeOK
    <3>2. declaredCL' \in Int /\ left' \in Nat
      BY <1>3, Zenon
    <3>3. ~err' => written' + left' = requested'
      BY <2>3, <3>1, <3>2, Zenon
    <3>4. declaredCL' >= 0 => written' + left' <= declaredCL'
      <4> DEFINE d == declaredCL'
                 l == left'
      <4>1. /\ written' = 0 /\ d \in Int /\ l \in Nat
            /\ l = 0 \/ (d >= 0 => 0 + l <= d)
        BY <2>3, <3>2, Zenon
      <4>2. 0 \in Nat /\ (d >= 0 => 0 <= d)
        BY <4>1, Zenon
      <4> HIDE DEF d, l
      <4>3. d >= 0 => 0 + l <= d
        BY <4>1, <4>2, Room, Zenon
      <4> QED BY <4>1, <4>3, Zenon DEF d, l
    <3> QED BY <1>3, <2>3, <2>4, <3>3, <3>4, Zenon DEF BodyInv
  <2>8. EndInv'
    BY <1>1, <1>3, <2>3, <2>4, <2>5, Zenon DEF EndInv
  <2> QED BY <2>3, <2>5a, <2>6, <2>7, <2>8, KeptBy, Zenon
<1> QED BY <1>4, <1>5, Zenon


(* A call on a response that has failed or may carry no body only prepares  *)
(* it, at most.                                                             *)
LEMMA StepIgnored ==
  ASSUME ResponseInv, pc = "handler", pc' = pc, NEW n \in Nat,
         \/ (n = 0 \/ err) /\ Set(RW)
         \/ Prepare(RW).noBody /\ Set(Prepare(RW)),
         requested' = requested + n,
         UNCHANGED <<isHead, clViolated, written, left, dataDone, broken>>
  PROVE  Kept
<1>1. ResponseTypeOK /\ HeadersInv
  BY Zenon DEF ResponseInv
<1>2. CASE (n = 0 \/ err) /\ Set(RW)
  <2>1. /\ RW.status = status /\ RW.prepared = prepared
        /\ RW.wroteHeaders = wroteHeaders /\ RW.noBody = noBody
        /\ RW.declaredCL = declaredCL /\ RW.err = err /\ RW.CL = CL /\ RW.wire = wire
    BY <1>1, RWType, Zenon
  <2>2. UNCHANGED <<status, prepared, wroteHeaders, noBody, declaredCL, err, CL, wire>>
    BY <1>2, <2>1, Zenon DEF Set
  <2>3. /\ status' \in Int /\ CL' \in Int /\ declaredCL' \in Int
        /\ prepared' \in BOOLEAN /\ noBody' \in BOOLEAN
    BY <1>1, <1>2, <2>2, Zenon DEF ResponseTypeOK
  <2>4. n = 0 \/ err \/ noBody'
    BY <1>2, Zenon
  <2>5. pc' = "handler"
    BY Zenon
  <2>6. ~prepared /\ prepared' => noBody'
    BY <2>2, Zenon
  <2> QED BY <2>2, <2>3, <2>4, <2>5, <2>6, StepCall, Zenon
<1>3. CASE Prepare(RW).noBody /\ Set(Prepare(RW))
  <2> DEFINE p == Prepare(RW)
  <2>1. /\ p \in RWs /\ p.prepared /\ p.wroteHeaders = wroteHeaders
        /\ p.err = err /\ p.wire = wire
        /\ prepared => p.noBody = noBody /\ p.declaredCL = declaredCL /\ p.CL = CL
    BY PreparedRW, Zenon
  <2>2. p.noBody /\ Set(p)
    BY <1>3, Zenon
  <2> HIDE DEF p
  <2>3. /\ prepared' = p.prepared /\ wroteHeaders' = wroteHeaders /\ err' = err
        /\ wire' = wire /\ noBody' = p.noBody /\ declaredCL' = p.declaredCL
        /\ CL' = p.CL /\ status' = p.status
    BY <2>1, <2>2, Zenon DEF Set
  <2>4. /\ p.status \in Int /\ p.CL \in Int /\ p.declaredCL \in Int
        /\ p.prepared \in BOOLEAN /\ p.noBody \in BOOLEAN
    BY <2>1, Zenon DEF RWs
  <2>5. /\ status' \in Int /\ CL' \in Int /\ declaredCL' \in Int
        /\ prepared' \in BOOLEAN /\ noBody' \in BOOLEAN /\ prepared' /\ noBody'
        /\ prepared => prepared' /\ noBody' = noBody /\ declaredCL' = declaredCL
        /\ pc' = "handler"
    BY <2>1, <2>2, <2>3, <2>4, Zenon
  <2> QED BY <2>3, <2>5, StepCall, Zenon
<1> QED BY <1>2, <1>3, Zenon

(* Flush sends the header if it has not gone out. *)
LEMMA StepFlush ==
  ASSUME ResponseInv, Flush
  PROVE  Kept
<1>1. ResponseTypeOK /\ HeadersInv /\ BodyInv /\ EndInv
  BY Zenon DEF ResponseInv
<1> DEFINE p == Prepare(RW)
           h == WriteHeaders(p, FALSE)
<1>2. /\ pc = "handler"
      /\ UNCHANGED <<isHead, clViolated, written, left, requested, dataDone, broken>>
  BY Zenon DEF Flush, Call, env
<1>3. \/ err /\ Set(RW) /\ pc' = pc
      \/ p.noBody /\ Set(p) /\ pc' = pc
      \/ ~err /\ ~p.noBody /\ Set(h) /\ pc' = IF h.err THEN "handler" ELSE "flush"
  <2>1. CASE err
    BY <2>1, Zenon DEF Flush
  <2>2. CASE ~err /\ p.noBody
    BY <2>2, Zenon DEF Flush
  <2>3. CASE ~err /\ ~p.noBody
    BY <2>3, Zenon DEF Flush
  <2> QED BY <2>1, <2>2, <2>3, Zenon
<1>4. CASE (err /\ Set(RW) /\ pc' = pc) \/ (p.noBody /\ Set(p) /\ pc' = pc)
  <2>1. 0 \in Nat /\ requested' = requested + 0
    BY <1>1, <1>2 DEF ResponseTypeOK
  <2> QED BY <1>2, <1>4, <2>1, StepIgnored, Zenon
<1>5. CASE ~err /\ ~p.noBody /\ Set(h) /\ pc' = IF h.err THEN "handler" ELSE "flush"
  <2>1. h \in RWs
    BY <1>2, <1>5, BodyHeader, Zenon
  <2>2. h = WriteHeaders(Prepare(RW), FALSE) /\ ~Prepare(RW).noBody
    BY <1>5, Zenon
  <2> HIDE DEF h, p
  <2>3. /\ status' = h.status /\ prepared' = h.prepared /\ wroteHeaders' = h.wroteHeaders
        /\ noBody' = h.noBody /\ declaredCL' = h.declaredCL /\ CL' = h.CL
        /\ wire' = h.wire /\ err' = h.err
    BY <1>5, Zenon DEF Set
  <2>4. h.err \in BOOLEAN
    BY <2>1, Zenon DEF RWs
  <2>5. ~clViolated /\ left = 0
    BY <1>1, <1>2, <1>5, Zenon DEF EndInv, BodyInv
  <2>6. /\ left' \in Nat /\ requested' \in Nat /\ left' = 0
        /\ requested' = requested + left'
    BY <1>1, <1>2, <2>5 DEF ResponseTypeOK
  <2>7. /\ pc' \in {"handler", "flush", "write"} /\ (pc' # "handler" => ~err')
        /\ (pc' # "write" => left' = 0)
    BY <1>5, <2>3, <2>6, Zenon
  <2>8. /\ err' \in BOOLEAN /\ clViolated' \in BOOLEAN /\ (h.err => err')
        /\ ~clViolated' /\ (err' => h.err)
    BY <1>1, <1>2, <2>3, <2>4, <2>5, Zenon DEF ResponseTypeOK
  <2> QED BY <1>2, <1>5, <2>2, <2>3, <2>6, <2>7, <2>8, AfterHeader, Zenon
<1> QED BY <1>3, <1>4, <1>5, Zenon

(* Write sends the header and takes on as many bytes as the declared length *)
(* allows.                                                                  *)
LEMMA StepWrite ==
  ASSUME ResponseInv, NEW n \in 0..MaxWrite, Write(n)
  PROVE  Kept
<1>1. ResponseTypeOK /\ HeadersInv /\ BodyInv /\ EndInv
  BY Zenon DEF ResponseInv
<1>2. n \in Nat
  BY BoundAssumption
<1> DEFINE p == Prepare(RW)
           h == WriteHeaders(p, FALSE)
           excess == h.declaredCL >= 0 /\ written + n > h.declaredCL
<1>3. /\ pc = "handler" /\ requested' = requested + n
      /\ UNCHANGED <<isHead, written, dataDone, broken>>
  BY Zenon DEF Write, Call, env
<1>4. CASE err \/ p.noBody
  <2>1. ((err /\ Set(RW)) \/ (p.noBody /\ Set(p))) /\ UNCHANGED <<clViolated, left, pc>>
    <3>1. CASE err
      <4>1. Set(RW) /\ UNCHANGED <<clViolated, left, pc>>
        BY <3>1, Zenon DEF Write
      <4> QED BY <3>1, <4>1, Zenon
    <3>2. CASE ~err /\ p.noBody
      BY <3>2, Zenon DEF Write
    <3> QED BY <1>4, <3>1, <3>2, Zenon
  <2> QED BY <1>2, <1>3, <2>1, StepIgnored, Zenon
<1>5. CASE ~err /\ ~p.noBody
  <2>1. h \in RWs
    BY <1>3, <1>5, BodyHeader, Zenon
  <2>2. h = WriteHeaders(Prepare(RW), FALSE) /\ ~Prepare(RW).noBody
    BY <1>5, Zenon
  <2>3. \/ (h.err \/ n = 0) /\ Set(h) /\ UNCHANGED <<clViolated, left, pc>>
        \/ ~h.err /\ Refuse(h) /\ UNCHANGED <<left, pc>>
        \/ /\ ~h.err /\ ~excess /\ Set(h) /\ left' = n /\ pc' = "write"
           /\ UNCHANGED clViolated
    <3>1. CASE h.err \/ n = 0
      BY <1>5, <3>1, Zenon DEF Write
    <3>2. CASE ~(h.err \/ n = 0) /\ excess
      BY <1>5, <3>2, Zenon DEF Write
    <3>3. CASE ~(h.err \/ n = 0) /\ ~excess
      BY <1>5, <3>3, Zenon DEF Write
    <3> QED BY <3>1, <3>2, <3>3, Zenon
  <2>3a. h.declaredCL \in Int /\ h.err \in BOOLEAN
    BY <2>1, Zenon DEF RWs
  <2> HIDE DEF h, p
  <2>3b. ~excess => (h.declaredCL >= 0 => written + n <= h.declaredCL)
    <3> DEFINE d == h.declaredCL
    <3>1. d \in Int /\ written \in Nat
      BY <1>1, <2>3a, Zenon DEF ResponseTypeOK
    <3> HIDE DEF d
    <3>2. ~(d >= 0 /\ written + n > d) => (d >= 0 => written + n <= d)
      BY <1>2, <3>1
    <3> QED BY <3>2, Zenon DEF d
  <2> HIDE DEF excess
  <2>4. ~clViolated /\ left = 0
    BY <1>1, <1>3, <1>5, Zenon DEF EndInv, BodyInv
  <2>5. requested' \in Nat /\ 0 \in Nat /\ requested \in Nat
    BY <1>1, <1>2, <1>3 DEF ResponseTypeOK
  <2>6. ASSUME Set(h),
               \/ (h.err \/ n = 0) /\ UNCHANGED <<clViolated, left, pc>>
               \/ ~h.err /\ ~excess /\ left' = n /\ pc' = "write" /\ UNCHANGED clViolated
        PROVE  Kept
    <3>1. /\ status' = h.status /\ prepared' = h.prepared /\ wroteHeaders' = h.wroteHeaders
          /\ noBody' = h.noBody /\ declaredCL' = h.declaredCL /\ CL' = h.CL
          /\ wire' = h.wire /\ err' = h.err
      BY <2>6, Zenon DEF Set
    <3>2. CASE (h.err \/ n = 0) /\ UNCHANGED <<clViolated, left, pc>>
      <4>1. /\ left' \in Nat /\ left' = 0 /\ (~err' => requested' = requested + left')
        BY <1>3, <2>4, <2>5, <3>1, <3>2, Zenon
      <4>2. /\ pc' \in {"handler", "flush", "write"} /\ (pc' # "handler" => ~err')
            /\ (pc' # "write" => left' = 0)
        BY <1>3, <3>2, <4>1, Zenon
      <4>3. /\ err' \in BOOLEAN /\ clViolated' \in BOOLEAN /\ (h.err => err')
            /\ ~clViolated' /\ (err' => h.err)
        BY <1>1, <2>3a, <2>4, <3>1, <3>2, Zenon DEF ResponseTypeOK
      <4> QED BY <1>3, <1>5, <2>2, <2>5, <3>1, <4>1, <4>2, <4>3, AfterHeader, Zenon
    <3>3. CASE ~h.err /\ ~excess /\ left' = n /\ pc' = "write" /\ UNCHANGED clViolated
      <4>1. /\ left' \in Nat /\ requested' = requested + left'
            /\ declaredCL' >= 0 => written + left' <= declaredCL'
        BY <1>2, <1>3, <2>3b, <3>1, <3>3, Zenon
      <4>2. /\ pc' \in {"handler", "flush", "write"} /\ (pc' # "handler" => ~err')
            /\ (pc' # "write" => left' = 0)
        BY <3>1, <3>3, Zenon
      <4>3. /\ err' \in BOOLEAN /\ clViolated' \in BOOLEAN /\ (h.err => err')
            /\ ~clViolated' /\ (err' => h.err)
        BY <1>1, <2>3a, <2>4, <3>1, <3>3, Zenon DEF ResponseTypeOK
      <4> QED BY <1>3, <1>5, <2>2, <2>5, <3>1, <4>1, <4>2, <4>3, AfterHeader, Zenon
    <3> QED BY <2>6, <3>2, <3>3, Zenon
  <2>7. CASE ~h.err /\ Refuse(h) /\ UNCHANGED <<left, pc>>
    <3> DEFINE g == [h EXCEPT !.err = TRUE]
    <3>1. /\ g.status = h.status /\ g.prepared = h.prepared
          /\ g.wroteHeaders = h.wroteHeaders /\ g.noBody = h.noBody
          /\ g.declaredCL = h.declaredCL /\ g.CL = h.CL /\ g.wire = h.wire /\ g.err
      BY <2>1, Zenon DEF RWs
    <3>2. Set(g) /\ clViolated' = TRUE
      BY <2>7, Zenon DEF Refuse
    <3> HIDE DEF g
    <3>3. /\ status' = h.status /\ prepared' = h.prepared /\ wroteHeaders' = h.wroteHeaders
          /\ noBody' = h.noBody /\ declaredCL' = h.declaredCL /\ CL' = h.CL
          /\ wire' = h.wire /\ err' = g.err
      BY <3>1, <3>2, Zenon DEF Set
    <3>3a. err' = TRUE
      BY <2>1, <2>7, Zenon DEF Refuse, Set, RWs
    <3>4. err' \in BOOLEAN /\ err' /\ clViolated' \in BOOLEAN /\ clViolated'
      BY <3>2, <3>3a, Zenon
    <3>5. left' \in Nat /\ left' = 0 /\ pc' = "handler"
      BY <1>3, <2>4, <2>5, <2>7, Zenon
    <3>6. pc' \in {"handler", "flush", "write"} /\ ~(pc' # "handler")
      BY <3>5, Zenon
    <3> QED BY <1>3, <1>5, <2>2, <2>5, <3>3, <3>4, <3>5, <3>6, AfterHeader, Zenon
  <2> QED BY <2>3, <2>6, <2>7, Zenon
<1> QED BY <1>4, <1>5, Zenon


(* A DATA frame without END_STREAM of n bytes of the current Write, or of   *)
(* none for Flush.                                                          *)
LEMMA StepData ==
  ASSUME ResponseInv, pc \in {"flush", "write"}, NEW n \in 0..left,
         Set(Send(RW, Data(n, FALSE))),
         err' => written' = written /\ left' = 0,
         ~err' => written' = written + n /\ left' = left - n,
         pc' \in {"handler", "write"}, pc' = "write" => ~err',
         pc' # "write" => left' = 0,
         UNCHANGED <<isHead, clViolated, requested, dataDone, broken>>
  PROVE  Kept
<1>1. ResponseTypeOK /\ HeadersInv /\ BodyInv /\ EndInv
  BY Zenon DEF ResponseInv
<1>2. n \in Nat /\ left \in Nat /\ n <= left /\ written \in Nat /\ requested \in Nat
      /\ declaredCL \in Int
  BY <1>1 DEF ResponseTypeOK
<1>3. /\ RW \in RWs /\ RW.status = status /\ RW.prepared = prepared
      /\ RW.wroteHeaders = wroteHeaders /\ RW.noBody = noBody
      /\ RW.declaredCL = declaredCL /\ RW.err = err /\ RW.CL = CL /\ RW.wire = wire
  BY <1>1, RWType, Zenon
<1> DEFINE r == Send(RW, Data(n, FALSE))
<1>4. Data(n, FALSE) \in Frames
  BY <1>2, FrameShapes, Zenon
<1>5. /\ r \in RWs /\ r.status = status /\ r.prepared = prepared
      /\ r.wroteHeaders = wroteHeaders /\ r.noBody = noBody
      /\ r.declaredCL = declaredCL /\ r.CL = CL
      /\ broken => r.err /\ r.wire = wire
      /\ ~broken => r.err = err /\ r.wire = Append(wire, Data(n, FALSE))
  BY <1>1, <1>3, <1>4, SendIs, Zenon DEF ResponseTypeOK
<1>6. Set(r)
  BY Zenon
<1> HIDE DEF r
<1>7. /\ UNCHANGED <<status, prepared, wroteHeaders, noBody, declaredCL, CL>>
      /\ err' = r.err /\ wire' = r.wire
  BY <1>5, <1>6, Zenon DEF Set
<1>8. r.err \in BOOLEAN
  BY <1>5, Zenon DEF RWs
<1>9. /\ wroteHeaders /\ ~err /\ ~noBody /\ prepared /\ ~clViolated
      /\ ~ended /\ ~sawRST /\ (sawHeaders \/ broken)
  BY <1>1, Zenon DEF HeadersInv, EndInv
<1>10. /\ err' \in BOOLEAN /\ (err' <=> broken)
       /\ broken => wire' = wire
       /\ ~broken => wire' = Append(wire, Data(n, FALSE))
  BY <1>5, <1>7, <1>8, <1>9, Zenon
<1>11. /\ bytes = written /\ written + left = requested
       /\ declaredCL >= 0 => written + left <= declaredCL
  BY <1>1, <1>9, Zenon DEF BodyInv
<1>12. CASE broken
  <2>1. wire' = wire /\ err'
    BY <1>10, <1>12, Zenon
  <2>2. /\ sawHeaders' = sawHeaders /\ sawRST' = sawRST /\ ended' = ended
        /\ bytes' = bytes /\ final' = final
    BY <2>1, Silent, Zenon
  <2>2a. written' = written /\ left' = 0 /\ pc' = "handler"
    BY <2>1, Zenon
  <2>3. ResponseTypeOK'
    BY <1>1, <1>2, <1>7, <1>10, <2>1, <2>2a, Zenon DEF ResponseTypeOK
  <2>4. HeadersInv'
    BY <1>1, <1>7, <1>9, <2>2, <2>2a, Zenon DEF HeadersInv
  <2>5. declaredCL' >= 0 => written' + left' <= declaredCL'
    BY <1>2, <1>7, <1>11, <2>2a
  <2>6. BodyInv'
    BY <1>1, <1>7, <1>9, <1>11, <2>1, <2>2, <2>2a, <2>5, Zenon DEF BodyInv
  <2>7. EndInv'
    BY <1>1, <1>7, <1>9, <1>12, <2>2, <2>2a, Zenon DEF EndInv
  <2> QED BY <2>1, <2>3, <2>4, <2>6, <2>7, KeptBy, Zenon
<1>13. CASE ~broken
  <2>1. wire' = Append(wire, Data(n, FALSE)) /\ ~err' /\ sawHeaders
    BY <1>9, <1>10, <1>13, Zenon
  <2>2. final.cl >= 0 => declaredCL = final.cl
    BY <1>1, <1>9, <2>1, Zenon DEF HeadersInv
  <2>3. final.cl >= 0 => bytes + n <= final.cl /\ (FALSE => bytes + n = final.cl)
    <3> DEFINE c == final.cl
    <3>1. c >= 0 => declaredCL = c
      BY <2>2, Zenon
    <3> HIDE DEF c
    <3>2. c >= 0 => bytes + n <= c
      BY <1>2, <1>11, <3>1
    <3> QED BY <3>2, Zenon DEF c
  <2>4. /\ wire' \in Seq(Frames) /\ sawHeaders' /\ ~sawRST' /\ (ended' <=> FALSE)
        /\ bytes' = bytes + n /\ final' = final /\ Wire!Next
    <3>1. FALSE \in BOOLEAN
      BY Zenon
    <3>2. wire \in Seq(Frames)
      BY <1>1, Zenon DEF ResponseTypeOK
    <3> QED BY <1>2, <1>9, <2>1, <2>3, <3>1, <3>2, SendsData, Zenon
  <2>5. /\ written' = written + n /\ left' = left - n /\ written' \in Nat /\ left' \in Nat
        /\ written' + left' = requested' /\ bytes' = written' /\ ~ended'
        /\ written' + left' = written + left
    BY <1>2, <1>11, <2>1, <2>4
  <2>6. ResponseTypeOK'
    BY <1>1, <1>2, <1>7, <1>10, <2>4, <2>5, Zenon DEF ResponseTypeOK
  <2>7. HeadersInv'
    BY <1>1, <1>7, <1>9, <2>1, <2>4, <2>5, Zenon DEF HeadersInv
  <2>8. declaredCL' >= 0 => written' + left' <= declaredCL'
    BY <1>2, <1>7, <1>11, <2>5, Zenon
  <2>9. BodyInv'
    BY <1>7, <1>9, <2>1, <2>5, <2>8, Zenon DEF BodyInv
  <2>10. EndInv'
    BY <1>1, <1>7, <1>9, <2>1, <2>4, <2>5, Zenon DEF EndInv
  <2> QED BY <2>4, <2>6, <2>7, <2>9, <2>10, KeptBy, Zenon
<1> QED BY <1>12, <1>13, Zenon

(* Flush sends an empty DATA frame behind the header. *)
LEMMA StepFlushData ==
  ASSUME ResponseInv, FlushData
  PROVE  Kept
<1>1. ResponseTypeOK /\ BodyInv
  BY Zenon DEF ResponseInv
<1>2. /\ pc = "flush" /\ pc' = "handler" /\ Set(Send(RW, Data(0, FALSE)))
      /\ UNCHANGED <<isHead, clViolated, written, left, requested, dataDone, broken>>
  BY Zenon DEF FlushData, env
<1>3. /\ left = 0 /\ 0 \in 0..left /\ written' = written + 0 /\ left' = left - 0
      /\ pc' # "write" /\ pc' \in {"handler", "write"}
  BY <1>1, <1>2 DEF BodyInv, ResponseTypeOK
<1> QED BY <1>2, <1>3, StepData, Zenon

(* One DATA frame of a Write. *)
LEMMA StepWriteChunk ==
  ASSUME ResponseInv, WriteChunk
  PROVE  Kept
<1>1. ResponseTypeOK /\ BodyInv
  BY Zenon DEF ResponseInv
<1>2. /\ pc = "write"
      /\ UNCHANGED <<isHead, clViolated, requested, dataDone, broken>>
  BY Zenon DEF WriteChunk, env
<1> DEFINE S(n) == Send(RW, Data(n, FALSE))
<1>3. PICK n \in 1..left :
          /\ Set(S(n))
          /\ IF S(n).err
             THEN pc' = "handler" /\ left' = 0 /\ UNCHANGED written
             ELSE /\ left' = left - n
                  /\ written' = written + n
                  /\ pc' = IF n = left THEN "handler" ELSE "write"
  BY Zenon DEF WriteChunk
<1>4. err' = S(n).err
  BY <1>3, Zenon DEF Set
<1> HIDE DEF S
<1>5. n \in 0..left /\ left \in Nat
  BY <1>1 DEF ResponseTypeOK
<1>6. CASE err'
  <2>1. pc' = "handler" /\ left' = 0 /\ written' = written
    BY <1>3, <1>4, <1>6, Zenon
  <2>2. pc' \in {"handler", "write"} /\ pc' # "write"
    BY <2>1, Zenon
  <2> QED BY <1>2, <1>3, <1>5, <1>6, <2>1, <2>2, StepData, Zenon DEF S
<1>7. CASE ~err'
  <2>1. /\ left' = left - n /\ written' = written + n
        /\ pc' = IF n = left THEN "handler" ELSE "write"
    BY <1>3, <1>4, <1>7, Zenon
  <2>2. pc' \in {"handler", "write"} /\ (pc' # "write" => left' = 0)
    BY <1>5, <2>1
  <2> QED BY <1>2, <1>3, <1>5, <1>7, <2>1, <2>2, StepData, Zenon DEF S
<1> QED BY <1>6, <1>7, Zenon

(* The connection dies between two DATA frames of a Write. *)
LEMMA StepWriteConnDead ==
  ASSUME ResponseInv, WriteConnDead
  PROVE  Kept
<1>1. ResponseTypeOK /\ HeadersInv /\ BodyInv /\ EndInv
  BY Zenon DEF ResponseInv
<1>2. /\ pc = "write" /\ pc' = "handler" /\ broken /\ err' = TRUE /\ left' = 0
      /\ UNCHANGED <<isHead, CL, status, prepared, wroteHeaders, noBody, clViolated,
                     declaredCL, written, requested, dataDone, broken, wire>>
  BY Zenon DEF WriteConnDead, env
<1>3. /\ sawHeaders' = sawHeaders /\ sawRST' = sawRST /\ ended' = ended
      /\ bytes' = bytes /\ final' = final
  BY <1>2, Silent, Zenon
<1>4. wroteHeaders /\ ~noBody /\ ~ended /\ ~clViolated
  BY <1>1, <1>2, Zenon DEF HeadersInv, EndInv
<1>5. ResponseTypeOK'
  BY <1>1, <1>2, Zenon DEF ResponseTypeOK
<1>6. HeadersInv'
  BY <1>1, <1>2, <1>3, <1>4, Zenon DEF HeadersInv
<1>7. declaredCL' >= 0 => written' + left' <= declaredCL'
  BY <1>1, <1>2, <1>4 DEF BodyInv, ResponseTypeOK
<1>8. BodyInv'
  BY <1>1, <1>2, <1>3, <1>4, <1>7, Zenon DEF BodyInv
<1>9. EndInv'
  BY <1>1, <1>2, <1>3, <1>4, Zenon DEF EndInv
<1> QED BY <1>2, <1>5, <1>6, <1>8, <1>9, KeptBy, Zenon


(* The response ends with its header: Return without a Write, or a panic    *)
(* before the header.                                                       *)
LEMMA StepHeaderEnds ==
  ASSUME ResponseInv, pc = "handler", ~wroteHeaders,
         NEW r \in RWs, ~r.wroteHeaders, r.err = err, r.wire = wire,
         NEW p, p = Prepare(r), p \in RWs, prepared => p.noBody = noBody, p.prepared,
         ~p.noBody => /\ p.CL <= 0
                      /\ p.CL >= 0 => p.declaredCL = p.CL
                      /\ p.declaredCL >= 0 => p.CL = p.declaredCL,
         NEW h, h = WriteHeaders(r, TRUE), Set(h),
         pc' \in {"completed", "done"}, pc' = "completed" => ~h.err,
         UNCHANGED <<isHead, clViolated, written, left, requested, dataDone, broken>>
  PROVE  Kept
<1>1. ResponseTypeOK /\ HeadersInv /\ BodyInv /\ EndInv
  BY Zenon DEF ResponseInv
<1>2. isHead \in BOOLEAN /\ broken \in BOOLEAN
  BY <1>1, Zenon DEF ResponseTypeOK
<1>3. /\ h \in RWs /\ h.wroteHeaders /\ h.prepared /\ h.noBody = p.noBody
      /\ h.declaredCL = p.declaredCL /\ h.CL = p.CL
      /\ broken => h.err /\ h.wire = wire
      /\ ~broken => /\ h.err = err
                    /\ h.wire = Append(wire, HeaderFrame(TRUE, p.CL, p.noBody))
  <2>1. TRUE \in BOOLEAN
    BY Zenon
  <2> QED BY <1>2, <2>1, HeadersAre, Zenon
<1>4. /\ status' = h.status /\ prepared' = h.prepared /\ wroteHeaders' = h.wroteHeaders
      /\ noBody' = p.noBody /\ declaredCL' = p.declaredCL /\ CL' = p.CL
      /\ wire' = h.wire /\ err' = h.err
  BY <1>3, Zenon DEF Set
<1>5. /\ status' \in Int /\ CL' \in Int /\ declaredCL' \in Int /\ err' \in BOOLEAN
      /\ prepared' \in BOOLEAN /\ wroteHeaders' \in BOOLEAN /\ noBody' \in BOOLEAN
      /\ prepared' /\ wroteHeaders' /\ h.err \in BOOLEAN /\ p.CL \in Int
  BY <1>3, <1>4, Zenon DEF RWs
<1>6. (~prepared \/ noBody) /\ (~noBody' => ~noBody) /\ ~clViolated
  <2>1. ~prepared \/ noBody
    BY <1>1, Zenon DEF HeadersInv
  <2>2. ~noBody' => ~noBody
    BY <1>1, <1>4, Zenon DEF HeadersInv
  <2>3. ~clViolated
    BY <1>1, Zenon DEF EndInv
  <2> QED BY <2>1, <2>2, <2>3, Zenon
<1>7. /\ wire' \in Seq(Frames) /\ ~sawRST' /\ bytes' = 0 /\ written = 0 /\ left = 0
      /\ wire' = wire \/ Wire!Next
      /\ sawHeaders' <=> ~broken
      /\ ended' <=> ~broken /\ TRUE
      /\ sawHeaders' => final'.bodyless = noBody'
      /\ sawHeaders' /\ ~noBody' => /\ final'.cl >= 0 => declaredCL' = final'.cl
                                    /\ declaredCL' >= 0 => final'.cl = declaredCL'
  <2>1. TRUE \in BOOLEAN
    BY Zenon
  <2>2. broken => h.err /\ wire' = wire
    BY <1>3, <1>4, Zenon
  <2>3. ~broken => h.err = err /\ wire' = Append(wire, HeaderFrame(TRUE, p.CL, noBody'))
    BY <1>3, <1>4, Zenon
  <2>4. TRUE /\ ~noBody' => p.CL <= 0
    BY <1>4, Zenon
  <2>5. ~noBody' => /\ p.CL >= 0 => declaredCL' = p.CL
                    /\ declaredCL' >= 0 => p.CL = declaredCL'
    BY <1>4, Zenon
  <2> QED BY <1>5, <1>6, <2>1, <2>2, <2>3, <2>4, <2>5, HeaderWritten, Zenon
<1>8. ended' <=> ~broken
  BY <1>7, Zenon
<1>9. err' => broken
  <2>1. err => broken
    BY <1>1, <1>6, Zenon DEF EndInv
  <2> QED BY <1>3, <1>4, <2>1, Zenon
<1>10. ~noBody' => requested = 0 \/ err
  BY <1>1, <1>6, <1>7 DEF BodyInv, ResponseTypeOK
<1>11. err => err'
  BY <1>1, <1>3, <1>4, <1>6, Zenon DEF EndInv
<1>12. ~noBody' => ~(declaredCL' > 0)
  <2> DEFINE c == CL'
             d == declaredCL'
  <2>1. c \in Int /\ d \in Int /\ (~noBody' => c <= 0 /\ (d >= 0 => c = d))
    BY <1>4, <1>5, Zenon
  <2> HIDE DEF c, d
  <2>2. ~noBody' => ~(d > 0)
    BY <2>1
  <2> QED BY <2>2, Zenon DEF d
<1>13. ResponseTypeOK'
  BY <1>1, <1>5, <1>7, Zenon DEF ResponseTypeOK
<1>14. HeadersInv'
  BY <1>5, <1>7, <1>8, Zenon DEF HeadersInv
<1>15. BodyInv'
  <2>1. written' = 0 /\ left' = 0 /\ requested' = requested
    BY <1>7, Zenon
  <2>2. ended' => noBody' \/ requested = 0
    BY <1>8, <1>9, <1>10, <1>11, Zenon
  <2>3. ~noBody' /\ ~err' => requested = 0
    BY <1>10, <1>11, Zenon
  <2>4. ~noBody' /\ declaredCL' >= 0 => 0 + 0 <= declaredCL'
    BY <1>5
  <2> QED BY <1>5, <1>7, <2>1, <2>2, <2>3, <2>4 DEF BodyInv
<1>16. EndInv'
  <2>1. pc' = "completed" => ended'
    BY <1>3, <1>8, Zenon
  <2> QED BY <1>5, <1>6, <1>7, <1>8, <1>9, <2>1, Zenon DEF EndInv
<1> QED BY <1>7, <1>13, <1>14, <1>15, <1>16, KeptBy, Zenon

(* serveStream resets the stream and leaves the rest as it is. *)
LEMMA StepAborted ==
  ASSUME ResponseInv, pc = "handler", pc' = "done",
         NEW p \in RWs, p.wroteHeaders = wroteHeaders, p.err = err,
         p.prepared, prepared => p.noBody = noBody /\ p.declaredCL = declaredCL,
         ~p.noBody /\ p.declaredCL >= 0 => written <= p.declaredCL,
         Set([p EXCEPT !.wire = Reset(wire, "INTERNAL_ERROR")]),
         UNCHANGED <<isHead, clViolated, written, left, requested, dataDone, broken>>
  PROVE  Kept
<1>1. ResponseTypeOK /\ HeadersInv /\ EndInv
  BY Zenon DEF ResponseInv
<1> DEFINE q == Reset(wire, "INTERNAL_ERROR")
           g == [p EXCEPT !.wire = q]
<1>2. Set(g)
  BY Zenon
<1> HIDE DEF q
<1>3. /\ g.status = p.status /\ g.prepared = p.prepared
      /\ g.wroteHeaders = p.wroteHeaders /\ g.noBody = p.noBody
      /\ g.declaredCL = p.declaredCL /\ g.err = p.err /\ g.CL = p.CL /\ g.wire = q
      /\ p.status \in Int /\ p.CL \in Int /\ p.declaredCL \in Int
      /\ p.prepared \in BOOLEAN /\ p.noBody \in BOOLEAN
  BY Zenon DEF RWs
<1> HIDE DEF g
<1>4. /\ status' = p.status /\ prepared' = p.prepared /\ wroteHeaders' = wroteHeaders
      /\ noBody' = p.noBody /\ declaredCL' = p.declaredCL /\ CL' = p.CL
      /\ wire' = Reset(wire, "INTERNAL_ERROR") /\ err' = err
  BY <1>2, <1>3, Zenon DEF Set, q
<1>5. pc # "done" /\ pc # "write" /\ ~ended /\ "INTERNAL_ERROR" # "NO_ERROR"
  BY <1>1, Zenon DEF EndInv
<1>6. /\ wroteHeaders => prepared
      /\ sawHeaders => wroteHeaders
      /\ noBody => prepared
  BY <1>1, Zenon DEF HeadersInv
<1>7. prepared \in BOOLEAN
  BY <1>1, Zenon DEF ResponseTypeOK
<1>8. sawHeaders => /\ prepared' = prepared /\ noBody' = noBody
                    /\ declaredCL' = declaredCL
  <2>1. prepared => prepared' = prepared
    BY <1>3, <1>4, <1>7, Zenon
  <2> QED BY <1>4, <1>6, <2>1, Zenon
<1>9. /\ wroteHeaders => prepared' /\ noBody' = noBody
      /\ noBody' => prepared'
      /\ ~noBody' => ~noBody
      /\ prepared => prepared'
      /\ ~noBody' /\ declaredCL' >= 0 => written <= declaredCL'
      /\ status' \in Int /\ CL' \in Int /\ declaredCL' \in Int
      /\ prepared' \in BOOLEAN /\ noBody' \in BOOLEAN
  BY <1>3, <1>4, <1>6, Zenon
<1> QED BY <1>4, <1>5, <1>8, <1>9, StepReset, Zenon


(* A handler that panics is answered 500, or its stream is reset. *)
LEMMA StepPanic ==
  ASSUME ResponseInv, Panic
  PROVE  Kept
<1>1. ResponseTypeOK /\ HeadersInv /\ BodyInv /\ EndInv
  BY Zenon DEF ResponseInv
<1>2. /\ pc = "handler" /\ pc' = "done"
      /\ UNCHANGED <<isHead, clViolated, written, left, requested, dataDone, broken>>
  BY Zenon DEF Panic, env
<1>3. /\ RW \in RWs /\ RW.status = status /\ RW.prepared = prepared
      /\ RW.wroteHeaders = wroteHeaders /\ RW.noBody = noBody
      /\ RW.declaredCL = declaredCL /\ RW.err = err /\ RW.CL = CL /\ RW.wire = wire
  BY <1>1, RWType, Zenon
<1>4. CASE wroteHeaders
  <2>1. Set([RW EXCEPT !.wire = Reset(wire, "INTERNAL_ERROR")])
    BY <1>4, Zenon DEF Panic
  <2>2. prepared
    BY <1>1, <1>4, Zenon DEF HeadersInv
  <2>3. ~noBody /\ declaredCL >= 0 => written <= declaredCL
    BY <1>1, <1>2 DEF BodyInv, ResponseTypeOK
  <2> QED BY <1>2, <1>3, <2>1, <2>2, <2>3, StepAborted, Zenon
<1>5. CASE ~wroteHeaders
  <2> DEFINE r == Failed(RW)
             p == Prepare(r)
             h == WriteHeaders(r, TRUE)
  <2>1. Set(h)
    BY <1>5, Zenon DEF Panic, Failed
  <2>2. /\ r \in RWs /\ r.prepared = prepared /\ r.wroteHeaders = wroteHeaders
        /\ r.noBody = noBody /\ r.declaredCL = -1 /\ r.err = err
        /\ r.CL = Absent /\ r.wire = wire
    BY <1>3, FailedIs, Zenon
  <2> HIDE DEF r
  <2>3. isHead \in BOOLEAN
    BY <1>1, Zenon DEF ResponseTypeOK
  <2>4. /\ p \in RWs /\ p.prepared /\ p.CL \in {r.CL, Absent}
        /\ r.prepared => p = r
        /\ ~r.prepared => /\ p.CL >= 0 => p.declaredCL = p.CL
                          /\ p.declaredCL >= 0 => p.CL = p.declaredCL
    BY <2>2, <2>3, PrepareIs, Zenon
  <2>5. p = Prepare(r) /\ h = WriteHeaders(r, TRUE)
    BY Zenon
  <2> HIDE DEF p, h
  <2>6. p.CL = Absent /\ (r.prepared => p.declaredCL = -1 /\ p.noBody = noBody)
    BY <2>2, <2>4, Zenon
  <2>6a. p.CL <= 0 /\ ~(p.CL >= 0)
    BY <2>6 DEF Absent
  <2>6b. r.prepared => ~(p.declaredCL >= 0)
    BY <2>6
  <2>7. /\ p.CL <= 0
        /\ p.CL >= 0 => p.declaredCL = p.CL
        /\ p.declaredCL >= 0 => p.CL = p.declaredCL
    BY <2>4, <2>6a, <2>6b, Zenon
  <2>8. pc' \in {"completed", "done"} /\ pc' # "completed"
    BY <1>2, Zenon
  <2> QED BY <1>2, <1>5, <2>1, <2>2, <2>4, <2>5, <2>6, <2>7, <2>8, StepHeaderEnds, Zenon
<1> QED BY <1>4, <1>5, Zenon

(* Return after a Write or a Flush: a DATA frame with END_STREAM. *)
LEMMA StepDataEnds ==
  ASSUME ResponseInv, pc = "handler", wroteHeaders, ~err,
         ~(~noBody /\ declaredCL >= 0 /\ written < declaredCL),
         NEW p \in RWs, p.prepared, p.wroteHeaders = wroteHeaders, p.err = err,
         p.wire = wire, p.noBody = noBody, p.declaredCL = declaredCL,
         NEW h, h = Send(p, Data(0, TRUE)), Set(h),
         pc' = IF h.err THEN "done" ELSE "completed",
         UNCHANGED <<isHead, clViolated, written, left, requested, dataDone, broken>>
  PROVE  Kept
<1>1. ResponseTypeOK /\ HeadersInv /\ BodyInv /\ EndInv
  BY Zenon DEF ResponseInv
<1>2. Data(0, TRUE) \in Frames
  <2>1. 0 \in Nat /\ TRUE \in BOOLEAN
    BY Zenon
  <2> QED BY <2>1, FrameShapes, Zenon
<1>3. /\ h \in RWs /\ h.status = p.status /\ h.prepared = p.prepared
      /\ h.wroteHeaders = wroteHeaders /\ h.noBody = noBody
      /\ h.declaredCL = declaredCL /\ h.CL = p.CL
      /\ broken => h.err /\ h.wire = wire
      /\ ~broken => h.err = err /\ h.wire = Append(wire, Data(0, TRUE))
  BY <1>1, <1>2, SendIs, Zenon DEF ResponseTypeOK
<1>4. /\ status' = h.status /\ prepared' = h.prepared /\ CL' = h.CL
      /\ wire' = h.wire /\ err' = h.err
      /\ UNCHANGED <<wroteHeaders, noBody, declaredCL>>
  BY <1>3, Zenon DEF Set
<1>5. /\ status' \in Int /\ CL' \in Int /\ err' \in BOOLEAN /\ prepared' \in BOOLEAN
      /\ h.err \in BOOLEAN
  BY <1>3, <1>4, Zenon DEF RWs
<1>6. /\ prepared' /\ (err' <=> broken)
      /\ broken => wire' = wire
      /\ ~broken => wire' = Append(wire, Data(0, TRUE))
      /\ pc' = IF broken THEN "done" ELSE "completed"
  BY <1>3, <1>4, <1>5, Zenon
<1>7. /\ ~noBody /\ ~clViolated /\ ~ended /\ ~sawRST /\ (sawHeaders \/ broken)
      /\ prepared
  BY <1>1, Zenon DEF HeadersInv, EndInv
<1>8. /\ bytes = written /\ written = requested /\ left = 0 /\ written \in Nat
      /\ declaredCL \in Int /\ (declaredCL >= 0 => written = declaredCL)
  BY <1>1, <1>7 DEF BodyInv, ResponseTypeOK
<1>8a. declaredCL >= 0 => written + left <= declaredCL
  BY <1>8
<1>9. CASE broken
  <2>1. wire' = wire /\ err' /\ pc' = "done"
    BY <1>6, <1>9, Zenon
  <2>2. /\ sawHeaders' = sawHeaders /\ sawRST' = sawRST /\ ended' = ended
        /\ bytes' = bytes /\ final' = final
    BY <2>1, Silent, Zenon
  <2>3. ResponseTypeOK'
    BY <1>1, <1>4, <1>5, <2>1, Zenon DEF ResponseTypeOK
  <2>4. HeadersInv'
    BY <1>1, <1>4, <1>6, <1>7, <2>1, <2>2, Zenon DEF HeadersInv
  <2>5. BodyInv'
    BY <1>4, <1>7, <1>8, <1>8a, <2>1, <2>2, Zenon DEF BodyInv
  <2>6. EndInv'
    BY <1>1, <1>4, <1>7, <1>9, <2>1, <2>2, Zenon DEF EndInv
  <2> QED BY <2>1, <2>3, <2>4, <2>5, <2>6, KeptBy, Zenon
<1>10. CASE ~broken
  <2>1. wire' = Append(wire, Data(0, TRUE)) /\ ~err' /\ sawHeaders /\ pc' = "completed"
    BY <1>6, <1>7, <1>10, Zenon
  <2>2. final.cl >= 0 => declaredCL = final.cl
    BY <1>1, <1>7, <2>1, Zenon DEF HeadersInv
  <2>3. final.cl >= 0 => bytes + 0 <= final.cl /\ (TRUE => bytes + 0 = final.cl)
    <3> DEFINE c == final.cl
    <3>1. c >= 0 => declaredCL = c
      BY <2>2, Zenon
    <3> HIDE DEF c
    <3>2. c >= 0 => bytes + 0 <= c /\ bytes + 0 = c
      BY <1>8, <3>1
    <3> QED BY <3>2, Zenon DEF c
  <2>4. /\ wire' \in Seq(Frames) /\ sawHeaders' /\ ~sawRST' /\ (ended' <=> TRUE)
        /\ bytes' = bytes + 0 /\ final' = final /\ Wire!Next
    <3>1. TRUE \in BOOLEAN
      BY Zenon
    <3>2. wire \in Seq(Frames) /\ 0 \in Nat
      BY <1>1, Zenon DEF ResponseTypeOK
    <3> QED BY <1>7, <2>1, <2>3, <3>1, <3>2, SendsData, Zenon
  <2>5. bytes' = bytes /\ ended'
    BY <1>8, <2>4
  <2>6. ResponseTypeOK'
    BY <1>1, <1>4, <1>5, <2>1, <2>4, Zenon DEF ResponseTypeOK
  <2>7. HeadersInv'
    BY <1>1, <1>4, <1>6, <1>7, <2>1, <2>4, Zenon DEF HeadersInv
  <2>8. BodyInv'
    BY <1>4, <1>7, <1>8, <1>8a, <2>1, <2>5 DEF BodyInv
  <2>9. EndInv'
    BY <1>4, <1>7, <2>1, <2>4, <2>5, Zenon DEF EndInv
  <2> QED BY <2>4, <2>6, <2>7, <2>8, <2>9, KeptBy, Zenon
<1> QED BY <1>9, <1>10, Zenon

(* A handler that returns ends its stream, or resets a response that is not *)
(* complete.                                                                *)
LEMMA StepReturn ==
  ASSUME ResponseInv, Return
  PROVE  Kept
<1>1. ResponseTypeOK /\ HeadersInv /\ BodyInv /\ EndInv
  BY Zenon DEF ResponseInv
<1>2. /\ pc = "handler"
      /\ UNCHANGED <<isHead, clViolated, written, left, requested, dataDone, broken>>
  BY Zenon DEF Return, env
<1>3. /\ RW \in RWs /\ RW.status = status /\ RW.prepared = prepared
      /\ RW.wroteHeaders = wroteHeaders /\ RW.noBody = noBody
      /\ RW.declaredCL = declaredCL /\ RW.err = err /\ RW.CL = CL /\ RW.wire = wire
  BY <1>1, RWType, Zenon
<1> DEFINE p == Prepare(RW)
           short == ~p.noBody /\ p.declaredCL >= 0 /\ written < p.declaredCL
           end == IF wroteHeaders THEN Send(p, Data(0, TRUE)) ELSE WriteHeaders(p, TRUE)
<1>4. /\ p \in RWs /\ p.prepared /\ p.wroteHeaders = wroteHeaders
      /\ p.err = err /\ p.wire = wire /\ Prepare(p) = p
      /\ prepared => p.noBody = noBody /\ p.declaredCL = declaredCL /\ p.CL = CL
      /\ ~prepared => /\ p.CL >= 0 => p.declaredCL = p.CL
                      /\ p.declaredCL >= 0 => p.CL = p.declaredCL
  BY PreparedRW, Zenon
<1>5. CASE clViolated
  <2>1. Set([RW EXCEPT !.wire = Reset(wire, "INTERNAL_ERROR")]) /\ pc' = "done"
    BY <1>5, Zenon DEF Return
  <2>2. prepared
    BY <1>1, <1>5, Zenon DEF HeadersInv, EndInv
  <2>3. ~noBody /\ declaredCL >= 0 => written <= declaredCL
    BY <1>1, <1>2 DEF BodyInv, ResponseTypeOK
  <2> QED BY <1>2, <1>3, <2>1, <2>2, <2>3, StepAborted, Zenon
<1>6. CASE ~clViolated /\ err
  <2>1. Set(RW) /\ pc' = "done"
    BY <1>6, Zenon DEF Return
  <2>2. UNCHANGED <<status, prepared, wroteHeaders, noBody, declaredCL, err, CL, wire>>
    BY <1>3, <2>1, Zenon DEF Set
  <2>3. /\ sawHeaders' = sawHeaders /\ sawRST' = sawRST /\ ended' = ended
        /\ bytes' = bytes /\ final' = final
    BY <2>2, Silent, Zenon
  <2>4. broken
    BY <1>1, <1>6, Zenon DEF EndInv
  <2>5. ResponseTypeOK'
    BY <1>1, <1>2, <2>1, <2>2, Zenon DEF ResponseTypeOK
  <2>6. HeadersInv'
    BY <1>1, <1>2, <2>1, <2>2, <2>3, Zenon DEF HeadersInv
  <2>7. BodyInv'
    BY <1>1, <1>2, <2>1, <2>2, <2>3, Zenon DEF BodyInv
  <2>8. EndInv'
    BY <1>1, <1>2, <2>1, <2>2, <2>3, <2>4, Zenon DEF EndInv
  <2> QED BY <2>2, <2>5, <2>6, <2>7, <2>8, KeptBy, Zenon
<1>7. CASE ~clViolated /\ ~err /\ short
  <2>1. Set([p EXCEPT !.wire = Reset(wire, "INTERNAL_ERROR")]) /\ pc' = "done"
    BY <1>7, Zenon DEF Return
  <2>2. p.declaredCL \in Int
    BY <1>4, Zenon DEF RWs
  <2> HIDE DEF p
  <2>3. written <= p.declaredCL
    BY <1>1, <1>7, <2>2 DEF ResponseTypeOK
  <2> QED BY <1>2, <1>4, <2>1, <2>3, StepAborted, Zenon
<1>8. CASE ~clViolated /\ ~err /\ ~short
  <2>1. Set(end) /\ pc' = IF end.err THEN "done" ELSE "completed"
    BY <1>8, Zenon DEF Return
  <2>2. CASE wroteHeaders
    <3> DEFINE h == Send(p, Data(0, TRUE))
    <3>1. end = h /\ prepared
      BY <1>1, <2>2, Zenon DEF HeadersInv
    <3>2. Set(h) /\ pc' = IF h.err THEN "done" ELSE "completed"
      BY <2>1, <3>1, Zenon
    <3>3. ~(~noBody /\ declaredCL >= 0 /\ written < declaredCL)
      BY <1>4, <1>8, <3>1, Zenon
    <3> HIDE DEF p, short, end
    <3> QED BY <1>2, <1>4, <1>8, <2>2, <3>1, <3>2, <3>3, StepDataEnds, Zenon
  <2>3. CASE ~wroteHeaders
    <3> DEFINE h == WriteHeaders(p, TRUE)
    <3>1. end = h
      BY <2>3, Zenon
    <3>2. Set(h) /\ pc' = IF h.err THEN "done" ELSE "completed"
      BY <2>1, <3>1, Zenon
    <3>3. pc' \in {"completed", "done"} /\ (pc' = "completed" => ~h.err)
      BY <3>2, Zenon
    <3>3a. p.declaredCL \in Int /\ p.CL \in Int
      BY <1>4, Zenon DEF RWs
    <3>4. written = 0
      BY <1>1, <2>3, Zenon DEF BodyInv
    <3>5. ~p.noBody => ~prepared
      BY <1>1, <1>2, <1>4, <2>3, Zenon DEF HeadersInv
    <3> DEFINE d == p.declaredCL
               c == p.CL
    <3>6. ~p.noBody => ~(d >= 0 /\ 0 < d)
      BY <1>8, <3>4, Zenon
    <3>7. /\ ~p.noBody => (c >= 0 => d = c) /\ (d >= 0 => c = d)
          /\ c \in Int /\ d \in Int
      BY <1>4, <3>3a, <3>5, Zenon
    <3> HIDE DEF c, d
    <3>8. ~p.noBody => c <= 0
      BY <3>6, <3>7
    <3>9. ~p.noBody => /\ p.CL <= 0
                       /\ p.CL >= 0 => p.declaredCL = p.CL
                       /\ p.declaredCL >= 0 => p.CL = p.declaredCL
      BY <3>7, <3>8, Zenon DEF c, d
    <3> HIDE DEF p, short, end
    <3>10. ~p.wroteHeaders /\ p = Prepare(p) /\ (prepared => p.noBody = noBody)
      BY <1>4, <2>3, Zenon
    <3> QED BY <1>2, <1>4, <2>3, <3>2, <3>3, <3>9, <3>10, StepHeaderEnds, Zenon
  <2> QED BY <2>2, <2>3, Zenon
<1> QED BY <1>5, <1>6, <1>7, <1>8, Zenon

(* Every step keeps ResponseInv and sends only what ResponseWire allows. *)
LEMMA ResponseStep ==
  ASSUME ResponseInv, [Next]_vars
  PROVE  Kept
<1>1. CASE UNCHANGED vars
  <2>1. wire' = wire
    BY <1>1, Zenon DEF vars
  <2>2. /\ sawHeaders' = sawHeaders /\ sawRST' = sawRST /\ ended' = ended
        /\ bytes' = bytes /\ final' = final
    BY <2>1, Silent, Zenon
  <2>3. ResponseTypeOK' /\ HeadersInv' /\ BodyInv' /\ EndInv'
    BY <1>1, <2>1, <2>2, ZenonT(30) DEF ResponseInv, ResponseTypeOK, HeadersInv, BodyInv,
                                   EndInv, vars, rw, env
  <2> QED BY <2>1, <2>3, KeptBy, Zenon
<1>2. CASE Next
  BY <1>2, StepQuiet, StepBadPath, StepWriteHeader, StepFlush, StepFlushData, StepWrite,
     StepWriteChunk, StepWriteConnDead, StepReturn, StepPanic, StepStopRequestBody,
     Zenon DEF Next
<1> QED BY <1>1, <1>2, Zenon


(* serveStream and its response writer keep ResponseInv. *)
THEOREM ResponseInductive == Spec => []ResponseInv
<1>1. ResponseInv /\ [Next]_vars => ResponseInv'
  BY ResponseStep, Zenon DEF Kept
<1> QED BY ResponseInitInv, <1>1, PTL DEF Spec

(* The relay's tunnel and forwarder leave the worker's response writer      *)
(* alone: what is proved of Response holds in Relay.                        *)
LEMMA RelayIsResponse == RelaySpec => Spec
<1>1. RelayInit => Init
  BY Zenon DEF RelayInit
<1>2. [RelayNext]_relayVars => [Next]_vars
  BY Zenon DEF RelayNext, Deliver, Lose, Respond, Cancel, Copy, CopyEnds, relayVars
<1> QED BY <1>1, <1>2, PTL DEF RelaySpec, Spec

(* On a working connection the stream of a handler that has finished, by    *)
(* returning or by panicking, has been ended or reset (finish, reset and    *)
(* the error paths of serveStream).                                         *)
THEOREM ResponseTerminated == RelaySpec => []StreamTerminated
<1>1. ResponseInv => StreamTerminated
  BY Zenon DEF ResponseInv, EndInv, StreamTerminated, Wire!Terminated, ended, sawRST
<1> QED BY <1>1, RelayIsResponse, ResponseInductive, PTL

(* END_STREAM is sent only behind every byte that the handler passed to     *)
(* Write, whatever Content-Length it declared and whichever Write failed.   *)
THEOREM ResponseComplete == RelaySpec => []CompleteBody
<1>1. ResponseInv => CompleteBody
  <2> SUFFICES ASSUME ResponseInv, ended, ~final.bodyless PROVE bytes = requested
    BY Zenon DEF CompleteBody, ended, final, bytes
  <2>1. sawHeaders
    BY Zenon DEF ResponseInv, EndInv
  <2>2. ~noBody
    BY <2>1, Zenon DEF ResponseInv, HeadersInv
  <2> QED BY <2>2, Zenon DEF ResponseInv, BodyInv
<1> QED BY <1>1, RelayIsResponse, ResponseInductive, PTL

(* The frames that the response writer sends on a stream are those of a     *)
(* legal response: Response implements ResponseWire.                        *)
THEOREM ResponseIsLegal == RelaySpec => LegalResponse
<1>1. Init => Wire!Init
  BY Zenon DEF Init, Wire!Init
<1>2. ResponseInv /\ [Next]_vars => [Wire!Next]_wire
  BY ResponseStep, Zenon DEF Kept
<1> QED BY <1>1, <1>2, RelayIsResponse, ResponseInductive, PTL
        DEF Spec, LegalResponse, Wire!Spec

-----------------------------------------------------------------------------
(* The relay. *)

(* The first frames of a wire. *)
LEMMA WirePrefix ==
  ASSUME NEW w \in Seq(Frames), NEW k \in 0..Len(w)
  PROVE  /\ SubSeq(w, 1, k) \in Seq(Frames)
         /\ SubSeq(w, 1, Len(w)) = w
         /\ SubSeq(w, 1, 0) = <<>>
         /\ \A f \in Frames : SubSeq(Append(w, f), 1, k) = SubSeq(w, 1, k)
         /\ k < Len(w) => /\ SubSeq(w, 1, k + 1) = Append(SubSeq(w, 1, k), w[k + 1])
                          /\ w[k + 1] \in Frames
<1>1. Len(w) \in Nat /\ k \in Nat /\ k <= Len(w)
  OBVIOUS
<1>2. SubSeq(w, 1, k) \in Seq(Frames) /\ Len(SubSeq(w, 1, k)) = k
      /\ \A i \in 1..k : SubSeq(w, 1, k)[i] = w[i]
  BY <1>1
<1>3. SubSeq(w, 1, Len(w)) = w
  OBVIOUS
<1>4. SubSeq(w, 1, 0) = <<>>
  OBVIOUS
<1>5. ASSUME NEW f \in Frames PROVE SubSeq(Append(w, f), 1, k) = SubSeq(w, 1, k)
  <2> DEFINE t == SubSeq(Append(w, f), 1, k)
  <2>1. t \in Seq(Frames) /\ Len(t) = k /\ \A i \in 1..k : t[i] = w[i]
    BY <1>1
  <2> DEFINE s == SubSeq(w, 1, k)
  <2>2. s \in Seq(Frames) /\ Len(s) = k /\ \A i \in 1..k : s[i] = w[i]
    BY <1>2, Zenon
  <2> HIDE DEF s, t
  <2>3. t = s
    BY <2>1, <2>2, SameSequence, Zenon
  <2> QED BY <2>3, Zenon DEF s, t
<1>6. ASSUME k < Len(w)
      PROVE  /\ SubSeq(w, 1, k + 1) = Append(SubSeq(w, 1, k), w[k + 1])
             /\ w[k + 1] \in Frames
  <2> DEFINE s == SubSeq(w, 1, k)
             t == SubSeq(w, 1, k + 1)
             u == Append(s, w[k + 1])
  <2>1. k + 1 \in 1..Len(w) /\ w[k + 1] \in Frames
    BY <1>1, <1>6
  <2>2. t \in Seq(Frames) /\ Len(t) = k + 1 /\ \A i \in 1..(k + 1) : t[i] = w[i]
    BY <1>1, <2>1
  <2>3. s \in Seq(Frames) /\ Len(s) = k /\ \A i \in 1..k : s[i] = w[i]
    BY <1>2, Zenon
  <2> HIDE DEF s, t
  <2>4. /\ u \in Seq(Frames) /\ Len(u) = k + 1
        /\ \A i \in 1..(k + 1) : u[i] = w[i]
    BY <1>1, <2>1, <2>3
  <2> HIDE DEF u
  <2>5. t = u
    BY <2>2, <2>4, SameSequence, Zenon
  <2> QED BY <2>1, <2>5, Zenon DEF s, t, u
<1> QED BY <1>2, <1>3, <1>4, <1>5, <1>6, Zenon

(* Nothing but RST_STREAM follows END_STREAM, so a prefix that has it       *)
(* carries the whole body, and the header of the response.                  *)
Whole(w) ==
    \A k \in 0..Len(w) :
        LET s == SubSeq(w, 1, k) IN
        Wire!Ended(s) => /\ Wire!Ended(w)
                         /\ Wire!BodyBytes(s) = Wire!BodyBytes(w)
                         /\ Wire!Headers(s) = Wire!Headers(w)

seen == SubSeq(wire, 1, handled)

(* Whole is kept, since only RST_STREAM may follow END_STREAM. *)
LEMMA WholeStep ==
  ASSUME wire \in Seq(Frames), Whole(wire), wire' \in Seq(Frames), [Wire!Next]_wire
  PROVE  Whole(wire')
<1>1. CASE wire' = wire
  BY <1>1, Zenon
<1>2. CASE Wire!Next
  <2> DEFINE f == wire'[Len(wire')]
             w == wire'
  <2>1. w # <<>> /\ w = Append(wire, f) /\ Wire!Legal(f)
    BY <1>2, Zenon DEF Wire!Next
  <2>2. f \in Frames
    <3>1. Len(w) \in 1..Len(w)
      BY <2>1
    <3> HIDE DEF w
    <3>2. w \in Seq(Frames)
      BY Zenon DEF w
    <3> QED BY <3>1, <3>2 DEF w
  <2> HIDE DEF f
  <2>3. /\ Wire!Ended(Append(wire, f)) <=> Wire!Ended(wire) \/ f.end
        /\ Wire!BodyBytes(Append(wire, f)) = Wire!BodyBytes(wire) + f.len
        /\ f.kind # "HEADERS" => Wire!Headers(Append(wire, f)) = Wire!Headers(wire)
    BY <2>2, WireAppend, Zenon
  <2>4. ASSUME Wire!Ended(wire)
        PROVE  /\ Wire!BodyBytes(w) = Wire!BodyBytes(wire)
               /\ Wire!Headers(w) = Wire!Headers(wire)
    <3>1. f.kind = "RST"
      BY <2>1, <2>2, <2>4, Zenon DEF Wire!Legal, Wire!Terminated, Frames
    <3>2. f.len = 0 /\ f.kind # "HEADERS"
      BY <2>2, <3>1, Zenon DEF Frames
    <3>3. Wire!BodyBytes(wire) \in Nat
      BY WireBytes, Zenon
    <3> DEFINE b == Wire!BodyBytes(wire)
    <3>4. b \in Nat
      BY <3>3, Zenon
    <3> HIDE DEF b
    <3>5. b + 0 = b
      BY <3>4
    <3> QED BY <2>1, <2>3, <3>2, <3>5, Zenon DEF b
  <2>5. /\ Len(w) = Len(wire) + 1 /\ Len(wire) \in Nat
        /\ \A k \in 0..Len(w) : k \in 0..Len(wire) \/ k = Len(w)
    <3>1. Len(w) = Len(wire) + 1 /\ Len(wire) \in Nat
      BY <2>1, <2>2
    <3> HIDE DEF w
    <3> QED BY <3>1
  <2>6. ASSUME NEW k \in 0..Len(w), Wire!Ended(SubSeq(w, 1, k))
        PROVE  /\ Wire!Ended(w)
               /\ Wire!BodyBytes(SubSeq(w, 1, k)) = Wire!BodyBytes(w)
               /\ Wire!Headers(SubSeq(w, 1, k)) = Wire!Headers(w)
    <3>1. CASE k \in 0..Len(wire)
      <4>1. SubSeq(w, 1, k) = SubSeq(wire, 1, k)
        BY <2>1, <2>2, <3>1, WirePrefix, Zenon
      <4>2. /\ Wire!Ended(wire)
            /\ Wire!BodyBytes(SubSeq(wire, 1, k)) = Wire!BodyBytes(wire)
            /\ Wire!Headers(SubSeq(wire, 1, k)) = Wire!Headers(wire)
        BY <2>6, <3>1, <4>1, Zenon DEF Whole
      <4> QED BY <2>1, <2>3, <2>4, <4>1, <4>2, Zenon
    <3>2. CASE k = Len(w)
      <4>1. w \in Seq(Frames)
        BY Zenon
      <4> HIDE DEF w
      <4>2. SubSeq(w, 1, k) = w
        BY <3>2, <4>1
      <4> QED BY <2>6, <4>2, Zenon
    <3> QED BY <2>5, <3>1, <3>2, Zenon
  <2> QED BY <2>6, Zenon DEF Whole
<1> QED BY <1>1, <1>2, Zenon


(* The proxy has handled a prefix of the wire; the bytes of that prefix are *)
(* with the client or in the stream's queue until the forwarder leaves; it  *)
(* copies only a response, and ends only with an empty queue.               *)
RelayInv ==
    /\ handled \in 0..Len(wire) /\ queued \in Nat /\ out \in Nat
    /\ resp \in {"none", "INTERIM", "HEADERS", "failed"}
    /\ resp = "INTERIM" => Wire!Has(seen, "INTERIM")
    /\ fwd \in {"wait", "copy", "ended", "left"}
    /\ fwd \in {"copy", "ended"} => resp \in {"INTERIM", "HEADERS"}
    /\ fwd = "ended" => queued = 0
    /\ fwd # "left" => out + queued = Wire!BodyBytes(seen)
    /\ Whole(wire)

(* RelayInv holds at the start. *)
LEMMA RelayInitInv ==
  ASSUME RelayInit
  PROVE  RelayInv
<1>1. wire = <<>> /\ handled = 0 /\ queued = 0 /\ out = 0 /\ resp = "none" /\ fwd = "wait"
  BY Zenon DEF RelayInit, Init
<1>2. <<>> \in Seq(Frames) /\ Len(<<>>) = 0 /\ 0 \in 0..0 /\ 0..0 = {0} /\ 0 + 0 = 0
      /\ 0 \in Nat
  OBVIOUS
<1>3. SubSeq(<<>>, 1, 0) = <<>>
  BY <1>2, WirePrefix, Zenon
<1>4. Whole(wire)
  BY <1>1, <1>2, <1>3, Zenon DEF Whole
<1>5. Wire!BodyBytes(seen) = 0
  BY <1>1, <1>3, WireEmpty, Zenon DEF seen
<1> QED BY <1>1, <1>2, <1>4, <1>5, Zenon DEF RelayInv

(* A frame that the worker queues changes nothing at the proxy. *)
LEMMA RelayKeeps ==
  ASSUME wire \in Seq(Frames), RelayInv, ResponseInv', [Wire!Next]_wire, UNCHANGED proxy
  PROVE  RelayInv'
<1>1. UNCHANGED <<handled, lost, resp, queued, dataEnd, fwd, out>>
  BY Zenon DEF proxy
<1>2. wire' \in Seq(Frames)
  BY Zenon DEF ResponseInv, ResponseTypeOK
<1>3. Whole(wire')
  BY <1>2, WholeStep, Zenon DEF RelayInv
<1>4. handled \in 0..Len(wire') /\ seen' = seen
  <2>0. handled \in 0..Len(wire)
    BY Zenon DEF RelayInv
  <2>1. CASE wire' = wire
    BY <2>0, <2>1, <1>1, Zenon DEF seen
  <2>2. CASE Wire!Next
    <3> DEFINE f == wire'[Len(wire')]
               w == wire'
    <3>1. w # <<>> /\ w = Append(wire, f)
      BY <2>2, Zenon DEF Wire!Next
    <3>2. f \in Frames
      <4>1. w \in Seq(Frames)
        BY <1>2, Zenon
      <4>2. w # <<>> /\ f = w[Len(w)]
        BY <3>1, Zenon
      <4> HIDE DEF w, f
      <4> QED BY <4>1, <4>2
    <3> HIDE DEF f
    <3>3. SubSeq(w, 1, handled) = SubSeq(wire, 1, handled)
      BY <2>0, <3>1, <3>2, WirePrefix, Zenon
    <3>4. Len(w) = Len(wire) + 1
      BY <3>1, <3>2
    <3> HIDE DEF w
    <3>5. handled \in 0..Len(w)
      BY <2>0, <3>4
    <3> QED BY <1>1, <3>3, <3>5, Zenon DEF seen, w
  <2> QED BY <2>1, <2>2, Zenon
<1> QED BY <1>1, <1>3, <1>4, Zenon DEF RelayInv

(* deliverResponse, HandleInboundData and cs.fail handle the next frame. *)
LEMMA RelayDelivers ==
  ASSUME wire \in Seq(Frames), RelayInv, Deliver
  PROVE  RelayInv'
<1>1. /\ handled < Len(wire) /\ fwd \in {"wait", "copy"} /\ handled' = handled + 1
      /\ UNCHANGED <<wire, fwd, out>>
  BY Zenon DEF Deliver, Registered, vars, rw, env
<1> DEFINE f == wire[handled + 1]
<1>2. /\ queued' = queued + f.len
      /\ CASE f.kind \in {"INTERIM", "HEADERS"} -> Once(f.kind)
           [] f.kind = "RST" -> Once("failed")
           [] OTHER -> UNCHANGED resp
  BY Zenon DEF Deliver
<1>3. handled \in 0..Len(wire) /\ queued \in Nat /\ out \in Nat
  BY Zenon DEF RelayInv
<1>4. SubSeq(wire, 1, handled + 1) = Append(seen, f) /\ f \in Frames /\ seen \in Seq(Frames)
  BY <1>1, <1>3, WirePrefix, Zenon DEF seen
<1>5. seen' = Append(seen, f)
  BY <1>1, <1>4, Zenon DEF seen
<1> HIDE DEF f
<1>6. /\ Wire!Has(seen', "INTERIM") <=> Wire!Has(seen, "INTERIM") \/ f.kind = "INTERIM"
      /\ Wire!BodyBytes(seen') = Wire!BodyBytes(seen) + f.len
  BY <1>4, <1>5, WireAppend, Zenon
<1>7. f.len \in Nat /\ f.kind \in {"INTERIM", "HEADERS", "DATA", "RST"}
  BY <1>4, Zenon DEF Frames
<1>8. handled' \in 0..Len(wire')
  BY <1>1, <1>3
<1>9. queued' \in Nat /\ out' + queued' = Wire!BodyBytes(seen')
  <2> DEFINE b == Wire!BodyBytes(seen)
             n == f.len
             q == queued'
             d == Wire!BodyBytes(seen')
  <2>1. out + queued = b
    BY <1>1, Zenon DEF RelayInv
  <2>2. q = queued + n /\ n \in Nat /\ d = b + n
    BY <1>2, <1>6, <1>7, Zenon
  <2> HIDE DEF b, n, q, d
  <2>3. q \in Nat /\ out + q = d
    BY <1>3, <2>1, <2>2
  <2> QED BY <1>1, <2>3, Zenon DEF q, d
<1>10. resp' \in {resp, "INTERIM", "HEADERS", "failed"}
       /\ (resp # "none" => resp' = resp)
       /\ (resp' = "INTERIM" => resp = "INTERIM" \/ f.kind = "INTERIM")
  BY <1>2, <1>7, Zenon DEF Once
<1>11. /\ resp' \in {"none", "INTERIM", "HEADERS", "failed"}
       /\ resp' = "INTERIM" => Wire!Has(seen, "INTERIM")'
  BY <1>6, <1>10, Zenon DEF RelayInv
<1>12. fwd' # "ended" /\ fwd' \in {"wait", "copy", "ended", "left"}
  BY <1>1, Zenon
<1>13. fwd' \in {"copy", "ended"} => resp' \in {"INTERIM", "HEADERS"}
  BY <1>1, <1>10, Zenon DEF RelayInv
<1>14. Whole(wire')
  BY <1>1, Zenon DEF RelayInv
<1> QED BY <1>3, <1>1, <1>8, <1>9, <1>11, <1>12, <1>13, <1>14, Zenon DEF RelayInv


(* The proxy's other steps leave the wire, and what has been handled, alone. *)
LEMMA RelayForwards ==
  ASSUME RelayInv, Lose \/ Respond \/ Cancel \/ Copy \/ CopyEnds
  PROVE  RelayInv'
<1>1. UNCHANGED <<wire, handled>>
  BY Zenon DEF Lose, Respond, Cancel, Copy, CopyEnds, vars, rw, env
<1>2. seen' = seen
  BY <1>1, Zenon DEF seen
<1> DEFINE b == Wire!BodyBytes(seen)
           h == Wire!Has(seen, "INTERIM")
           m == Whole(wire)
<1>3. b' = b /\ h' = h /\ m' = m
  BY <1>1, <1>2, Zenon
<1>4. /\ handled \in 0..Len(wire) /\ queued \in Nat /\ out \in Nat
      /\ resp \in {"none", "INTERIM", "HEADERS", "failed"}
      /\ resp = "INTERIM" => h
      /\ fwd \in {"wait", "copy", "ended", "left"}
      /\ fwd \in {"copy", "ended"} => resp \in {"INTERIM", "HEADERS"}
      /\ fwd = "ended" => queued = 0
      /\ fwd # "left" => out + queued = b
      /\ m
  BY Zenon DEF RelayInv
<1> HIDE DEF b, h, m
<1>5. /\ queued' \in Nat /\ out' \in Nat
      /\ resp' \in {"none", "INTERIM", "HEADERS", "failed"}
      /\ resp' = "INTERIM" => h
      /\ fwd' \in {"wait", "copy", "ended", "left"}
      /\ fwd' \in {"copy", "ended"} => resp' \in {"INTERIM", "HEADERS"}
      /\ fwd' = "ended" => queued' = 0
      /\ fwd' # "left" => out' + queued' = b
  <2>1. CASE Lose
    BY <1>4, <2>1, Zenon DEF Lose, Registered, Once
  <2>2. CASE Respond
    BY <1>4, <2>2, Zenon DEF Respond
  <2>3. CASE Cancel
    BY <1>4, <2>3, Zenon DEF Cancel
  <2>4. CASE Copy
    BY <1>4, <2>4 DEF Copy
  <2>5. CASE CopyEnds
    BY <1>4, <2>5, Zenon DEF CopyEnds, BodyRead
  <2> QED BY <2>1, <2>2, <2>3, <2>4, <2>5, Zenon
<1>6. /\ fwd' # "left" => out' + queued' = Wire!BodyBytes(seen)'
      /\ resp' = "INTERIM" => Wire!Has(seen, "INTERIM")'
      /\ Whole(wire)'
  BY <1>3, <1>4, <1>5, Zenon DEF b, h, m
<1> QED BY <1>1, <1>4, <1>5, <1>6, Zenon DEF RelayInv

(* The two invariants together are inductive. *)
LEMMA RelayStep ==
  ASSUME ResponseInv, RelayInv, [RelayNext]_relayVars
  PROVE  ResponseInv' /\ RelayInv'
<1>1. wire \in Seq(Frames)
  BY Zenon DEF ResponseInv, ResponseTypeOK
<1>2. [Next]_vars
  BY Zenon DEF RelayNext, Deliver, Lose, Respond, Cancel, Copy, CopyEnds, relayVars
<1>3. ResponseInv' /\ [Wire!Next]_wire
  BY <1>2, ResponseStep, Zenon DEF Kept
<1>4. CASE UNCHANGED proxy
  BY <1>1, <1>3, <1>4, RelayKeeps, Zenon
<1>5. CASE Deliver
  BY <1>1, <1>3, <1>5, RelayDelivers, Zenon
<1>6. CASE Lose \/ Respond \/ Cancel \/ Copy \/ CopyEnds
  BY <1>3, <1>6, RelayForwards, Zenon
<1> QED BY <1>4, <1>5, <1>6, Zenon DEF RelayNext, relayVars

(* A client whose response was copied to the worker's END_STREAM has the    *)
(* final status and every byte the handler wrote, however the tunnel loop   *)
(* and writeResponse interleave and whenever the tunnel is lost.            *)
THEOREM RelayedInFull == RelaySpec => []ResponseRelayed
<1>1. RelayInit => ResponseInv /\ RelayInv
  BY RelayInitInv, ResponseInitInv, Zenon DEF RelayInit
<1>2. ResponseInv /\ RelayInv /\ [RelayNext]_relayVars => ResponseInv' /\ RelayInv'
  BY RelayStep, Zenon
<1>3. ResponseInv /\ RelayInv => ResponseRelayed
  <2> SUFFICES ASSUME ResponseInv, RelayInv, fwd = "ended", Wire!Ended(seen)
               PROVE  /\ Wire!Has(seen, "INTERIM") \/ resp = "HEADERS"
                      /\ Wire!Headers(seen).bodyless \/ out = requested
    BY Zenon DEF ResponseRelayed, seen
  <2>1. resp \in {"INTERIM", "HEADERS"} /\ (resp = "INTERIM" => Wire!Has(seen, "INTERIM"))
    BY Zenon DEF RelayInv
  <2>2. ended /\ Wire!BodyBytes(seen) = bytes /\ Wire!Headers(seen) = final
    BY Zenon DEF RelayInv, Whole, seen, ended, bytes, final
  <2>3. out = Wire!BodyBytes(seen)
    <3> DEFINE b == Wire!BodyBytes(seen)
    <3>1. queued = 0 /\ out \in Nat /\ out + queued = b
      BY Zenon DEF RelayInv
    <3> HIDE DEF b
    <3>2. out = b
      BY <3>1
    <3> QED BY <3>2, Zenon DEF b
  <2>4. bytes = written /\ (noBody \/ written = requested)
    BY <2>2, Zenon DEF ResponseInv, BodyInv
  <2>5. final.bodyless <=> noBody
    BY <2>2, Zenon DEF ResponseInv, EndInv, HeadersInv
  <2> QED BY <2>1, <2>2, <2>3, <2>4, <2>5, Zenon
<1> QED BY <1>1, <1>2, <1>3, PTL DEF RelaySpec


=============================================================================
