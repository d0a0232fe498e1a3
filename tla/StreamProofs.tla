---------------------------- MODULE StreamProofs ----------------------------
(***************************************************************************)
(* What TLAPS proves of the streams of a connection, the registry and pool *)
(* they live in (StreamPool) and the queue of their body (StreamBody).     *)
(*                                                                         *)
(* For any number of connections, streams and objects: the registry leads  *)
(* only to live objects, no two requests share one, and teardown reaches   *)
(* every registered stream.  With a single connection, frames reach only   *)
(* the request they were sent for.                                         *)
(*                                                                         *)
(* For any number of buffers, bytes, frame and read sizes: a parked reader *)
(* has nothing to read, every buffer is in one place, and the queue hands  *)
(* out the bytes of the body in order (it implements BodyPipe).            *)
(***************************************************************************)
EXTENDS StreamPool, StreamBody, SequenceLemmas, FiniteSetTheorems

-----------------------------------------------------------------------------
(* The registry and the pool of streams. *)


(* An object in use is not pooled and belongs to one request, and a request *)
(* is registered, under its object, exactly while its handler runs.         *)
Ownership ==
    \A i \in Ids :
        /\ obj[i] # Nil => obj[i] \notin pool /\ ID[obj[i]] = i
        /\ obj[i] # Nil <=> handler[i] \in {"running", "removed"}
        /\ streams[i] # Nil => handler[i] = "running"
        /\ handler[i] = "running" => streams[i] = obj[i]

IInv == TypeOK /\ Ownership /\ TeardownReachesAll

(* No request has acquired an object yet. *)
LEMMA InitInv == Init => IInv
<1> SUFFICES ASSUME Init PROVE IInv
  BY Zenon
<1>1. TypeOK
  BY Zenon DEF Init, TypeOK
<1>2. Ownership
  BY Zenon DEF Init, Ownership
<1>3. TeardownReachesAll
  BY Zenon DEF Init, TeardownReachesAll
<1> QED
  BY <1>1, <1>2, <1>3, Zenon DEF IInv

(* One object serves at most one request. *)
LEMMA Exclusive == TypeOK /\ Ownership => ObjectsExclusive
BY DEF TypeOK, Ownership, ObjectsExclusive

(* Every action keeps the types of the variables it changes. *)
LEMMA StepType == IInv /\ [Next]_vars => TypeOK'
<1> SUFFICES ASSUME IInv, [Next]_vars PROVE TypeOK'
  BY Zenon
<1> USE IdAssumption DEF IInv, TypeOK
<1>1. ASSUME NEW i \in Ids, DispatchInboundHeaders(i) PROVE TypeOK'
  <2> PICK o \in pool, e \in BOOLEAN :
          /\ pool' = pool \ {o}
          /\ ID' = [ID EXCEPT ![o] = i]
          /\ effects' = [effects EXCEPT ![o] = Acquired(o, i, e)]
          /\ streams' = [streams EXCEPT ![i] = o]
          /\ obj' = [obj EXCEPT ![i] = o]
    BY <1>1, Zenon DEF DispatchInboundHeaders
  <2>1. Acquired(o, i, e) \in SUBSET (Ids \X {"data", "end", "fail", "credit"})
    BY DEF Acquired
  <2> QED
    BY <1>1, <2>1, Zenon DEF DispatchInboundHeaders
<1>2. ASSUME NEW i \in Ids, NEW kind \in {"data", "end", "fail", "credit"},
             GetStream(i, kind)
      PROVE  TypeOK'
  <2>1. {<<streams[i], i, kind>>} \in SUBSET (Objs \X Ids \X {"data", "end", "fail", "credit"})
    BY <1>2 DEF GetStream
  <2> QED
    BY <1>2, <2>1, Zenon DEF GetStream
<1>3. ASSUME NEW i \in Ids, RemoveStream(i) PROVE TypeOK'
  BY <1>3, Zenon DEF RemoveStream
<1>4. ASSUME NEW i \in Ids, Release(i) PROVE TypeOK'
  <2>1. obj[i] \in Objs
    BY <1>4 DEF Release, Ownership
  <2> QED
    BY <1>4, <2>1, Zenon DEF Release
<1>5. ASSUME NEW c \in Conns, ActiveStreamWindows(c) PROVE TypeOK'
  <2>1. {<<streams[i], i, "credit">> : i \in Registered(c)}
            \in SUBSET (Objs \X Ids \X {"data", "end", "fail", "credit"})
    BY DEF Registered
  <2> QED
    BY <1>5, <2>1, Zenon DEF ActiveStreamWindows
<1>6. ASSUME NEW c \in Conns, UseStreams(c) PROVE TypeOK'
  <2>1. ASSUME NEW o \in Objs
        PROVE  effects[o] \cup {<<h[2], h[3]>> : h \in {k \in held[c] : k[1] = o}}
                   \in SUBSET (Ids \X {"data", "end", "fail", "credit"})
    OBVIOUS
  <2> QED
    BY <1>6, <2>1, Zenon DEF UseStreams
<1>7. ASSUME NEW c \in Conns, FailAllStreams(c) PROVE TypeOK'
  <2>1. ASSUME NEW o \in Objs
        PROVE  effects[o] \cup {<<i, "fail">> : i \in {j \in Registered(c) : streams[j] = o}}
                   \in SUBSET (Ids \X {"data", "end", "fail", "credit"})
    BY DEF Registered
  <2> QED
    BY <1>7, <2>1, Zenon DEF FailAllStreams
<1>8. CASE UNCHANGED vars
  BY <1>8, Zenon DEF vars
<1> QED
  BY <1>1, <1>2, <1>3, <1>4, <1>5, <1>6, <1>7, <1>8, Zenon DEF Next

(* Acquire takes an object nobody owns, RemoveStream unregisters before     *)
(* Release gives the object back.                                           *)
LEMMA StepOwnership == IInv /\ [Next]_vars => Ownership'
<1> SUFFICES ASSUME IInv, [Next]_vars PROVE Ownership'
  BY Zenon
<1> USE NilAssumption DEF IInv, TypeOK, Ownership
<1>1. ASSUME NEW i \in Ids, DispatchInboundHeaders(i) PROVE Ownership'
  <2> PICK o \in pool :
          /\ pool' = pool \ {o}
          /\ ID' = [ID EXCEPT ![o] = i]
          /\ streams' = [streams EXCEPT ![i] = o]
          /\ obj' = [obj EXCEPT ![i] = o]
          /\ handler' = [handler EXCEPT ![i] = "running"]
    BY <1>1, Zenon DEF DispatchInboundHeaders
  <2> QED
    OBVIOUS
<1>2. ASSUME NEW i \in Ids, NEW kind, GetStream(i, kind) PROVE Ownership'
  BY <1>2, Zenon DEF GetStream
<1>3. ASSUME NEW i \in Ids, RemoveStream(i) PROVE Ownership'
  BY <1>3 DEF RemoveStream
<1>4. ASSUME NEW i \in Ids, Release(i) PROVE Ownership'
  <2>1. obj[i] \in Objs /\ ID[obj[i]] = i
    BY <1>4 DEF Release
  <2> QED
    BY <1>4, <2>1 DEF Release
<1>5. ASSUME NEW c \in Conns, ActiveStreamWindows(c) PROVE Ownership'
  BY <1>5, Zenon DEF ActiveStreamWindows
<1>6. ASSUME NEW c \in Conns, UseStreams(c) PROVE Ownership'
  BY <1>6, Zenon DEF UseStreams
<1>7. ASSUME NEW c \in Conns, FailAllStreams(c) PROVE Ownership'
  BY <1>7, Zenon DEF FailAllStreams
<1>8. CASE UNCHANGED vars
  BY <1>8, Zenon DEF vars
<1> QED
  BY <1>1, <1>2, <1>3, <1>4, <1>5, <1>6, <1>7, <1>8, Zenon DEF Next

(* After FailAllStreams no further stream is registered, and what it told a *)
(* stream stays: only the object's owner or a new owner resets an object.   *)
LEMMA StepTeardown == IInv /\ [Next]_vars => TeardownReachesAll'
<1> SUFFICES ASSUME IInv, [Next]_vars PROVE TeardownReachesAll'
  BY Zenon
<1> USE NilAssumption, IdAssumption
    DEF IInv, TypeOK, Ownership, TeardownReachesAll, Registered
<1>1. ASSUME NEW i \in Ids, DispatchInboundHeaders(i) PROVE TeardownReachesAll'
  <2> PICK o \in pool, e \in BOOLEAN :
          /\ effects' = [effects EXCEPT ![o] = Acquired(o, i, e)]
          /\ streams' = [streams EXCEPT ![i] = o]
          /\ ~torndown[IdConn[i]] /\ torndown' = torndown
    BY <1>1, Zenon DEF DispatchInboundHeaders, Reading
  <2> SUFFICES ASSUME NEW c \in Conns, torndown[c], NEW j \in Ids,
                      IdConn[j] = c, streams'[j] # Nil
               PROVE  <<j, "fail">> \in effects'[streams'[j]]
    BY Zenon
  <2>1. j # i /\ streams'[j] = streams[j]
    BY Zenon
  <2>2. streams[j] # o /\ streams[j] \in Objs
    BY <2>1
  <2> QED
    BY <2>1, <2>2
<1>2. ASSUME NEW i \in Ids, NEW kind, GetStream(i, kind) PROVE TeardownReachesAll'
  BY <1>2, Zenon DEF GetStream
<1>3. ASSUME NEW i \in Ids, RemoveStream(i) PROVE TeardownReachesAll'
  <2>1. streams' = [streams EXCEPT ![i] = Nil] /\ UNCHANGED <<effects, torndown>>
    BY <1>3, Zenon DEF RemoveStream
  <2> SUFFICES ASSUME NEW c \in Conns, torndown[c], NEW j \in Ids,
                      IdConn[j] = c, streams'[j] # Nil
               PROVE  <<j, "fail">> \in effects[streams'[j]]
    BY <2>1, Zenon
  <2>2. streams'[j] = streams[j]
    BY <2>1, Zenon
  <2> QED
    BY <2>2, Zenon
<1>4. ASSUME NEW i \in Ids, Release(i) PROVE TeardownReachesAll'
  <2> SUFFICES ASSUME NEW c \in Conns, torndown[c], NEW j \in Ids,
                      IdConn[j] = c, streams[j] # Nil
               PROVE  <<j, "fail">> \in effects'[streams[j]]
    BY <1>4, Zenon DEF Release
  <2>1. streams[j] = obj[j] /\ j # i /\ obj[j] # obj[i] /\ obj[j] \in Objs
    BY <1>4 DEF Release
  <2> QED
    BY <1>4, <2>1, Zenon DEF Release
<1>5. ASSUME NEW c \in Conns, ActiveStreamWindows(c) PROVE TeardownReachesAll'
  BY <1>5, Zenon DEF ActiveStreamWindows
<1>6. ASSUME NEW c \in Conns, UseStreams(c) PROVE TeardownReachesAll'
  <2>1. \A o \in Objs : effects[o] \subseteq effects'[o]
    BY <1>6, Zenon DEF UseStreams
  <2>2. UNCHANGED <<streams, torndown>>
    BY <1>6, Zenon DEF UseStreams
  <2> SUFFICES ASSUME NEW d \in Conns, torndown[d], NEW j \in Ids,
                      IdConn[j] = d, streams[j] # Nil
               PROVE  <<j, "fail">> \in effects'[streams[j]]
    BY <2>2, Zenon
  <2>3. streams[j] \in Objs /\ <<j, "fail">> \in effects[streams[j]]
    OBVIOUS
  <2> QED
    BY <2>1, <2>3, Zenon
<1>7. ASSUME NEW c \in Conns, FailAllStreams(c) PROVE TeardownReachesAll'
  <2>1. \A o \in Objs : effects[o] \subseteq effects'[o]
    BY <1>7, Zenon DEF FailAllStreams
  <2>2. \A j \in Registered(c) : <<j, "fail">> \in effects'[streams[j]]
    <3> TAKE j \in Registered(c)
    <3>1. streams[j] \in Objs /\ j \in {k \in Registered(c) : streams[k] = streams[j]}
      OBVIOUS
    <3>2. effects'[streams[j]] = effects[streams[j]] \cup
              {<<i, "fail">> : i \in {k \in Registered(c) : streams[k] = streams[j]}}
      BY <1>7, <3>1, Zenon DEF FailAllStreams
    <3> QED
      BY <3>1, <3>2
  <2>3. streams' = streams /\ torndown' = [torndown EXCEPT ![c] = TRUE]
    BY <1>7, Zenon DEF FailAllStreams
  <2> SUFFICES ASSUME NEW d \in Conns, torndown'[d], NEW j \in Ids,
                      IdConn[j] = d, streams[j] # Nil
               PROVE  <<j, "fail">> \in effects'[streams[j]]
    BY <2>3, Zenon
  <2>4. CASE d = c
    BY <2>2, <2>4, Zenon
  <2>5. CASE d # c
    <3>1. streams[j] \in Objs /\ <<j, "fail">> \in effects[streams[j]]
      BY <2>3, <2>5
    <3> QED
      BY <2>1, <3>1, Zenon
  <2> QED
    BY <2>4, <2>5, Zenon
<1>8. CASE UNCHANGED vars
  BY <1>8, Zenon DEF vars
<1> QED
  BY <1>1, <1>2, <1>3, <1>4, <1>5, <1>6, <1>7, <1>8, Zenon DEF Next

-----------------------------------------------------------------------------
(* The invariant is inductive. *)
THEOREM Inductive == Spec => []IInv
<1>1. IInv /\ [Next]_vars => IInv'
  BY StepType, StepOwnership, StepTeardown, Zenon DEF IInv
<1> QED
  BY InitInv, <1>1, PTL DEF Spec

(* Objects, registries and handlers keep their types, in particular Release *)
(* never pools anything but a Stream object.                                *)
THEOREM TypeCorrect == Spec => []TypeOK
<1>1. IInv => TypeOK
  BY Zenon DEF IInv
<1> QED
  BY <1>1, Inductive, PTL

(* AddStream, RemoveStream and Release are ordered so that a registry entry *)
(* always leads to the object its stream acquired.                          *)
THEOREM Registry == Spec => []RegistryLive
<1>1. IInv => RegistryLive
  BY Zenon DEF IInv, TypeOK, Ownership, RegistryLive
<1> QED
  BY <1>1, Inductive, PTL

(* Acquire never hands out an object a request still works with. *)
THEOREM NoSharing == Spec => []ObjectsExclusive
<1>1. IInv => ObjectsExclusive
  BY Exclusive, Zenon DEF IInv
<1> QED
  BY <1>1, Inductive, PTL

(* FailAllStreams reaches every stream that is still registered. *)
THEOREM TeardownComplete == Spec => []TeardownReachesAll
<1>1. IInv => TeardownReachesAll
  BY Zenon DEF IInv
<1> QED
  BY <1>1, Inductive, PTL

-----------------------------------------------------------------------------
(* What the frame reader of c has looked up still belongs, among the        *)
(* streams of c, to the stream it was looked up for: c recycles an object   *)
(* only in dispatchInboundHeaders, on the same goroutine.                   *)
HeldOwn ==
    \A c \in Conns : \A h \in held[c], j \in Ids :
        IdConn[j] = c /\ obj[j] = h[1] => h[2] = j

EffectsOwn ==
    \A j \in Ids : obj[j] # Nil => \A e \in effects[obj[j]] : e[1] = j

SingleConn == \A c, d \in Conns : c = d

OwnInv == IInv /\ HeldOwn /\ EffectsOwn

(* A lookup finds the stream's own object, and an object gets a new owner   *)
(* on the connection only while nothing is held.                            *)
LEMMA StepHeld == OwnInv /\ [Next]_vars => HeldOwn'
<1> SUFFICES ASSUME OwnInv, [Next]_vars PROVE HeldOwn'
  BY Zenon
<1> USE NilAssumption, IdAssumption DEF OwnInv, IInv, TypeOK, Ownership, HeldOwn
<1>1. ASSUME NEW i \in Ids, DispatchInboundHeaders(i) PROVE HeldOwn'
  <2> PICK o \in pool : obj' = [obj EXCEPT ![i] = o]
    BY <1>1, Zenon DEF DispatchInboundHeaders
  <2>1. held[IdConn[i]] = {} /\ held' = held
    BY <1>1, Zenon DEF DispatchInboundHeaders, Reading
  <2> QED
    BY <2>1
<1>2. ASSUME NEW i \in Ids, NEW kind \in {"data", "end", "fail", "credit"},
             GetStream(i, kind)
      PROVE  HeldOwn'
  <2>1. held' = [held EXCEPT ![IdConn[i]] = {<<streams[i], i, kind>>}] /\ obj' = obj
    BY <1>2, Zenon DEF GetStream
  <2>2. \A j \in Ids : obj[j] = streams[i] => j = i
    BY <1>2 DEF GetStream
  <2> SUFFICES ASSUME NEW c \in Conns, NEW h \in held'[c], NEW j \in Ids,
                      IdConn[j] = c, obj[j] = h[1]
               PROVE  h[2] = j
    BY <2>1
  <2>3. CASE c = IdConn[i]
    <3>1. h = <<streams[i], i, kind>>
      BY <2>1, <2>3, Zenon
    <3> QED
      BY <2>2, <3>1, Zenon
  <2>4. CASE c # IdConn[i]
    BY <2>1, <2>4
  <2> QED
    BY <2>3, <2>4, Zenon
<1>3. ASSUME NEW i \in Ids, RemoveStream(i) PROVE HeldOwn'
  BY <1>3 DEF RemoveStream
<1>4. ASSUME NEW i \in Ids, Release(i) PROVE HeldOwn'
  <2>1. obj' = [obj EXCEPT ![i] = Nil] /\ held' = held
    BY <1>4, Zenon DEF Release
  <2>2. \A c \in Conns : \A h \in held[c] : h[1] # Nil
    OBVIOUS
  <2> QED
    BY <2>1, <2>2
<1>5. ASSUME NEW c \in Conns, ActiveStreamWindows(c) PROVE HeldOwn'
  <2>1. /\ held' = [held EXCEPT ![c] = {<<streams[i], i, "credit">> : i \in Registered(c)}]
        /\ obj' = obj
    BY <1>5, Zenon DEF ActiveStreamWindows
  <2>2. \A i \in Registered(c), j \in Ids : obj[j] = streams[i] => j = i
    BY DEF Registered
  <2> SUFFICES ASSUME NEW d \in Conns, NEW h \in held'[d], NEW j \in Ids,
                      IdConn[j] = d, obj[j] = h[1]
               PROVE  h[2] = j
    BY <2>1
  <2>3. CASE d = c
    <3>1. PICK i \in Registered(c) : h = <<streams[i], i, "credit">>
      BY <2>1, <2>3
    <3> QED
      BY <2>2, <3>1, Zenon
  <2>4. CASE d # c
    BY <2>1, <2>4
  <2> QED
    BY <2>3, <2>4, Zenon
<1>6. ASSUME NEW c \in Conns, UseStreams(c) PROVE HeldOwn'
  BY <1>6 DEF UseStreams
<1>7. ASSUME NEW c \in Conns, FailAllStreams(c) PROVE HeldOwn'
  BY <1>7 DEF FailAllStreams
<1>8. CASE UNCHANGED vars
  BY <1>8 DEF vars
<1> QED
  BY <1>1, <1>2, <1>3, <1>4, <1>5, <1>6, <1>7, <1>8 DEF Next

(* With one connection the objects the frame reader uses are those of the   *)
(* streams it looked up; FailAllStreams works under the registry's lock.    *)
LEMMA StepEffects == SingleConn /\ OwnInv /\ [Next]_vars => EffectsOwn'
<1> SUFFICES ASSUME SingleConn, OwnInv, [Next]_vars PROVE EffectsOwn'
  BY Zenon
<1> USE NilAssumption, IdAssumption DEF OwnInv, IInv, TypeOK, Ownership, EffectsOwn
<1>1. ASSUME NEW i \in Ids, DispatchInboundHeaders(i) PROVE EffectsOwn'
  <2> PICK o \in pool, b \in BOOLEAN :
          /\ effects' = [effects EXCEPT ![o] = Acquired(o, i, b)]
          /\ obj' = [obj EXCEPT ![i] = o]
    BY <1>1, Zenon DEF DispatchInboundHeaders
  <2>1. \A e \in Acquired(o, i, b) : e[1] = i
    BY DEF Acquired
  <2>2. \A j \in Ids : obj[j] # o
    OBVIOUS
  <2> QED
    BY <2>1, <2>2
<1>2. ASSUME NEW i \in Ids, NEW kind, GetStream(i, kind) PROVE EffectsOwn'
  BY <1>2, Zenon DEF GetStream
<1>3. ASSUME NEW i \in Ids, RemoveStream(i) PROVE EffectsOwn'
  BY <1>3, Zenon DEF RemoveStream
<1>4. ASSUME NEW i \in Ids, Release(i) PROVE EffectsOwn'
  <2>1. /\ effects' = [effects EXCEPT ![obj[i]] = {}]
        /\ obj' = [obj EXCEPT ![i] = Nil]
    BY <1>4, Zenon DEF Release
  <2> QED
    BY <2>1
<1>5. ASSUME NEW c \in Conns, ActiveStreamWindows(c) PROVE EffectsOwn'
  BY <1>5, Zenon DEF ActiveStreamWindows
<1>6. ASSUME NEW c \in Conns, UseStreams(c) PROVE EffectsOwn'
  <2> SUFFICES ASSUME NEW j \in Ids, obj[j] # Nil, NEW e \in effects'[obj[j]]
               PROVE  e[1] = j
    BY <1>6, Zenon DEF UseStreams
  <2>1. obj[j] \in Objs /\ IdConn[j] = c
    BY DEF SingleConn
  <2>2. CASE e \in effects[obj[j]]
    BY <2>2, Zenon
  <2>3. CASE e \notin effects[obj[j]]
    <3>1. PICK h \in held[c] : h[1] = obj[j] /\ e = <<h[2], h[3]>>
      BY <1>6, <2>1, <2>3 DEF UseStreams
    <3>2. h[2] = j
      BY <2>1, <3>1 DEF HeldOwn
    <3> QED
      BY <3>1, <3>2, Zenon
  <2> QED
    BY <2>2, <2>3, Zenon
<1>7. ASSUME NEW c \in Conns, FailAllStreams(c) PROVE EffectsOwn'
  <2> SUFFICES ASSUME NEW j \in Ids, obj[j] # Nil, NEW e \in effects'[obj[j]]
               PROVE  e[1] = j
    BY <1>7, Zenon DEF FailAllStreams
  <2>1. obj[j] \in Objs
    OBVIOUS
  <2>2. CASE e \in effects[obj[j]]
    BY <2>2, Zenon
  <2>3. CASE e \notin effects[obj[j]]
    <3>1. PICK i \in Registered(c) : streams[i] = obj[j] /\ e = <<i, "fail">>
      BY <1>7, <2>1, <2>3 DEF FailAllStreams
    <3>2. i = j
      BY <3>1 DEF Registered
    <3> QED
      BY <3>1, <3>2, Zenon
  <2> QED
    BY <2>2, <2>3, Zenon
<1>8. CASE UNCHANGED vars
  BY <1>8, Zenon DEF vars
<1> QED
  BY <1>1, <1>2, <1>3, <1>4, <1>5, <1>6, <1>7, <1>8, Zenon DEF Next

(* On a process with a single tunnel, GetStream and activeStreamWindows may *)
(* be used outside streamsMu: frames reach only the request of their stream.*)
THEOREM OwnFrames ==
    ASSUME SingleConn
    PROVE  Spec => []OnlyOwnFrames
<1>1. Init => OwnInv
  <2>1. Init => HeldOwn /\ EffectsOwn
    BY Zenon DEF Init, HeldOwn, EffectsOwn
  <2> QED
    BY <2>1, InitInv, Zenon DEF OwnInv
<1>2. OwnInv /\ [Next]_vars => OwnInv'
  BY SingleConn, StepType, StepOwnership, StepTeardown, StepHeld, StepEffects, Zenon
     DEF OwnInv, IInv
<1>3. OwnInv => OnlyOwnFrames
  BY NilAssumption, Zenon DEF OwnInv, IInv, Ownership, EffectsOwn, OnlyOwnFrames
<1> QED
  BY <1>1, <1>2, <1>3, PTL DEF Spec


-----------------------------------------------------------------------------
(* Concatenation. *)
LEMMA ConcatType ==
  ASSUME NEW V, NEW a \in Seq(V), NEW b \in Seq(V)
  PROVE  /\ a \o b \in Seq(V) /\ Len(a \o b) = Len(a) + Len(b)
         /\ \A i \in 1..Len(a) : (a \o b)[i] = a[i]
         /\ \A i \in 1..Len(b) : (a \o b)[Len(a) + i] = b[i]
OBVIOUS

(* Nothing added changes nothing. *)
LEMMA ConcatEmpty ==
  ASSUME NEW V, NEW a \in Seq(V)
  PROVE  a \o <<>> = a /\ <<>> \o a = a
OBVIOUS

(* Taking the first k elements of a concatenation whose first part has as   *)
(* many, and what is left.                                                  *)
LEMMA ConcatPrefix ==
  ASSUME NEW V, NEW a \in Seq(V), NEW b \in Seq(V), NEW k \in 0..Len(a)
  PROVE  /\ SubSeq(a \o b, 1, k) = SubSeq(a, 1, k)
         /\ SubSeq(a \o b, k + 1, Len(a \o b)) = SubSeq(a, k + 1, Len(a)) \o b
<1> DEFINE c == a \o b
           p == SubSeq(c, 1, k)
           q == SubSeq(a, 1, k)
           t == SubSeq(c, k + 1, Len(c))
           u == SubSeq(a, k + 1, Len(a))
           w == u \o b
<1>1. /\ c \in Seq(V) /\ Len(c) = Len(a) + Len(b)
      /\ \A i \in 1..Len(a) : c[i] = a[i]
      /\ \A i \in 1..Len(b) : c[Len(a) + i] = b[i]
  BY ConcatType
<1>2. Len(a) \in Nat /\ Len(b) \in Nat /\ k \in Nat /\ k <= Len(a)
  OBVIOUS
<1>3. /\ u \in Seq(V) /\ Len(u) = Len(a) - k
      /\ \A i \in 1..(Len(a) - k) : u[i] = a[k + i]
  BY <1>2
<1>4. q \in Seq(V) /\ Len(q) = k /\ \A i \in 1..k : q[i] = a[i]
  BY <1>2
<1> HIDE DEF c, u, q
<1>5. p \in Seq(V) /\ Len(p) = k /\ \A i \in 1..k : p[i] = c[i]
  BY <1>1, <1>2
<1>6. /\ t \in Seq(V) /\ Len(t) = Len(c) - k
      /\ \A i \in 1..(Len(c) - k) : t[i] = c[k + i]
  BY <1>1, <1>2
<1>7. /\ w \in Seq(V) /\ Len(w) = Len(u) + Len(b)
      /\ \A i \in 1..Len(u) : w[i] = u[i]
      /\ \A i \in 1..Len(b) : w[Len(u) + i] = b[i]
  <2>1. u \in Seq(V)
    BY <1>3, Zenon
  <2> QED BY ONLY <2>1, b \in Seq(V)
<1> HIDE DEF p, t, w
<1>8. p = q
  <2>1. ASSUME NEW i \in 1..k PROVE p[i] = q[i]
    <3>1. i \in 1..Len(a)
      BY <1>2
    <3> QED BY <3>1, <1>1, <1>4, <1>5, Zenon
  <2> QED BY <2>1, <1>4, <1>5, SameSequence, Zenon
<1>9. t = w
  <2>0. Len(t) = Len(w)
    BY <1>1, <1>2, <1>3, <1>6, <1>7
  <2>1. ASSUME NEW i \in 1..Len(t) PROVE t[i] = w[i]
    <3>1. t[i] = c[k + i]
      BY <1>6, Zenon
    <3>2. CASE i \in 1..Len(u)
      <4>1. k + i \in 1..Len(a) /\ i \in 1..(Len(a) - k)
        BY <3>2, <1>2, <1>3
      <4> QED BY <3>1, <3>2, <4>1, <1>1, <1>3, <1>7, Zenon
    <3>3. CASE i \notin 1..Len(u)
      <4> DEFINE j == i - Len(u)
      <4>1. j \in 1..Len(b) /\ Len(u) + j = i /\ Len(a) + j = k + i
        BY <3>3, <1>1, <1>2, <1>3, <1>6
      <4> HIDE DEF j
      <4>2. t[i] = b[j] /\ w[Len(u) + j] = b[j]
        BY <3>1, <4>1, <1>1, <1>7, Zenon
      <4> QED BY <4>1, <4>2, Zenon
    <3> QED BY <3>2, <3>3, Zenon
  <2> QED BY <2>0, <2>1, <1>6, <1>7, SameSequence, Zenon
<1> QED BY <1>8, <1>9, Zenon DEF c, p, q, t, u, w

-----------------------------------------------------------------------------
(* What defines the running concatenations of a sequence of sequences. *)
IsPrefixes(s, f) == f = [i \in 0..Len(s) |-> IF i = 0 THEN <<>> ELSE f[i - 1] \o s[i]]

(* The recursion of Prefixes is well-founded. *)
LEMMA PrefixesDef ==
  ASSUME NEW V, NEW s \in Seq(Seq(V))
  PROVE  IsPrefixes(s, Prefixes(s))
<1> DEFINE Upto(n, f) == f = [i \in 0..n |-> IF i = 0 THEN <<>> ELSE f[i - 1] \o s[i]]
           G == {n \in 0..Len(s) : \E f : Upto(n, f)}
<1>1. 0 \in G
  <2> DEFINE f0 == [i \in 0..0 |-> <<>>]
  <2>1. Upto(0, f0)
    OBVIOUS
  <2>2. 0 \in 0..Len(s)
    OBVIOUS
  <2> HIDE DEF Upto
  <2> QED BY <2>1, <2>2, Zenon
<1>2. ASSUME NEW n \in 0..(Len(s) - 1), n \in G PROVE n + 1 \in G
  <2>1. PICK f : Upto(n, f)
    BY <1>2, Zenon
  <2> DEFINE x == f[n] \o s[n + 1]
             g == [i \in 0..(n + 1) |-> IF i = n + 1 THEN x ELSE f[i]]
             h == [i \in 0..(n + 1) |-> IF i = 0 THEN <<>> ELSE g[i - 1] \o s[i]]
  <2>2. \A i \in 0..(n + 1) : g[i] = IF i = n + 1 THEN x ELSE f[i]
    BY Zenon
  <2>3. \A i \in 0..(n + 1) : h[i] = IF i = 0 THEN <<>> ELSE g[i - 1] \o s[i]
    BY Zenon
  <2>4. \A i \in 0..n : f[i] = IF i = 0 THEN <<>> ELSE f[i - 1] \o s[i]
    <3> DEFINE k == [i \in 0..n |-> IF i = 0 THEN <<>> ELSE f[i - 1] \o s[i]]
    <3>1. f = k
      BY <2>1, Zenon
    <3>2. \A i \in 0..n : k[i] = IF i = 0 THEN <<>> ELSE f[i - 1] \o s[i]
      BY Zenon
    <3> HIDE DEF k
    <3> QED BY <3>1, <3>2, Zenon
  <2>5. n \in Nat /\ n + 1 \in 0..Len(s)
    OBVIOUS
  <2>6. x = f[n] \o s[n + 1]
    BY Zenon
  <2> HIDE DEF x
  <2>7. g = [i \in 0..(n + 1) |-> g[i]]
    BY Zenon
  <2> HIDE DEF g
  <2>8. h = [i \in 0..(n + 1) |-> h[i]]
    BY Zenon
  <2> HIDE DEF h, Upto, G
  <2>9. ASSUME NEW i \in 0..(n + 1) PROVE g[i] = h[i]
    <3>1. CASE i = n + 1
      <4>1. i # 0 /\ i - 1 = n /\ n \in 0..(n + 1) /\ n # n + 1
        BY <2>5, <3>1
      <4> QED BY <3>1, <4>1, <2>2, <2>3, <2>6, Zenon
    <3>2. CASE i # n + 1
      <4>1. i \in 0..n /\ (i # 0 => i - 1 \in 0..(n + 1) /\ i - 1 # n + 1)
        BY <2>5, <3>2
      <4> QED BY <3>2, <4>1, <2>2, <2>3, <2>4, Zenon
    <3> QED BY <3>1, <3>2, Zenon
  <2>10. g = h
    BY <2>7, <2>8, <2>9, Zenon
  <2>11. Upto(n + 1, g)
    BY <2>10, Zenon DEF Upto, h
  <2> QED BY <2>5, <2>11, Zenon DEF G
<1>3. Len(s) \in G
  <2>1. Len(s) \in Nat /\ Len(s) \in 0..Len(s)
    OBVIOUS
  <2> HIDE DEF G
  <2>2. 0..Len(s) \subseteq G
    BY <1>1, <1>2, <2>1, SetInduction, Zenon
  <2> QED BY <2>1, <2>2, Zenon
<1>4. \E f : IsPrefixes(s, f)
  BY <1>3, Zenon DEF IsPrefixes
<1>5. Prefixes(s) = CHOOSE f : IsPrefixes(s, f)
  BY Zenon DEF Prefixes, IsPrefixes
<1> QED BY <1>4, <1>5, Zenon

(* The running concatenations as facts about single entries. *)
LEMMA PrefixesEntries ==
  ASSUME NEW V, NEW s \in Seq(Seq(V))
  PROVE  /\ Prefixes(s)[0] = <<>>
         /\ \A i \in 1..Len(s) : Prefixes(s)[i] = Prefixes(s)[i - 1] \o s[i]
<1> DEFINE f == Prefixes(s)
           h == [i \in 0..Len(s) |-> IF i = 0 THEN <<>> ELSE f[i - 1] \o s[i]]
<1>1. IsPrefixes(s, f)
  BY PrefixesDef, Zenon
<1> HIDE DEF f
<1>2. f = h
  BY <1>1, Zenon DEF IsPrefixes
<1>3. \A i \in 0..Len(s) : h[i] = IF i = 0 THEN <<>> ELSE f[i - 1] \o s[i]
  BY Zenon
<1>4. 0 \in 0..Len(s) /\ \A i \in 1..Len(s) : i \in 0..Len(s) /\ i # 0
  OBVIOUS
<1> HIDE DEF h
<1> QED BY <1>2, <1>3, <1>4, Zenon DEF f

(* They are sequences. *)
LEMMA PrefixesType ==
  ASSUME NEW V, NEW s \in Seq(Seq(V))
  PROVE  \A i \in 0..Len(s) : Prefixes(s)[i] \in Seq(V)
<1> DEFINE f == Prefixes(s)
           G == {n \in 0..Len(s) : f[n] \in Seq(V)}
<1>1. f[0] = <<>> /\ \A i \in 1..Len(s) : f[i] = f[i - 1] \o s[i]
  BY PrefixesEntries, Zenon
<1> HIDE DEF f
<1>2. 0 \in G
  <2>1. <<>> \in Seq(V) /\ 0 \in 0..Len(s)
    OBVIOUS
  <2> QED BY <1>1, <2>1, Zenon
<1>3. ASSUME NEW n \in 0..(Len(s) - 1), n \in G PROVE n + 1 \in G
  <2>1. n + 1 \in 1..Len(s) /\ n + 1 \in 0..Len(s) /\ s[n + 1] \in Seq(V) /\ (n + 1) - 1 = n
    OBVIOUS
  <2>2. f[n + 1] = f[n] \o s[n + 1] /\ f[n] \in Seq(V)
    BY <1>1, <1>3, <2>1, Zenon
  <2>3. f[n] \o s[n + 1] \in Seq(V)
    BY <2>1, <2>2, ConcatType, Zenon
  <2> QED BY <2>1, <2>2, <2>3, Zenon
<1>4. Len(s) \in Nat
  OBVIOUS
<1>5. 0..Len(s) \subseteq G
  <2> HIDE DEF G
  <2> QED BY <1>2, <1>3, <1>4, SetInduction, Zenon
<1> QED BY <1>5, Zenon DEF f

(* The bytes of a sequence of chunks are a sequence of bytes. *)
LEMMA JoinedType ==
  ASSUME NEW V, NEW s \in Seq(Seq(V))
  PROVE  Joined(s) \in Seq(V)
<1>1. Len(s) \in 0..Len(s)
  OBVIOUS
<1> QED BY <1>1, PrefixesType, Zenon DEF Joined

(* No chunks, no bytes. *)
LEMMA JoinedEmpty == Joined(<<>>) = <<>>
<1>1. <<>> \in Seq(Seq(Nat)) /\ Len(<<>>) = 0
  OBVIOUS
<1> QED BY <1>1, PrefixesEntries, Zenon DEF Joined

(* A chunk queued behind the others adds its bytes at the end. *)
LEMMA JoinedAppend ==
  ASSUME NEW V, NEW s \in Seq(Seq(V)), NEW x \in Seq(V)
  PROVE  Joined(Append(s, x)) = Joined(s) \o x
<1> DEFINE t == Append(s, x)
           f == Prefixes(s)
           g == Prefixes(t)
           G == {n \in 0..Len(s) : f[n] = g[n]}
<1>1. /\ t \in Seq(Seq(V)) /\ Len(t) = Len(s) + 1
      /\ \A i \in 1..Len(s) : t[i] = s[i]
      /\ t[Len(s) + 1] = x
  OBVIOUS
<1> HIDE DEF t
<1>2. f[0] = <<>> /\ \A i \in 1..Len(s) : f[i] = f[i - 1] \o s[i]
  BY PrefixesEntries, Zenon
<1>3. g[0] = <<>> /\ \A i \in 1..Len(t) : g[i] = g[i - 1] \o t[i]
  BY <1>1, PrefixesEntries, Zenon
<1>4. f[Len(s)] = Joined(s) /\ g[Len(t)] = Joined(t)
  BY Zenon DEF Joined
<1> HIDE DEF f, g
<1>5. /\ 0 \in 0..Len(s) /\ Len(s) \in 0..Len(s) /\ Len(s) \in Nat
      /\ Len(t) \in 1..Len(t) /\ Len(t) - 1 = Len(s)
  BY <1>1
<1>6. 0 \in G
  BY <1>2, <1>3, <1>5, Zenon
<1>7. ASSUME NEW n \in 0..(Len(s) - 1), n \in G PROVE n + 1 \in G
  <2>1. /\ n + 1 \in 1..Len(s) /\ n + 1 \in 1..Len(t) /\ n + 1 \in 0..Len(s)
        /\ (n + 1) - 1 = n
    BY <1>1
  <2>2. f[n + 1] = g[n + 1]
    BY <1>1, <1>2, <1>3, <1>7, <2>1, Zenon
  <2> QED BY <2>1, <2>2, Zenon
<1>8. Len(s) \in G
  <2> HIDE DEF G
  <2>1. 0..Len(s) \subseteq G
    BY <1>5, <1>6, <1>7, SetInduction, Zenon
  <2> QED BY <1>5, <2>1, Zenon
<1>9. Joined(t) = Joined(s) \o x
  <2>1. g[Len(t)] = g[Len(s)] \o t[Len(t)]
    BY <1>3, <1>5, Zenon
  <2> QED BY <2>1, <1>1, <1>4, <1>8, Zenon
<1> QED BY <1>9, Zenon DEF t

(* The first chunk has the first bytes. *)
LEMMA JoinedTail ==
  ASSUME NEW V, NEW s \in Seq(Seq(V)), s # <<>>
  PROVE  Joined(s) = s[1] \o Joined(Tail(s))
<1> DEFINE t == Tail(s)
           f == Prefixes(s)
           g == Prefixes(t)
           G == {n \in 0..Len(t) : f[n + 1] = s[1] \o g[n]}
<1>1. /\ t \in Seq(Seq(V)) /\ Len(s) = Len(t) + 1 /\ Len(t) \in Nat /\ s[1] \in Seq(V)
      /\ \A i \in 1..Len(t) : t[i] = s[i + 1] /\ t[i] \in Seq(V)
  OBVIOUS
<1> HIDE DEF t
<1>2. f[0] = <<>> /\ \A i \in 1..Len(s) : f[i] = f[i - 1] \o s[i]
  BY PrefixesEntries, Zenon
<1>3. g[0] = <<>> /\ \A i \in 1..Len(t) : g[i] = g[i - 1] \o t[i]
  BY <1>1, PrefixesEntries, Zenon
<1>4. \A i \in 0..Len(t) : g[i] \in Seq(V)
  BY <1>1, PrefixesType, Zenon
<1>5. f[Len(s)] = Joined(s) /\ g[Len(t)] = Joined(t)
  BY Zenon DEF Joined
<1> HIDE DEF f, g
<1>6. 0 \in G
  <2>1. 0 + 1 = 1 /\ 1 - 1 = 0 /\ 1 \in 1..Len(s) /\ 0 \in 0..Len(t)
    BY <1>1
  <2>2. <<>> \o s[1] = s[1] /\ s[1] \o <<>> = s[1]
    BY <1>1, ConcatEmpty, Zenon
  <2>3. f[1] = f[1 - 1] \o s[1]
    BY <1>2, <2>1, Zenon
  <2>4. f[0 + 1] = s[1] \o g[0]
    BY <1>2, <1>3, <2>1, <2>2, <2>3, Zenon
  <2> QED BY <2>1, <2>4, Zenon
<1>7. ASSUME NEW n \in 0..(Len(t) - 1), n \in G PROVE n + 1 \in G
  <2> DEFINE m == n + 1
  <2>1. /\ m \in 1..Len(t) /\ m \in 0..Len(t) /\ n \in 0..Len(t)
        /\ m + 1 \in 1..Len(s) /\ (m + 1) - 1 = m /\ m - 1 = n
    BY <1>1
  <2>2. f[m] = s[1] \o g[n]
    BY <1>7, Zenon
  <2> HIDE DEF m, G
  <2>3. f[m + 1] = f[m] \o s[m + 1] /\ g[m] = g[n] \o t[m] /\ t[m] = s[m + 1]
    BY <1>1, <1>2, <1>3, <2>1, Zenon
  <2>4. g[n] \in Seq(V) /\ t[m] \in Seq(V)
    BY <1>1, <1>4, <2>1, Zenon
  <2>5. (s[1] \o g[n]) \o t[m] = s[1] \o (g[n] \o t[m])
    <3> DEFINE a == s[1]
               b == g[n]
               c == t[m]
    <3>1. a \in Seq(V) /\ b \in Seq(V) /\ c \in Seq(V)
      BY <1>1, <2>4, Zenon
    <3> HIDE DEF a, b, c
    <3>2. (a \o b) \o c = a \o (b \o c)
      BY ONLY <3>1
    <3> QED BY <3>2, Zenon DEF a, b, c
  <2>6. f[m + 1] = s[1] \o g[m]
    BY <2>2, <2>3, <2>5, Zenon
  <2> QED BY <2>1, <2>6, Zenon DEF G, m
<1>8. Len(t) \in G
  <2>1. Len(t) \in 0..Len(t)
    BY <1>1
  <2> HIDE DEF G
  <2>2. 0..Len(t) \subseteq G
    BY <1>1, <1>6, <1>7, SetInduction, Zenon
  <2> QED BY <2>1, <2>2, Zenon
<1>9. Joined(s) = s[1] \o Joined(t)
  BY <1>1, <1>5, <1>8, Zenon
<1> QED BY <1>9, Zenon DEF t

-----------------------------------------------------------------------------
(* What is left of a sequence q behind its first h elements: as it is, when *)
(* an element is appended, and when one more is taken, with or without      *)
(* compaction.                                                              *)
Rest(q, h) == SubSeq(q, h + 1, Len(q))

(* The chunks of the queue behind its head. *)
LEMMA RestShape ==
  ASSUME NEW S, NEW q \in Seq(S), NEW h \in 0..Len(q)
  PROVE  /\ Rest(q, h) \in Seq(S) /\ Len(Rest(q, h)) = Len(q) - h
         /\ \A i \in 1..(Len(q) - h) : Rest(q, h)[i] = q[h + i]
BY DEF Rest

(* Push adds a chunk behind the unread ones. *)
LEMMA RestAppend ==
  ASSUME NEW S, NEW q \in Seq(S), NEW h \in 0..Len(q), NEW x \in S
  PROVE  /\ h \in 0..Len(Append(q, x))
         /\ Rest(Append(q, x), h) = Append(Rest(q, h), x)
<1> DEFINE t == Append(q, x)
           u == Rest(t, h)
           r == Rest(q, h)
           v == Append(r, x)
<1>1. /\ t \in Seq(S) /\ Len(t) = Len(q) + 1 /\ h \in 0..Len(t) /\ Len(q) \in Nat
      /\ \A i \in 1..Len(q) : t[i] = q[i]
      /\ t[Len(q) + 1] = x
  OBVIOUS
<1> HIDE DEF t
<1>2. /\ u \in Seq(S) /\ Len(u) = Len(t) - h
      /\ \A i \in 1..(Len(t) - h) : u[i] = t[h + i]
  BY <1>1, RestShape, Zenon
<1>3. /\ r \in Seq(S) /\ Len(r) = Len(q) - h
      /\ \A i \in 1..(Len(q) - h) : r[i] = q[h + i]
  BY RestShape, Zenon
<1> HIDE DEF u, r
<1>4. /\ v \in Seq(S) /\ Len(v) = Len(r) + 1
      /\ \A i \in 1..Len(r) : v[i] = r[i]
      /\ v[Len(r) + 1] = x
  BY <1>3
<1> HIDE DEF v
<1>5. ASSUME NEW i \in 1..Len(u) PROVE u[i] = v[i]
  <2>1. i \in 1..(Len(t) - h) /\ u[i] = t[h + i]
    BY <1>2, Zenon
  <2>2. CASE i = Len(r) + 1
    <3>1. h + i = Len(q) + 1
      BY <1>1, <1>3, <2>2
    <3> QED BY <1>1, <1>4, <2>1, <2>2, <3>1, Zenon
  <2>3. CASE i # Len(r) + 1
    <3>1. i \in 1..Len(r) /\ i \in 1..(Len(q) - h) /\ h + i \in 1..Len(q)
      BY <1>1, <1>3, <2>1, <2>3
    <3> QED BY <1>1, <1>3, <1>4, <2>1, <3>1, Zenon
  <2> QED BY <2>2, <2>3, Zenon
<1>6. Len(u) = Len(v)
  BY <1>1, <1>2, <1>3, <1>4
<1>7. u = v
  BY <1>2, <1>4, <1>5, <1>6, SameSequence, Zenon
<1> QED BY <1>1, <1>7, Zenon DEF t, u, r, v

(* Read takes the first unread chunk, with or without compacting the queue. *)
LEMMA RestTake ==
  ASSUME NEW S, NEW q \in Seq(S), NEW h \in 0..Len(q), h < Len(q),
         NEW p \in Seq(S), Len(p) = Len(q), \A i \in (h + 2)..Len(q) : p[i] = q[i]
  PROVE  /\ Rest(q, h) # <<>> /\ Rest(q, h)[1] = q[h + 1]
         /\ Rest(p, h + 1) = Tail(Rest(q, h))
         /\ Rest(Rest(p, h + 1), 0) = Tail(Rest(q, h))
<1> DEFINE r == Rest(q, h)
           t == Tail(r)
           u == Rest(p, h + 1)
           v == Rest(u, 0)
<1>1. h + 1 \in 0..Len(p) /\ Len(q) \in Nat /\ h \in Nat
  OBVIOUS
<1>2. /\ r \in Seq(S) /\ Len(r) = Len(q) - h
      /\ \A i \in 1..(Len(q) - h) : r[i] = q[h + i]
  BY RestShape, Zenon
<1>3. /\ u \in Seq(S) /\ Len(u) = Len(p) - (h + 1)
      /\ \A i \in 1..(Len(p) - (h + 1)) : u[i] = p[(h + 1) + i]
  BY <1>1, RestShape, Zenon
<1> HIDE DEF r, u
<1>4. r # <<>> /\ r[1] = q[h + 1]
  BY <1>1, <1>2
<1>5. /\ t \in Seq(S) /\ Len(t) = Len(r) - 1
      /\ \A i \in 1..(Len(r) - 1) : t[i] = r[i + 1]
  BY <1>2, <1>4
<1>6. /\ v \in Seq(S) /\ Len(v) = Len(u)
      /\ \A i \in 1..Len(u) : v[i] = u[i]
  BY <1>3 DEF Rest
<1> HIDE DEF t, v
<1>7. ASSUME NEW i \in 1..Len(u) PROVE u[i] = t[i]
  <2>1. /\ i \in 1..(Len(p) - (h + 1)) /\ i \in 1..(Len(r) - 1)
        /\ (h + 1) + i \in (h + 2)..Len(q) /\ i + 1 \in 1..(Len(q) - h)
        /\ (h + 1) + i = h + (i + 1)
    BY <1>1, <1>2, <1>3
  <2> QED BY <1>2, <1>3, <1>5, <2>1, Zenon
<1>8. Len(u) = Len(t)
  BY <1>1, <1>2, <1>3, <1>5
<1>9. u = t
  BY <1>3, <1>5, <1>7, <1>8, SameSequence, Zenon
<1>10. v = u
  BY <1>3, <1>6, SameSequence, Zenon
<1> QED BY <1>4, <1>9, <1>10, Zenon DEF r, t, u, v


-----------------------------------------------------------------------------
(* Buffers.  w is what is queued, p the handle the body reader has, f how   *)
(* often each buffer is in the pool and l the buffers pushed too late.      *)

Slots == [bp : Bufs \cup {NoBuf}, data : Seq(Nat)]

Has(w, p, b) == p = b \/ \E i \in 1..Len(w) : w[i].bp = b

(* Every queued slot has bytes in a buffer, no two slots share one, the     *)
(* body reader's is another, and the pool has all the others, once, but for *)
(* those pushed too late.                                                   *)
Held(w, p, f, l) ==
    /\ \A i \in 1..Len(w) : w[i].bp \in Bufs /\ w[i].data # <<>> /\ w[i].bp # p
    /\ \A i, j \in 1..Len(w) : w[i].bp = w[j].bp => i = j
    /\ \A b \in Bufs : Has(w, p, b) => f[b] = 0
    /\ \A b \in Bufs : ~Has(w, p, b) => f[b] = 1 \/ (f[b] = 0 /\ b \in l)

(* PushData takes a buffer from the pool and queues it. *)
LEMMA HeldPush ==
  ASSUME NEW w \in Seq(Slots), NEW p \in Bufs \cup {NoBuf}, NEW f \in [Bufs -> Nat],
         NEW l, Held(w, p, f, l), NEW b \in Bufs, f[b] > 0, NEW d \in Seq(Nat), d # <<>>
  PROVE  Held(Append(w, Chunk(b, d)), p, [f EXCEPT ![b] = @ - 1], l)
<1> DEFINE c == Chunk(b, d)
           t == Append(w, c)
           g == [f EXCEPT ![b] = @ - 1]
<1>1. c \in Slots /\ c.bp = b /\ c.data = d
  BY Zenon DEF Chunk, Slots
<1> HIDE DEF c
<1>2. /\ Len(t) = Len(w) + 1 /\ Len(w) \in Nat
      /\ \A i \in 1..Len(w) : t[i] = w[i]
      /\ t[Len(w) + 1] = c
  BY <1>1
<1>3. ~Has(w, p, b) /\ f[b] = 1
  BY DEF Held
<1>4. g[b] = 0 /\ \A a \in Bufs : a # b => g[a] = f[a]
  BY <1>3
<1> HIDE DEF t, g
<1>5. \A i \in 1..Len(t) : i \in 1..Len(w) \/ i = Len(w) + 1
  BY <1>2
<1>6. 1..Len(w) \subseteq 1..Len(t) /\ Len(w) + 1 \in 1..Len(t)
  BY <1>2
<1>7. \A a : Has(t, p, a) <=> a = b \/ Has(w, p, a)
  BY <1>1, <1>2, <1>5, <1>6, Zenon DEF Has
<1>8. \A i \in 1..Len(t) : t[i].bp \in Bufs /\ t[i].data # <<>> /\ t[i].bp # p
  BY <1>1, <1>2, <1>3, <1>5, Zenon DEF Held, Has
<1>9. ASSUME NEW i \in 1..Len(t), NEW j \in 1..Len(t), t[i].bp = t[j].bp PROVE i = j
  <2>1. \A k \in 1..Len(w) : t[k].bp # b
    BY <1>2, <1>3, Zenon DEF Has
  <2>2. CASE i \in 1..Len(w) /\ j \in 1..Len(w)
    BY <1>2, <1>9, <2>2, Zenon DEF Held
  <2> QED BY <1>1, <1>2, <1>5, <1>9, <2>1, <2>2, Zenon
<1>10. \A a \in Bufs : Has(t, p, a) => g[a] = 0
  BY <1>4, <1>7, Zenon DEF Held
<1>11. \A a \in Bufs : ~Has(t, p, a) => g[a] = 1 \/ (g[a] = 0 /\ a \in l)
  BY <1>4, <1>7, Zenon DEF Held
<1> QED BY <1>8, <1>9, <1>10, <1>11, Zenon DEF Held, t, g, c

(* Read moves the first slot to a body reader that holds none. *)
LEMMA HeldTake ==
  ASSUME NEW w \in Seq(Slots), w # <<>>, NEW f \in [Bufs -> Nat],
         NEW l, Held(w, NoBuf, f, l)
  PROVE  Held(Tail(w), w[1].bp, f, l)
<1> DEFINE t == Tail(w)
           p == w[1].bp
<1>1. /\ Len(t) = Len(w) - 1 /\ Len(w) \in Nat \ {0}
      /\ \A i \in 1..Len(t) : t[i] = w[i + 1]
  OBVIOUS
<1> HIDE DEF t
<1>2. 1 \in 1..Len(w) /\ \A i \in 1..Len(t) : i + 1 \in 1..Len(w) /\ i + 1 # 1
  BY <1>1
<1>3. \A i \in 1..Len(w) : i # 1 => \E j \in 1..Len(t) : j + 1 = i
  <2> TAKE i \in 1..Len(w)
  <2> HAVE i # 1
  <2>1. i - 1 \in 1..Len(t) /\ (i - 1) + 1 = i
    BY <1>1
  <2> QED BY <2>1, Zenon
<1>4. \A i, j \in 1..Len(t) : i + 1 = j + 1 => i = j
  BY <1>1
<1>5. p \in Bufs
  BY <1>2, Zenon DEF Held
<1>6. \A a \in Bufs : Has(t, p, a) <=> Has(w, NoBuf, a)
  <2> TAKE a \in Bufs
  <2>1. Has(t, p, a) => Has(w, NoBuf, a)
    BY <1>1, <1>2, Zenon DEF Has
  <2>2. Has(w, NoBuf, a) => Has(t, p, a)
    <3> SUFFICES ASSUME NEW i \in 1..Len(w), w[i].bp = a PROVE Has(t, p, a)
      BY BufAssumption, Zenon DEF Has
    <3>1. CASE i = 1
      BY <3>1, Zenon DEF Has
    <3>2. CASE i # 1
      BY <1>1, <1>3, <3>2, Zenon DEF Has
    <3> QED BY <3>1, <3>2, Zenon
  <2> QED BY <2>1, <2>2, Zenon
<1>7. ASSUME NEW i \in 1..Len(t)
      PROVE  t[i].bp \in Bufs /\ t[i].data # <<>> /\ t[i].bp # p
  <2>1. t[i] = w[i + 1] /\ i + 1 \in 1..Len(w) /\ i + 1 # 1
    BY <1>1, <1>2, Zenon
  <2> QED BY <1>2, <2>1, Zenon DEF Held
<1>8. ASSUME NEW i \in 1..Len(t), NEW j \in 1..Len(t), t[i].bp = t[j].bp PROVE i = j
  <2>1. /\ t[i] = w[i + 1] /\ i + 1 \in 1..Len(w)
        /\ t[j] = w[j + 1] /\ j + 1 \in 1..Len(w)
    BY <1>1, <1>2, Zenon
  <2>2. i + 1 = j + 1
    BY <1>8, <2>1, Zenon DEF Held
  <2> QED BY <1>4, <2>2, Zenon
<1>9. \A a \in Bufs : Has(t, p, a) => f[a] = 0
  BY <1>6, Zenon DEF Held
<1>10. \A a \in Bufs : ~Has(t, p, a) => f[a] = 1 \/ (f[a] = 0 /\ a \in l)
  BY <1>6, Zenon DEF Held
<1> QED BY <1>7, <1>8, <1>9, <1>10, Zenon DEF Held, t

(* Read gives back the buffer it has emptied. *)
LEMMA HeldReturn ==
  ASSUME NEW w \in Seq(Slots), NEW p \in Bufs \cup {NoBuf}, NEW f \in [Bufs -> Nat],
         NEW l, Held(w, p, f, l)
  PROVE  Held(w, NoBuf, Put(f, {p} \ {NoBuf}), l)
<1> DEFINE g == Put(f, {p} \ {NoBuf})
<1>1. \A a \in Bufs : g[a] = IF a = p THEN f[a] + 1 ELSE f[a]
  BY BufAssumption, Zenon DEF Put
<1> HIDE DEF g
<1>2. ASSUME NEW a \in Bufs, a = p PROVE g[a] = 1 /\ ~Has(w, NoBuf, a)
  <2>1. Has(w, p, a) /\ f[a] = 0
    BY <1>2, Zenon DEF Held, Has
  <2>2. g[a] = 1
    BY <1>1, <1>2, <2>1
  <2>3. ~Has(w, NoBuf, a)
    BY <1>2, BufAssumption, Zenon DEF Held, Has
  <2> QED BY <2>2, <2>3, Zenon
<1>3. ASSUME NEW a \in Bufs, a # p PROVE g[a] = f[a] /\ (Has(w, p, a) <=> Has(w, NoBuf, a))
  BY <1>1, <1>3, BufAssumption, Zenon DEF Has
<1>4. \A i \in 1..Len(w) : w[i].bp \in Bufs /\ w[i].data # <<>> /\ w[i].bp # NoBuf
  BY BufAssumption, Zenon DEF Held
<1> QED BY <1>2, <1>3, <1>4, Zenon DEF Held, g

(* Close and Release give back what is queued and what the reader holds. *)
LEMMA HeldClear ==
  ASSUME NEW w \in Seq(Slots), NEW p \in Bufs \cup {NoBuf}, NEW f \in [Bufs -> Nat],
         NEW l, Held(w, p, f, l)
  PROVE  Held(<<>>, NoBuf, Put(f, ({w[i].bp : i \in 1..Len(w)} \ {NoBuf})
                                  \cup ({p} \ {NoBuf})), l)
<1> DEFINE bs == ({w[i].bp : i \in 1..Len(w)} \ {NoBuf}) \cup ({p} \ {NoBuf})
           g == Put(f, bs)
<1>1. \A a \in Bufs : a \in bs <=> Has(w, p, a)
  BY BufAssumption, Zenon DEF Has
<1> HIDE DEF bs
<1>2. \A a \in Bufs : g[a] = IF a \in bs THEN f[a] + 1 ELSE f[a]
  BY Zenon DEF Put
<1> HIDE DEF g
<1>3. ASSUME NEW a \in Bufs PROVE g[a] = 1 \/ (g[a] = 0 /\ a \in l)
  <2>1. CASE a \in bs
    <3>1. f[a] = 0 /\ g[a] = f[a] + 1
      BY <1>1, <1>2, <2>1, Zenon DEF Held
    <3> QED BY <3>1
  <2>2. CASE a \notin bs
    BY <1>1, <1>2, <2>2, Zenon DEF Held
  <2> QED BY <2>1, <2>2, Zenon
<1>4. 1..Len(<<>>) = {}
  OBVIOUS
<1>5. \A a \in Bufs : ~Has(<<>>, NoBuf, a)
  BY <1>4, BufAssumption, Zenon DEF Has
<1> QED BY <1>3, <1>4, <1>5, Zenon DEF Held, g, bs

(* More buffers may be late ones. *)
LEMMA HeldLater ==
  ASSUME NEW w, NEW p, NEW f, NEW l, NEW m, l \subseteq m, Held(w, p, f, l)
  PROVE  Held(w, p, f, m)
BY Zenon DEF Held

(* Truncating a queue of late pushes loses late buffers only. *)
LEMMA HeldDrop ==
  ASSUME NEW w, NEW f, NEW l, Held(w, NoBuf, f, l),
         \A i \in 1..Len(w) : w[i].bp \in l
  PROVE  Held(<<>>, NoBuf, f, l)
<1>1. 1..Len(<<>>) = {}
  OBVIOUS
<1>2. ASSUME NEW a \in Bufs PROVE f[a] = 1 \/ (f[a] = 0 /\ a \in l)
  <2>1. CASE Has(w, NoBuf, a)
    BY <2>1, BufAssumption, Zenon DEF Held, Has
  <2>2. CASE ~Has(w, NoBuf, a)
    BY <2>2, Zenon DEF Held
  <2> QED BY <2>1, <2>2, Zenon
<1>3. \A a \in Bufs : ~Has(<<>>, NoBuf, a)
  BY <1>1, BufAssumption, Zenon DEF Has
<1> QED BY <1>1, <1>2, <1>3, Zenon DEF Held

(* How often buffer b is in the pool, queued or with the body reader. *)
Count(q, h, p, f, b) ==
    f[b] + Cardinality({i \in (h + 1)..Len(q) : q[i].bp = b}) + (IF p = b THEN 1 ELSE 0)

(* A buffer is in one place, or in none if it was pushed too late.  N are   *)
(* the slots of the queue q, behind the first h, that hold b.               *)
LEMMA HeldOnce ==
  ASSUME NEW q \in Seq(Slots), NEW h \in 0..Len(q), NEW p \in Bufs \cup {NoBuf},
         NEW f \in [Bufs -> Nat], NEW l, Held(Rest(q, h), p, f, l), NEW b \in Bufs
  PROVE  Count(q, h, p, f, b) = 1 \/ (Count(q, h, p, f, b) = 0 /\ b \in l)
<1> DEFINE k == Count(q, h, p, f, b)
           w == Rest(q, h)
           N == {i \in (h + 1)..Len(q) : q[i].bp = b}
<1>1. /\ Len(w) = Len(q) - h /\ Len(q) \in Nat
      /\ \A i \in 1..(Len(q) - h) : w[i] = q[h + i]
  BY RestShape
<1> HIDE DEF w
<1>2. \A i \in (h + 1)..Len(q) : i - h \in 1..Len(w) /\ w[i - h] = q[i]
  BY <1>1
<1>3. \A i \in 1..Len(w) : h + i \in (h + 1)..Len(q) /\ w[i] = q[h + i]
  BY <1>1
<1>4. Held(w, p, f, l)
  BY Zenon DEF w
<1>4b. k = f[b] + Cardinality(N) + (IF p = b THEN 1 ELSE 0)
  BY Zenon DEF Count
<1> SUFFICES k = 1 \/ (k = 0 /\ b \in l)
  BY Zenon
<1> HIDE DEF k
<1>4a. \A i : i \in N <=> i \in (h + 1)..Len(q) /\ q[i].bp = b
  BY Zenon
<1> HIDE DEF N
<1>5. CASE p = b
  <2>1. f[b] = 0
    BY <1>4, <1>5, Zenon DEF Held, Has
  <2>2. N = {}
    <3>1. ASSUME NEW i \in (h + 1)..Len(q) PROVE q[i].bp # b
      <4>1. w[i - h].bp # p /\ w[i - h] = q[i]
        BY <1>2, <1>4, Zenon DEF Held
      <4> QED BY <1>5, <4>1, Zenon
    <3> QED BY <1>4a, <3>1, Zenon
  <2>3. Cardinality(N) = 0
    BY <2>2, FS_EmptySet, Zenon
  <2> QED BY <1>4b, <1>5, <2>1, <2>3
<1>6. CASE p # b /\ \E i \in 1..Len(w) : w[i].bp = b
  <2>1. PICK i \in 1..Len(w) : w[i].bp = b
    BY <1>6, Zenon
  <2>2. f[b] = 0
    BY <1>4, <2>1, Zenon DEF Held, Has
  <2>3. ASSUME NEW j \in (h + 1)..Len(q), q[j].bp = b PROVE j = h + i
    <3>1. j - h = i
      BY <1>2, <1>4, <2>1, <2>3, Zenon DEF Held
    <3> QED BY <3>1, <1>1
  <2>4. N = {h + i}
    <3>1. h + i \in N
      BY <1>4a, <1>3, <2>1, Zenon
    <3>2. \A j \in N : j = h + i
      BY <1>4a, <2>3, Zenon
    <3> QED BY <3>1, <3>2, Zenon
  <2>5. Cardinality(N) = 1
    BY <2>4, FS_Singleton, Zenon
  <2> QED BY <1>4b, <1>6, <2>2, <2>5
<1>7. CASE ~Has(w, p, b)
  <2>1. (f[b] = 1 \/ (f[b] = 0 /\ b \in l)) /\ p # b
    BY <1>4, <1>7, Zenon DEF Held, Has
  <2>2. N = {}
    BY <1>4a, <1>2, <1>7, Zenon DEF Has
  <2>3. Cardinality(N) = 0
    BY <2>2, FS_EmptySet, Zenon
  <2> QED BY <1>4b, <2>1, <2>3
<1> QED BY <1>5, <1>6, <1>7, Zenon DEF Has

-----------------------------------------------------------------------------
(* The inductive invariant of the body queue. *)

(* The slots that have not been consumed. *)
Waiting == Rest(queue, qHead)

(* What the frame reader has to do in the handler of a frame. *)
Duties == {"PushData", "CloseData", "FailBody", "signal", "cancel"}

BodyTypeOK ==
    /\ queue \in Seq(Slots)
    /\ qHead \in 0..Len(queue)
    /\ dataDone \in BOOLEAN /\ dataErr \in BOOLEAN
    /\ bp \in Bufs \cup {NoBuf}
    /\ buf \in Seq(Nat)
    /\ free \in [Bufs -> Nat]
    /\ todo \in Seq(Duties)
    /\ pushed \in Nat
    /\ out \in Seq(Nat)

(* The body reader has unread bytes exactly while it has a handle, but for  *)
(* the bytes Close and Release leave behind, and a Read that waits has none.*)
ReaderInv ==
    /\ bp # NoBuf => buf # <<>>
    /\ bp = NoBuf /\ buf # <<>> => closed \/ ~InUse
    /\ pc \in {"parked", "woken"} => buf = <<>>

(* A stream that Release has drained holds late pushes only. *)
LateInv ==
    ~InUse => /\ bp = NoBuf
              /\ qHead = 0
              /\ \A i \in 1..Len(Waiting) : Waiting[i].bp \in late

BodyInv ==
    /\ BodyTypeOK
    /\ Held(Waiting, bp, free, late)
    /\ LateInv
    /\ ReaderInv
    /\ ParkedHasNothing

(* What one Read does with the n bytes asked for and the data at hand. *)
LEMMA Copied ==
  ASSUME BodyTypeOK, NEW n \in Nat \ {0}, NEW b \in Bufs \cup {NoBuf},
         NEW data \in Seq(Nat), data # <<>>, CopyOut(n, b, data)
  PROVE  /\ out' \in Seq(Nat) /\ buf' \in Seq(Nat) /\ free' \in [Bufs -> Nat]
         /\ \/ bp' = NoBuf /\ buf' = <<>> /\ free' = Put(free, {b} \ {NoBuf})
            \/ bp' = b /\ buf' # <<>> /\ free' = free
         /\ result' = "data"
         /\ \E k \in 1..Len(data) : /\ out' = out \o SubSeq(data, 1, k)
                                    /\ buf' = SubSeq(data, k + 1, Len(data))
<1> DEFINE k == IF n < Len(data) THEN n ELSE Len(data)
<1>1. k \in 1..Len(data) /\ Len(data) \in Nat
  OBVIOUS
<1>2. /\ out' = out \o SubSeq(data, 1, k)
      /\ buf' = SubSeq(data, k + 1, Len(data))
      /\ IF k = Len(data)
         THEN bp' = NoBuf /\ free' = Put(free, {b} \ {NoBuf})
         ELSE bp' = b /\ free' = free
      /\ result' = "data"
  BY Zenon DEF CopyOut
<1> HIDE DEF k
<1>3. /\ SubSeq(data, 1, k) \in Seq(Nat)
      /\ SubSeq(data, k + 1, Len(data)) \in Seq(Nat)
      /\ Len(SubSeq(data, k + 1, Len(data))) = Len(data) - k
  BY <1>1
<1>4. k = Len(data) => buf' = <<>>
  <2> DEFINE r == SubSeq(data, k + 1, Len(data))
  <2>1. r \in Seq(Nat) /\ Len(r) = Len(data) - k /\ buf' = r
    BY <1>2, <1>3, Zenon
  <2> HIDE DEF r
  <2> QED BY <1>1, <2>1
<1>5. k # Len(data) => buf' # <<>>
  <2> DEFINE r == SubSeq(data, k + 1, Len(data))
  <2>1. r \in Seq(Nat) /\ Len(r) = Len(data) - k /\ buf' = r
    BY <1>2, <1>3, Zenon
  <2> HIDE DEF r
  <2> QED BY <1>1, <2>1
<1>6. out' \in Seq(Nat)
  BY <1>2, <1>3, ConcatType, Zenon DEF BodyTypeOK
<1>7. Put(free, {b} \ {NoBuf}) \in [Bufs -> Nat]
  BY DEF Put, BodyTypeOK
<1>8. free' \in [Bufs -> Nat]
  BY <1>2, <1>7, Zenon DEF BodyTypeOK
<1> QED BY <1>1, <1>2, <1>3, <1>4, <1>5, <1>6, <1>8, Zenon

(* The slots that wait. *)
LEMMA WaitingShape ==
  ASSUME BodyTypeOK
  PROVE  /\ Waiting \in Seq(Slots) /\ Len(Waiting) = Len(queue) - qHead
         /\ \A i \in 1..(Len(queue) - qHead) : Waiting[i] = queue[qHead + i]
BY RestShape, Zenon DEF BodyTypeOK, Waiting

(* PushData adds one at the end, in a buffer from the pool. *)
LEMMA PushEffect ==
  ASSUME BodyTypeOK, NEW n \in Nat \ {0}, PushData(n)
  PROVE  /\ queue' \in Seq(Slots) /\ qHead' \in 0..Len(queue')
         /\ \E b \in Bufs : /\ free[b] > 0
                            /\ free' = [free EXCEPT ![b] = @ - 1]
                            /\ Waiting' = Append(Waiting, Chunk(b, [i \in 1..n |-> pushed + i]))
                            /\ late' = IF InUse THEN late ELSE late \cup {b}
         /\ [i \in 1..n |-> pushed + i] \in Seq(Nat)
         /\ [i \in 1..n |-> pushed + i] # <<>>
<1> DEFINE d == [i \in 1..n |-> pushed + i]
<1>1. d \in Seq(Nat) /\ d # <<>>
  <2>1. pushed \in Nat
    BY Zenon DEF BodyTypeOK
  <2>2. d \in Seq(Nat) /\ Len(d) = n
    BY <2>1
  <2> HIDE DEF d
  <2> QED BY <2>2, Zenon
<1> HIDE DEF d
<1>2. PICK b \in Bufs : /\ free[b] > 0
                        /\ free' = [free EXCEPT ![b] = @ - 1]
                        /\ queue' = Append(queue, Chunk(b, d))
                        /\ late' = IF InUse THEN late ELSE late \cup {b}
  BY Zenon DEF PushData, d
<1>3. Chunk(b, d) \in Slots
  BY <1>1, Zenon DEF Chunk, Slots
<1>4. qHead' = qHead
  BY Zenon DEF PushData
<1> DEFINE c == Chunk(b, d)
<1> HIDE DEF c
<1>5. queue \in Seq(Slots) /\ qHead \in 0..Len(queue) /\ c \in Slots
  BY <1>3, Zenon DEF BodyTypeOK, c
<1>6. /\ qHead \in 0..Len(Append(queue, c))
      /\ Rest(Append(queue, c), qHead) = Append(Rest(queue, qHead), c)
  BY <1>5, RestAppend
<1>7. Append(queue, c) \in Seq(Slots)
  BY <1>5
<1> QED BY <1>1, <1>2, <1>4, <1>6, <1>7, Zenon DEF Waiting, c, d

(* Read takes the first one, with or without compaction. *)
LEMMA TakeEffect ==
  ASSUME BodyTypeOK, NEW n, ReadChunk(n)
  PROVE  /\ queue' \in Seq(Slots) /\ qHead' \in 0..Len(queue')
         /\ Waiting # <<>> /\ Waiting[1] = queue[qHead + 1]
         /\ Waiting' = Tail(Waiting)
<1> DEFINE p == [queue EXCEPT ![qHead + 1] = NoChunk]
<1>1. queue \in Seq(Slots) /\ qHead \in 0..Len(queue) /\ qHead < Len(queue)
  BY Zenon DEF BodyTypeOK, ReadChunk
<1>2. NoChunk \in Slots
  BY DEF NoChunk, Chunk, Slots
<1>3. /\ p \in Seq(Slots) /\ Len(p) = Len(queue)
      /\ \A i \in (qHead + 2)..Len(queue) : p[i] = queue[i]
  BY <1>1, <1>2
<1>4. Compact(p, qHead + 1)
  BY Zenon DEF ReadChunk
<1> HIDE DEF p
<1>5. /\ Rest(queue, qHead) # <<>> /\ Rest(queue, qHead)[1] = queue[qHead + 1]
      /\ Rest(p, qHead + 1) = Tail(Rest(queue, qHead))
      /\ Rest(Rest(p, qHead + 1), 0) = Tail(Rest(queue, qHead))
  BY <1>1, <1>3, RestTake, Zenon
<1>6. qHead + 1 \in 0..Len(p)
  BY <1>1, <1>3
<1>7. Rest(p, qHead + 1) \in Seq(Slots)
  BY <1>3, <1>6, RestShape, Zenon
<1>8. CASE queue' = Rest(p, qHead + 1) /\ qHead' = 0
  <2>1. 0 \in 0..Len(queue')
    BY <1>7, <1>8
  <2> QED BY <1>5, <1>7, <1>8, <2>1, Zenon DEF Waiting
<1>9. CASE queue' = p /\ qHead' = qHead + 1
  BY <1>3, <1>5, <1>6, <1>9, Zenon DEF Waiting
<1> QED BY <1>4, <1>8, <1>9, Zenon DEF Compact, Rest

(* Close and Release drop them all. *)
LEMMA DropEffect ==
  ASSUME BodyTypeOK, queue' = <<>>, qHead' = 0
  PROVE  /\ queue' \in Seq(Slots) /\ qHead' \in 0..Len(queue')
         /\ Waiting' = <<>>
         /\ Queued = {Waiting[i].bp : i \in 1..Len(Waiting)} \ {NoBuf}
<1>1. <<>> \in Seq(Slots) /\ 0 \in 0..Len(<<>>) /\ Rest(<<>>, 0) = <<>>
  BY DEF Rest
<1>2. /\ Len(Waiting) = Len(queue) - qHead /\ Len(queue) \in Nat
      /\ \A i \in 1..(Len(queue) - qHead) : Waiting[i] = queue[qHead + i]
      /\ qHead \in 0..Len(queue)
  BY WaitingShape DEF BodyTypeOK
<1>3. \A i \in (qHead + 1)..Len(queue) :
         i - qHead \in 1..Len(Waiting) /\ Waiting[i - qHead] = queue[i]
  BY <1>2
<1>4. \A i \in 1..Len(Waiting) :
         qHead + i \in (qHead + 1)..Len(queue) /\ Waiting[i] = queue[qHead + i]
  BY <1>2
<1>5. Queued = {Waiting[i].bp : i \in 1..Len(Waiting)} \ {NoBuf}
  <2>1. ASSUME NEW a, a \in Queued
        PROVE  a \in {Waiting[i].bp : i \in 1..Len(Waiting)} \ {NoBuf}
    <3>1. PICK i \in (qHead + 1)..Len(queue) : a = queue[i].bp
      BY <2>1, Zenon DEF Queued
    <3>2. i - qHead \in 1..Len(Waiting) /\ Waiting[i - qHead] = queue[i]
      BY <1>3, Zenon
    <3> QED BY <2>1, <3>1, <3>2, Zenon DEF Queued
  <2>2. ASSUME NEW i \in 1..Len(Waiting), Waiting[i].bp # NoBuf
        PROVE  Waiting[i].bp \in Queued
    BY <1>4, <2>2, Zenon DEF Queued
  <2> QED BY <2>1, <2>2, Zenon
<1> QED BY <1>1, <1>5, Zenon DEF Waiting


(* What the frame reader may have left to do. *)
LEMMA TodoType ==
  /\ \A a \in Duties : <<a>> \in Seq(Duties)
  /\ \A a, b \in Duties : <<a, b>> \in Seq(Duties)
  /\ <<>> \in Seq(Duties)
  /\ Duties = {"PushData", "CloseData", "FailBody", "signal", "cancel"}
<1>1. ASSUME NEW S
      PROVE  /\ \A a \in S : <<a>> \in Seq(S)
             /\ \A a, b \in S : <<a, b>> \in Seq(S)
             /\ <<>> \in Seq(S)
  OBVIOUS
<1> QED BY <1>1, Zenon DEF Duties

(* The frame reader finds the stream. *)
Lookup == (\E e \in BOOLEAN : LookupData(e)) \/ LookupEnd \/ LookupReset

(* The steps that touch neither the queue nor the bytes. *)
Control ==
    \/ Lookup \/ CloseData \/ FailBody \/ Signal \/ CancelCtx
    \/ HandlerReturns \/ Deregister
    \/ \E n \in Sizes : ReadWait(n) \/ ReadEnd(n)

(* A lookup only decides what the frame reader does next. *)
LEMMA LookupEffect ==
  ASSUME Lookup
  PROVE  /\ UNCHANGED <<queue, qHead, bp, buf, free, late, pushed, pc, out, closed, result>>
         /\ UNCHANGED <<dataDone, dataErr>>
         /\ todo = <<>> /\ InUse
         /\ \/ todo' = <<"PushData", "CloseData">> \/ todo' = <<"PushData">>
            \/ todo' = <<"CloseData">> \/ todo' = <<"FailBody">>
<1>1. /\ LookUp(todo')
      /\ \/ todo' = <<"PushData", "CloseData">> \/ todo' = <<"PushData">>
         \/ todo' = <<"CloseData">> \/ todo' = <<"FailBody">>
  BY Zenon DEF Lookup, LookupData, LookupEnd, LookupReset, LookUp
<1> QED BY <1>1, Zenon DEF LookUp, Ready, body, reader

(* CloseData, FailBody and the cancellation touch no chunk. *)
LEMMA ControlEffect ==
  ASSUME BodyTypeOK, Control
  PROVE  /\ UNCHANGED <<queue, qHead, bp, buf, free, late, pushed, out, closed>>
         /\ dataDone' \in BOOLEAN /\ dataErr' \in BOOLEAN
         /\ todo' \in Seq(Duties)
         /\ (InUse /\ InUse') \/ pc' = pc
<1>1. UNCHANGED <<queue, qHead, bp, buf, free, late, pushed, out, closed>>
  BY LookupEffect, Zenon DEF Control, CloseData, FailBody, Signal, CancelCtx,
               HandlerReturns, Deregister, ReadWait, ReadEnd, body, reader
<1>2. dataDone' \in BOOLEAN /\ dataErr' \in BOOLEAN
  BY LookupEffect, Zenon DEF BodyTypeOK, Control, CloseData, FailBody, Signal, CancelCtx,
               HandlerReturns, Deregister, ReadWait, ReadEnd
<1>3. \/ todo' = todo \/ todo' = <<"CloseData">> \/ todo' = <<"signal">>
      \/ todo' = <<"PushData", "CloseData">> \/ todo' = <<"PushData">>
      \/ todo' = <<"FailBody">>
      \/ todo' = <<"signal", "cancel">> \/ (todo # <<>> /\ todo' = Tail(todo))
  BY LookupEffect, Zenon DEF Control, CloseData, FailBody, Signal, CancelCtx,
               HandlerReturns, Deregister, ReadWait, ReadEnd
<1>4. todo \in Seq(Duties)
  BY Zenon DEF BodyTypeOK
<1>5. todo # <<>> => Tail(todo) \in Seq(Duties)
  BY <1>4
<1>6. todo' \in Seq(Duties)
  BY <1>3, <1>4, <1>5, TodoType, Zenon
<1>7. (InUse /\ InUse') \/ pc' = pc
  <2>1. CASE Lookup \/ CloseData \/ FailBody \/ CancelCtx
    BY <2>1, LookupEffect, Zenon DEF CloseData, FailBody, CancelCtx, reader
  <2>2. CASE Signal
    <3>1. pc' = IF pc = "parked" THEN "woken" ELSE pc
      BY <2>2, Zenon DEF Signal
    <3> QED BY <3>1, Zenon DEF InUse
  <2>3. CASE HandlerReturns \/ Deregister
    BY <2>3, Zenon DEF HandlerReturns, Deregister, InUse
  <2>4. ASSUME NEW n \in Sizes, ReadWait(n) \/ ReadEnd(n) PROVE InUse /\ InUse'
    <3>1. pc \in {"idle", "woken"} /\ pc' \in {"parked", "idle"}
      BY <2>4, Zenon DEF ReadWait, ReadEnd, InRead
    <3> QED BY <3>1, Zenon DEF InUse
  <2> QED BY <2>1, <2>2, <2>3, <2>4, Zenon DEF Control
<1> QED BY <1>1, <1>2, <1>6, <1>7, Zenon

(* The steps of the body queue, one by one. *)
LEMMA BodySteps ==
  ASSUME BodyNext
  PROVE  \/ \E n \in Nat \ {0} : PushData(n)
         \/ Control
         \/ \E n \in Nat \ {0} : ReadBuffered(n) \/ ReadChunk(n)
         \/ Close \/ DrainBody \/ ReleaseBody \/ AcquireBody
<1>1. 1..MaxChunk \subseteq Nat \ {0} /\ Sizes \subseteq Nat \ {0}
  BY BoundAssumption DEF Sizes
<1> QED BY <1>1, Zenon DEF BodyNext, FrameReader, Control, Lookup

(* Types; no buffer is returned twice, and none lost but late ones. *)
LEMMA StepBuffers ==
  ASSUME BodyInv, [BodyNext]_bodyVars
  PROVE  BodyTypeOK' /\ Held(Waiting', bp', free', late')
<1>1. BodyTypeOK /\ Held(Waiting, bp, free, late) /\ ReaderInv /\ LateInv
  BY Zenon DEF BodyInv
<1>2. Waiting \in Seq(Slots) /\ bp \in Bufs \cup {NoBuf} /\ free \in [Bufs -> Nat]
  BY <1>1, WaitingShape, Zenon DEF BodyTypeOK
<1>3. ASSUME NEW n \in Nat \ {0}, PushData(n)
      PROVE  BodyTypeOK' /\ Held(Waiting', bp', free', late')
  <2> DEFINE d == [i \in 1..n |-> pushed + i]
  <2>1. PICK b \in Bufs : /\ free[b] > 0
                          /\ free' = [free EXCEPT ![b] = @ - 1]
                          /\ Waiting' = Append(Waiting, Chunk(b, d))
                          /\ late' = IF InUse THEN late ELSE late \cup {b}
    BY <1>1, <1>3, PushEffect, Zenon
  <2>2. d \in Seq(Nat) /\ d # <<>>
    BY <1>1, <1>3, PushEffect, Zenon
  <2> HIDE DEF d
  <2>3. Held(Append(Waiting, Chunk(b, d)), bp, [free EXCEPT ![b] = @ - 1], late)
    BY <1>1, <1>2, <2>1, <2>2, HeldPush, Zenon
  <2>3a. late \subseteq late'
    BY <2>1, Zenon
  <2>3b. Held(Append(Waiting, Chunk(b, d)), bp, [free EXCEPT ![b] = @ - 1], late')
    BY <2>3, <2>3a, HeldLater, Zenon
  <2>4. /\ UNCHANGED <<dataDone, dataErr, bp, buf, out>>
        /\ pushed' = pushed + n
        /\ todo # <<>> /\ todo' = <<"signal">> \o Tail(todo)
    BY <1>3, Zenon DEF PushData, body, reader
  <2>5. pushed' \in Nat /\ todo' \in Seq(Duties)
    <3>1. pushed \in Nat
      BY <1>1, Zenon DEF BodyTypeOK
    <3>2. pushed + n \in Nat
      BY <3>1
    <3>3. todo \in Seq(Duties) /\ <<"signal">> \in Seq(Duties)
      BY <1>1, TodoType, Zenon DEF BodyTypeOK
    <3>4. <<"signal">> \o Tail(todo) \in Seq(Duties)
      BY <2>4, <3>3
    <3> QED BY <2>4, <3>2, <3>4, Zenon
  <2>6. free' \in [Bufs -> Nat]
    <3>1. free[b] \in Nat
      BY <1>2, Zenon
    <3>2. free[b] - 1 \in Nat
      BY <2>1, <3>1
    <3> QED BY <1>2, <2>1, <3>2, Zenon
  <2>7. queue' \in Seq(Slots) /\ qHead' \in 0..Len(queue')
    BY <1>1, <1>3, PushEffect, Zenon
  <2>8. BodyTypeOK'
    BY <1>1, <2>4, <2>5, <2>6, <2>7, Zenon DEF BodyTypeOK
  <2> QED BY <2>1, <2>3b, <2>4, <2>8, Zenon
<1>4. CASE Control
  <2>1. /\ UNCHANGED <<queue, qHead, bp, buf, free, late, pushed, out>>
        /\ dataDone' \in BOOLEAN /\ dataErr' \in BOOLEAN
        /\ todo' \in Seq(Duties)
    BY <1>1, <1>4, ControlEffect, Zenon
  <2> QED BY <1>1, <2>1, Zenon DEF BodyTypeOK, Waiting
<1>5. ASSUME NEW n \in Nat \ {0}, ReadBuffered(n)
      PROVE  BodyTypeOK' /\ Held(Waiting', bp', free', late')
  <2>1. /\ CopyOut(n, bp, buf) /\ buf # <<>>
        /\ UNCHANGED <<queue, qHead, dataDone, dataErr, todo, pushed, late>>
    BY <1>5, Zenon DEF ReadBuffered
  <2>2. /\ out' \in Seq(Nat) /\ buf' \in Seq(Nat) /\ free' \in [Bufs -> Nat]
        /\ \/ bp' = NoBuf /\ buf' = <<>> /\ free' = Put(free, {bp} \ {NoBuf})
           \/ bp' = bp /\ buf' # <<>> /\ free' = free
    <3>1. buf \in Seq(Nat)
      BY <1>1, Zenon DEF BodyTypeOK
    <3> QED BY <1>1, <1>2, <2>1, <3>1, Copied, Zenon
  <2>3. bp' \in Bufs \cup {NoBuf}
    BY <1>2, <2>2, Zenon
  <2>4. BodyTypeOK'
    BY <1>1, <2>1, <2>2, <2>3, Zenon DEF BodyTypeOK
  <2>5. Held(Waiting, NoBuf, Put(free, {bp} \ {NoBuf}), late)
    BY <1>1, <1>2, HeldReturn, Zenon
  <2> QED BY <1>1, <2>1, <2>2, <2>4, <2>5, Zenon DEF Waiting
<1>6. ASSUME NEW n \in Nat \ {0}, ReadChunk(n)
      PROVE  BodyTypeOK' /\ Held(Waiting', bp', free', late')
  <2> DEFINE c == Waiting[1]
  <2>1. /\ queue' \in Seq(Slots) /\ qHead' \in 0..Len(queue')
        /\ Waiting # <<>> /\ c = queue[qHead + 1] /\ Waiting' = Tail(Waiting)
    BY <1>1, <1>6, TakeEffect, Zenon
  <2>2. bp = NoBuf
    BY <1>1, <1>6, Zenon DEF ReaderInv, ReadChunk, InRead
  <2>3. 1 \in 1..Len(Waiting) /\ Tail(Waiting) \in Seq(Slots)
    BY <1>2, <2>1
  <2>4. c \in Slots /\ c.bp \in Bufs /\ c.data # <<>>
    <3>1. c \in Slots
      BY <1>2, <2>3
    <3> QED BY <1>1, <2>3, <3>1, Zenon DEF Held
  <2>5. c.data \in Seq(Nat)
    BY <2>4, Zenon DEF Slots
  <2>6. /\ CopyOut(n, c.bp, c.data)
        /\ UNCHANGED <<dataDone, dataErr, todo, pushed, late>>
    BY <1>6, <2>1, Zenon DEF ReadChunk
  <2>7. Held(Tail(Waiting), c.bp, free, late)
    BY <1>1, <1>2, <2>1, <2>2, HeldTake, Zenon
  <2> HIDE DEF c
  <2>8. /\ out' \in Seq(Nat) /\ buf' \in Seq(Nat) /\ free' \in [Bufs -> Nat]
        /\ \/ bp' = NoBuf /\ buf' = <<>> /\ free' = Put(free, {c.bp} \ {NoBuf})
           \/ bp' = c.bp /\ buf' # <<>> /\ free' = free
    BY <1>1, <2>4, <2>5, <2>6, Copied, Zenon
  <2>9. Held(Tail(Waiting), NoBuf, Put(free, {c.bp} \ {NoBuf}), late)
    BY <1>2, <2>3, <2>4, <2>7, HeldReturn, Zenon
  <2>10. bp' \in Bufs \cup {NoBuf}
    BY <2>4, <2>8, Zenon
  <2>11. BodyTypeOK'
    BY <1>1, <2>1, <2>6, <2>8, <2>10, Zenon DEF BodyTypeOK
  <2> QED BY <2>1, <2>6, <2>7, <2>8, <2>9, <2>11, Zenon
<1>7. CASE Close \/ DrainBody
  <2>1. /\ queue' = <<>> /\ qHead' = 0 /\ bp' = NoBuf
        /\ free' = Put(free, Queued \cup ({bp} \ {NoBuf}))
        /\ UNCHANGED <<buf, dataDone, dataErr, todo, pushed, out, late>>
    BY <1>7, Zenon DEF Close, DrainBody
  <2>2. /\ queue' \in Seq(Slots) /\ qHead' \in 0..Len(queue') /\ Waiting' = <<>>
        /\ Queued = {Waiting[i].bp : i \in 1..Len(Waiting)} \ {NoBuf}
    BY <1>1, <2>1, DropEffect, Zenon
  <2>3. Held(<<>>, NoBuf, Put(free, ({Waiting[i].bp : i \in 1..Len(Waiting)} \ {NoBuf})
                                    \cup ({bp} \ {NoBuf})), late)
    BY <1>1, <1>2, HeldClear, Zenon
  <2>4. free' \in [Bufs -> Nat]
    BY <1>2, <2>1 DEF Put
  <2>5. BodyTypeOK'
    BY <1>1, <2>1, <2>2, <2>4, Zenon DEF BodyTypeOK
  <2> QED BY <2>1, <2>2, <2>3, <2>5, Zenon
<1>7a. ASSUME ~InUse PROVE Held(<<>>, NoBuf, free, late) /\ qHead = 0
  <2>1. Held(Waiting, NoBuf, free, late) /\ \A i \in 1..Len(Waiting) : Waiting[i].bp \in late
    BY <1>1, <1>7a, Zenon DEF LateInv
  <2> QED BY <1>1, <1>7a, <2>1, HeldDrop, Zenon DEF LateInv
<1>7b. CASE ReleaseBody
  <2>1. /\ queue' = <<>> \/ queue' = queue
        /\ UNCHANGED <<qHead, bp, buf, free, late, dataDone, todo, pushed, out>>
        /\ dataErr' = FALSE /\ pc = "drained"
    BY <1>7b, Zenon DEF ReleaseBody, body
  <2>2. ~InUse
    BY <2>1, Zenon DEF InUse
  <2>3. bp = NoBuf /\ qHead = 0 /\ Held(<<>>, NoBuf, free, late)
    BY <1>1, <1>7a, <2>2, Zenon DEF LateInv
  <2>4. CASE queue' = <<>>
    <3>1. queue' \in Seq(Slots) /\ qHead' \in 0..Len(queue') /\ Waiting' = <<>>
      BY <1>1, <2>1, <2>3, <2>4, DropEffect, Zenon
    <3>2. BodyTypeOK'
      BY <1>1, <2>1, <3>1, Zenon DEF BodyTypeOK
    <3> QED BY <2>1, <2>3, <3>1, <3>2, Zenon
  <2>5. CASE queue' = queue
    BY <1>1, <2>1, <2>5, Zenon DEF BodyTypeOK, Waiting
  <2> QED BY <2>1, <2>4, <2>5, Zenon
<1>7c. CASE AcquireBody
  <2>1. /\ queue' = <<>> /\ qHead' = 0 /\ bp' = NoBuf /\ buf' = <<>>
        /\ pushed' = 0 /\ out' = <<>> /\ dataDone' = FALSE /\ dataErr' = FALSE
        /\ UNCHANGED <<free, late>> /\ pc = "released"
        /\ todo' = CASE todo = <<"cancel">> -> <<>>
                     [] todo = <<"signal", "cancel">> -> <<"signal">>
                     [] OTHER -> todo
    BY <1>7c, Zenon DEF AcquireBody, ResetUse
  <2>2. ~InUse
    BY <2>1, Zenon DEF InUse
  <2>3. Held(<<>>, NoBuf, free, late)
    BY <1>7a, <2>2, Zenon
  <2>4. queue' \in Seq(Slots) /\ qHead' \in 0..Len(queue') /\ Waiting' = <<>>
    BY <1>1, <2>1, DropEffect, Zenon
  <2>5. todo' = todo \/ todo' = <<>> \/ todo' = <<"signal">>
    BY <2>1
  <2>6. todo' \in Seq(Duties)
    BY <1>1, <2>5, TodoType, Zenon DEF BodyTypeOK
  <2>7. <<>> \in Seq(Nat) /\ 0 \in Nat
    OBVIOUS
  <2>8. BodyTypeOK'
    BY <1>1, <2>1, <2>4, <2>6, <2>7, Zenon DEF BodyTypeOK
  <2> QED BY <2>1, <2>3, <2>4, <2>8, Zenon
<1>8. CASE UNCHANGED bodyVars
  BY <1>1, <1>8, Zenon DEF bodyVars, body, reader, BodyTypeOK, Waiting
<1> QED BY <1>3, <1>4, <1>5, <1>6, <1>7, <1>7b, <1>7c, <1>8, BodySteps, Zenon

(* A drained stream holds late pushes only. *)
LEMMA StepLate ==
  ASSUME BodyInv, [BodyNext]_bodyVars
  PROVE  LateInv'
<1>1. BodyTypeOK /\ LateInv
  BY Zenon DEF BodyInv
<1>2. Waiting \in Seq(Slots)
  BY <1>1, WaitingShape, Zenon
<1>3. ASSUME NEW n \in Nat \ {0}, PushData(n) PROVE LateInv'
  <2> DEFINE d == [i \in 1..n |-> pushed + i]
  <2>1. PICK b \in Bufs : /\ Waiting' = Append(Waiting, Chunk(b, d))
                          /\ late' = IF InUse THEN late ELSE late \cup {b}
    BY <1>1, <1>3, PushEffect, Zenon
  <2>2. d \in Seq(Nat)
    BY <1>1, <1>3, PushEffect, Zenon
  <2> HIDE DEF d
  <2>3. UNCHANGED <<bp, qHead, pc>>
    BY <1>3, Zenon DEF PushData, body, reader
  <2>4. CASE InUse
    BY <2>3, <2>4, Zenon DEF LateInv, InUse
  <2>5. CASE ~InUse
    <3> DEFINE c == Chunk(b, d)
               v == Waiting'
    <3>1. c \in Slots /\ c.bp = b /\ v = Append(Waiting, c)
      BY <2>1, <2>2, Zenon DEF Chunk, Slots
    <3> HIDE DEF c, v
    <3>2. \A i \in 1..Len(v) : (i \in 1..Len(Waiting) /\ v[i] = Waiting[i]) \/ v[i] = c
      BY <1>2, <3>1
    <3>3. \A i \in 1..Len(Waiting) : Waiting[i].bp \in late
      BY <1>1, <2>5, Zenon DEF LateInv
    <3>4. \A i \in 1..Len(v) : v[i].bp \in late'
      BY <2>1, <2>5, <3>1, <3>2, <3>3, Zenon
    <3> QED BY <1>1, <2>3, <2>5, <3>4, Zenon DEF LateInv, v
  <2> QED BY <2>4, <2>5, Zenon
<1>4. CASE Control
  <2>1. UNCHANGED <<queue, qHead, bp, late>> /\ ((InUse /\ InUse') \/ pc' = pc)
    BY <1>1, <1>4, ControlEffect, Zenon
  <2>2. CASE InUse'
    BY <2>2, Zenon DEF LateInv
  <2>3. CASE pc' = pc
    BY <1>1, <2>1, <2>3, Zenon DEF LateInv, InUse, Waiting
  <2> QED BY <2>1, <2>2, <2>3, Zenon
<1>5. ASSUME NEW n \in Nat \ {0}, ReadBuffered(n) \/ ReadChunk(n) PROVE LateInv'
  <2>1. pc' = "idle"
    BY <1>5, Zenon DEF ReadBuffered, ReadChunk
  <2> QED BY <2>1, Zenon DEF LateInv, InUse
<1>6. CASE Close \/ AcquireBody
  <2>1. pc' = "idle"
    BY <1>6, Zenon DEF Close, AcquireBody, ResetUse
  <2> QED BY <2>1, Zenon DEF LateInv, InUse
<1>7. CASE DrainBody
  <2>1. queue' = <<>> /\ qHead' = 0 /\ bp' = NoBuf
    BY <1>7, Zenon DEF DrainBody
  <2>2. Waiting' = <<>> /\ 1..Len(<<>>) = {}
    BY <1>1, <2>1, DropEffect
  <2> QED BY <2>1, <2>2, Zenon DEF LateInv
<1>8. CASE ReleaseBody
  <2>1. /\ queue' = <<>> \/ queue' = queue
        /\ UNCHANGED <<qHead, bp, late>> /\ pc = "drained"
    BY <1>8, Zenon DEF ReleaseBody, body
  <2>2. bp = NoBuf /\ qHead = 0 /\ \A i \in 1..Len(Waiting) : Waiting[i].bp \in late
    BY <1>1, <2>1, Zenon DEF LateInv, InUse
  <2>3. CASE queue' = <<>>
    <3>1. Waiting' = <<>> /\ 1..Len(<<>>) = {}
      BY <1>1, <2>1, <2>2, <2>3, DropEffect
    <3> QED BY <2>1, <2>2, <3>1, Zenon DEF LateInv
  <2>4. CASE queue' = queue
    BY <2>1, <2>2, <2>4, Zenon DEF LateInv, Waiting
  <2> QED BY <2>1, <2>3, <2>4, Zenon
<1>9. CASE UNCHANGED bodyVars
  BY <1>1, <1>9, Zenon DEF bodyVars, body, reader, LateInv, Waiting, InUse
<1> QED BY <1>3, <1>4, <1>5, <1>6, <1>7, <1>8, <1>9, BodySteps, Zenon


(* The body reader's handle and bytes. *)
LEMMA StepReader ==
  ASSUME BodyInv, [BodyNext]_bodyVars
  PROVE  ReaderInv'
<1>1. BodyTypeOK /\ Held(Waiting, bp, free, late) /\ ReaderInv
  BY Zenon DEF BodyInv
<1>2. Waiting \in Seq(Slots) /\ bp \in Bufs \cup {NoBuf} /\ buf \in Seq(Nat)
  BY <1>1, WaitingShape, Zenon DEF BodyTypeOK
<1>3. ASSUME NEW n \in Nat \ {0}, PushData(n) PROVE ReaderInv'
  BY <1>1, <1>3, Zenon DEF PushData, ReaderInv, InUse, body, reader
<1>4. CASE Control
  <2>1. UNCHANGED <<bp, buf, closed>>
    BY <1>1, <1>4, ControlEffect, Zenon
  <2>2. CASE Lookup \/ CloseData \/ FailBody \/ CancelCtx
    <3>1. pc' = pc
      BY <2>2, LookupEffect, Zenon DEF CloseData, FailBody, CancelCtx, reader
    <3> QED BY <1>1, <2>1, <3>1, Zenon DEF ReaderInv, InUse
  <2>3. CASE Signal
    <3>1. pc' = IF pc = "parked" THEN "woken" ELSE pc
      BY <2>3, Zenon DEF Signal
    <3> QED BY <1>1, <2>1, <3>1, Zenon DEF ReaderInv, InUse
  <2>4. CASE HandlerReturns \/ Deregister
    <3>1. pc \in {"idle", "returned"} /\ pc' \in {"returned", "removed"}
      BY <2>4, Zenon DEF HandlerReturns, Deregister
    <3> QED BY <1>1, <2>1, <3>1, Zenon DEF ReaderInv, InUse
  <2>5. ASSUME NEW n \in Sizes, ReadWait(n) \/ ReadEnd(n) PROVE ReaderInv'
    <3>1. pc' \in {"parked", "idle"} /\ InRead(n)
      BY <2>5, Zenon DEF ReadWait, ReadEnd
    <3>2. buf = <<>>
      BY <1>1, <3>1, Zenon DEF InRead, ReaderInv
    <3> QED BY <1>1, <2>1, <3>1, <3>2, Zenon DEF ReaderInv
  <2> QED BY <1>4, <2>2, <2>3, <2>4, <2>5, Zenon DEF Control
<1>5. ASSUME NEW n \in Nat \ {0}, ReadBuffered(n) PROVE ReaderInv'
  <2>1. CopyOut(n, bp, buf) /\ buf # <<>> /\ UNCHANGED <<pc, closed, dataDone>> /\ pc = "idle"
    BY <1>5, Zenon DEF ReadBuffered
  <2>2. \/ bp' = NoBuf /\ buf' = <<>>
        \/ bp' = bp /\ buf' # <<>>
    BY <1>1, <1>2, <2>1, Copied, Zenon
  <2> QED BY <1>1, <2>1, <2>2, Zenon DEF ReaderInv, InUse
<1>6. ASSUME NEW n \in Nat \ {0}, ReadChunk(n) PROVE ReaderInv'
  <2> DEFINE c == Waiting[1]
  <2>1. Waiting # <<>> /\ c = queue[qHead + 1]
    BY <1>1, <1>6, TakeEffect, Zenon
  <2>2. 1 \in 1..Len(Waiting) /\ c \in Slots
    BY <1>2, <2>1
  <2>3. c.bp \in Bufs /\ c.data # <<>>
    BY <1>1, <2>2, Zenon DEF Held
  <2>4. c.data \in Seq(Nat)
    BY <2>2, Zenon DEF Slots
  <2>5. CopyOut(n, c.bp, c.data) /\ pc' = "idle"
    BY <1>6, <2>1, Zenon DEF ReadChunk
  <2> HIDE DEF c
  <2>6. \/ bp' = NoBuf /\ buf' = <<>>
        \/ bp' = c.bp /\ buf' # <<>>
    BY <1>1, <2>3, <2>4, <2>5, Copied, Zenon
  <2>7. c.bp # NoBuf
    BY <2>3, BufAssumption, Zenon
  <2> QED BY <2>5, <2>6, <2>7, Zenon DEF ReaderInv
<1>7. CASE Close
  <2>1. pc' = "idle" /\ bp' = NoBuf /\ closed' = TRUE
    BY <1>7, Zenon DEF Close
  <2>2. closed'
    BY <2>1, Zenon
  <2> QED BY <2>1, <2>2, Zenon DEF ReaderInv
<1>8. CASE DrainBody
  <2>1. pc' = "drained" /\ bp' = NoBuf
    BY <1>8, Zenon DEF DrainBody
  <2> QED BY <2>1, Zenon DEF ReaderInv, InUse
<1>9. CASE ReleaseBody
  <2>1. pc = "drained" /\ pc' = "released" /\ UNCHANGED <<bp, buf>>
    BY <1>9, Zenon DEF ReleaseBody, body
  <2> QED BY <1>1, <2>1, Zenon DEF ReaderInv, InUse
<1>10. CASE AcquireBody
  <2>1. pc' = "idle" /\ bp' = NoBuf /\ buf' = <<>>
    BY <1>10, Zenon DEF AcquireBody, ResetUse
  <2> QED BY <2>1, Zenon DEF ReaderInv
<1>11. CASE UNCHANGED bodyVars
  BY <1>1, <1>11, Zenon DEF bodyVars, body, reader, ReaderInv, InUse
<1> QED
  BY <1>3, <1>4, <1>5, <1>6, <1>7, <1>8, <1>9, <1>10, <1>11, BodySteps, Zenon

(* Dropping what is no notification keeps the notifications. *)
LEMMA TailKeeps ==
  ASSUME NEW S, NEW s \in Seq(S), s # <<>>, Head(s) # "signal",
         \E i \in DOMAIN s : s[i] = "signal"
  PROVE  \E i \in DOMAIN Tail(s) : Tail(s)[i] = "signal"
<1>1. PICK i \in 1..Len(s) : s[i] = "signal"
  OBVIOUS
<1>2. i # 1
  BY <1>1
<1>3. i - 1 \in DOMAIN Tail(s) /\ Tail(s)[i - 1] = s[i]
  BY <1>1, <1>2
<1> QED BY <1>1, <1>3, Zenon

(* The notifications. *)
LEMMA StepParked ==
  ASSUME BodyInv, [BodyNext]_bodyVars
  PROVE  ParkedHasNothing'
<1>1. BodyTypeOK /\ ParkedHasNothing
  BY Zenon DEF BodyInv
<1>2. /\ 1 \in DOMAIN <<"signal">> /\ <<"signal">>[1] = "signal"
      /\ 1 \in DOMAIN <<"signal", "cancel">> /\ <<"signal", "cancel">>[1] = "signal"
  OBVIOUS
<1>3. ASSUME NEW n \in Nat \ {0}, PushData(n) PROVE ParkedHasNothing'
  <2>1. todo # <<>> /\ todo' = <<"signal">> \o Tail(todo) /\ todo \in Seq(Duties)
    BY <1>1, <1>3, Zenon DEF PushData, BodyTypeOK
  <2> DEFINE v == Tail(todo)
  <2>2. v \in Seq(Duties)
    BY <2>1
  <2> HIDE DEF v
  <2>3. 1 \in DOMAIN (<<"signal">> \o v) /\ (<<"signal">> \o v)[1] = "signal"
    BY <2>2
  <2> QED BY <2>1, <2>3, Zenon DEF ParkedHasNothing, v
<1>4. CASE Control
  <2>1. UNCHANGED <<queue, qHead>>
    BY <1>1, <1>4, ControlEffect, Zenon
  <2>2. CASE CloseData \/ FailBody
    <3>1. todo' = <<"signal">> \/ todo' = <<"signal", "cancel">>
      BY <2>2, Zenon DEF CloseData, FailBody
    <3> QED BY <1>2, <3>1, Zenon DEF ParkedHasNothing
  <2>3. CASE Lookup
    <3>1. todo = <<>> /\ UNCHANGED <<pc, dataDone>>
      BY <2>3, LookupEffect, Zenon
    <3>2. DOMAIN todo = {}
      BY <3>1
    <3> QED BY <1>1, <2>1, <3>1, <3>2, Zenon DEF ParkedHasNothing
  <2>4. CASE CancelCtx
    <3>1. /\ todo # <<>> /\ Head(todo) = "cancel" /\ todo' = Tail(todo)
          /\ UNCHANGED <<pc, dataDone>>
      BY <2>4, Zenon DEF CancelCtx, reader
    <3>2. Head(todo) # "signal" /\ todo \in Seq(Duties)
      BY <1>1, <3>1, Zenon DEF BodyTypeOK
    <3>3. (\E i \in DOMAIN todo : todo[i] = "signal")
             => \E i \in DOMAIN Tail(todo) : Tail(todo)[i] = "signal"
      BY <3>1, <3>2, TailKeeps, Zenon
    <3> QED BY <1>1, <2>1, <3>1, <3>3, Zenon DEF ParkedHasNothing
  <2>5. CASE Signal
    <3>1. pc' = IF pc = "parked" THEN "woken" ELSE pc
      BY <2>5, Zenon DEF Signal
    <3>2. pc' # "parked"
      BY <3>1, Zenon
    <3> QED BY <3>2, Zenon DEF ParkedHasNothing
  <2>6. CASE HandlerReturns \/ Deregister
    <3>1. pc' # "parked"
      BY <2>6, Zenon DEF HandlerReturns, Deregister
    <3> QED BY <3>1, Zenon DEF ParkedHasNothing
  <2>7. ASSUME NEW n \in Sizes, ReadWait(n) PROVE ParkedHasNothing'
    BY <2>1, <2>7, Zenon DEF ReadWait, ParkedHasNothing
  <2>8. ASSUME NEW n \in Sizes, ReadEnd(n) PROVE ParkedHasNothing'
    <3>1. pc' # "parked"
      BY <2>8, Zenon DEF ReadEnd
    <3> QED BY <3>1, Zenon DEF ParkedHasNothing
  <2> QED BY <1>4, <2>2, <2>3, <2>4, <2>5, <2>6, <2>7, <2>8, Zenon DEF Control
<1>5. ASSUME NEW n \in Nat \ {0}, ReadBuffered(n) \/ ReadChunk(n) PROVE ParkedHasNothing'
  <2>1. pc' = "idle"
    BY <1>5, Zenon DEF ReadBuffered, ReadChunk
  <2>2. pc' # "parked"
    BY <2>1, Zenon
  <2> QED BY <2>2, Zenon DEF ParkedHasNothing
<1>6. CASE Close \/ DrainBody \/ ReleaseBody \/ AcquireBody
  <2>1. pc' = "idle" \/ pc' = "drained" \/ pc' = "released"
    BY <1>6, Zenon DEF Close, DrainBody, ReleaseBody, AcquireBody, ResetUse
  <2>2. pc' # "parked"
    BY <2>1, Zenon
  <2> QED BY <2>2, Zenon DEF ParkedHasNothing
<1>7. CASE UNCHANGED bodyVars
  BY <1>1, <1>7, Zenon DEF bodyVars, body, reader, ParkedHasNothing
<1> QED BY <1>3, <1>4, <1>5, <1>6, <1>7, BodySteps, Zenon

(* A stream starts with an empty body and all buffers in the pool. *)
LEMMA BodyInitInv == BodyInit => BodyInv
<1> SUFFICES ASSUME BodyInit PROVE BodyInv
  BY Zenon
<1>1. /\ <<>> \in Seq(Slots) /\ <<>> \in Seq(Nat) /\ 0 \in 0..Len(<<>>)
      /\ <<>> \in Seq(Duties) /\ Rest(<<>>, 0) = <<>>
      /\ 1..Len(<<>>) = {} /\ 0 \in Nat /\ [b \in Bufs |-> 1] \in [Bufs -> Nat]
  BY DEF Rest
<1>2. BodyTypeOK
  BY <1>1, Zenon DEF BodyInit, BodyTypeOK
<1>3. Waiting = <<>>
  BY <1>1, Zenon DEF BodyInit, Waiting
<1>4. \A b \in Bufs : ~Has(<<>>, NoBuf, b)
  BY <1>1, BufAssumption, Zenon DEF Has
<1>5. Held(<<>>, NoBuf, [b \in Bufs |-> 1], late)
  BY <1>1, <1>4, Zenon DEF Held
<1>6. Held(Waiting, bp, free, late)
  BY <1>3, <1>5, Zenon DEF BodyInit
<1>7. ReaderInv /\ LateInv
  BY Zenon DEF BodyInit, ReaderInv, LateInv, InUse
<1>8. ParkedHasNothing
  BY Zenon DEF BodyInit, ParkedHasNothing
<1> QED BY <1>2, <1>6, <1>7, <1>8, Zenon DEF BodyInv

(* The invariant of a stream's body is inductive. *)
LEMMA BodyStepInv == BodyInv /\ [BodyNext]_bodyVars => BodyInv'
BY StepBuffers, StepLate, StepReader, StepParked, Zenon DEF BodyInv

(* The invariant holds of every use of a stream, with a Release that takes  *)
(* no lock and a frame reader that may use a stream it found earlier.       *)
THEOREM BodyInductive == BodySpec => []BodyInv
BY BodyInitInv, BodyStepInv, PTL DEF BodySpec

(* PushData, CloseData and FailBody notify outside the lock, and no wake-up *)
(* is lost.                                                                 *)
THEOREM BodyWakeups == BodySpec => []ParkedHasNothing
<1>1. BodyInv => ParkedHasNothing
  BY Zenon DEF BodyInv
<1> QED BY <1>1, BodyInductive, PTL

(* However reads, compaction, Close, Release and the next Acquire           *)
(* interleave with the frame reader, no pooled buffer is in two places, and *)
(* one is lost only if its DATA frame was looked up before RemoveStream and *)
(* pushed after Release had drained the queue.                              *)
THEOREM BodyBuffers == BodySpec => []BuffersConserved
<1>1. ASSUME BodyInv, NEW b \in Bufs
      PROVE  Places(b) = 1 \/ (Places(b) = 0 /\ b \in late)
  <2>1. /\ queue \in Seq(Slots) /\ qHead \in 0..Len(queue) /\ bp \in Bufs \cup {NoBuf}
        /\ free \in [Bufs -> Nat] /\ Held(Rest(queue, qHead), bp, free, late)
    BY <1>1, Zenon DEF BodyInv, BodyTypeOK, Waiting
  <2>2. Places(b) = Count(queue, qHead, bp, free, b)
    BY Zenon DEF Places, Count
  <2> QED BY <2>1, <2>2, HeldOnce, Zenon
<1>2. BodyInv => BuffersConserved
  BY <1>1, Zenon DEF BuffersConserved
<1> QED BY <1>2, BodyInductive, PTL

(* A Read hands out bytes of a buffer the stream owns, if nobody reads a    *)
(* body after closing it.                                                   *)
THEOREM BodyBytesOwned ==
  ASSUME ~ReadsAfterClose
  PROVE  BodySpec => []BufferedBytesOwned
<1>1. BodyInv => BufferedBytesOwned
  <2> SUFFICES ASSUME BodyInv, buf # <<>>, MayRead, pc = "idle" PROVE bp # NoBuf
    BY Zenon DEF BufferedBytesOwned
  <2>1. InUse /\ ~closed
    BY Zenon DEF MayRead, InUse
  <2> QED BY <2>1, Zenon DEF BodyInv, ReaderInv
<1> QED BY <1>1, BodyInductive, PTL


-----------------------------------------------------------------------------
(* The body queue implements BodyPipe. *)

(* The bytes of the slots w, slot by slot. *)
Datas(w) == [i \in 1..Len(w) |-> w[i].data]

(* The bytes of the queued chunks, chunk by chunk. *)
LEMMA DatasShape ==
  ASSUME NEW w \in Seq(Slots)
  PROVE  /\ Datas(w) \in Seq(Seq(Nat)) /\ Len(Datas(w)) = Len(w)
         /\ \A i \in 1..Len(w) : Datas(w)[i] = w[i].data
<1>1. \A c \in Slots : c.data \in Seq(Nat)
  BY Zenon DEF Slots
<1>2. \A i \in 1..Len(w) : w[i] \in Slots
  OBVIOUS
<1>3. \A i \in 1..Len(w) : w[i].data \in Seq(Nat)
  BY <1>1, <1>2, Zenon
<1> QED BY <1>3 DEF Datas

(* The bytes behind the first h slots of the queue q. *)
LEMMA DatasRest ==
  ASSUME NEW q \in Seq(Slots), NEW h \in 0..Len(q)
  PROVE  [i \in 1..(Len(q) - h) |-> q[h + i].data] = Datas(Rest(q, h))
<1> DEFINE w == Rest(q, h)
<1>1. /\ Len(w) = Len(q) - h
      /\ \A i \in 1..(Len(q) - h) : w[i] = q[h + i]
  BY RestShape, Zenon
<1> HIDE DEF w
<1>2. \A i \in 1..(Len(q) - h) : q[h + i].data = w[i].data
  BY <1>1, Zenon
<1>3. [i \in 1..(Len(q) - h) |-> q[h + i].data] = [i \in 1..(Len(q) - h) |-> w[i].data]
  BY <1>2, Zenon
<1> QED BY <1>1, <1>3, Zenon DEF Datas, w

(* A chunk pushed is the last of them. *)
LEMMA DatasAppend ==
  ASSUME NEW w \in Seq(Slots), NEW c \in Slots
  PROVE  Datas(Append(w, c)) = Append(Datas(w), c.data)
<1> DEFINE t == Append(w, c)
           l == Datas(t)
           r == Append(Datas(w), c.data)
<1>1. /\ t \in Seq(Slots) /\ Len(t) = Len(w) + 1 /\ Len(w) \in Nat
      /\ \A i \in 1..Len(w) : t[i] = w[i]
      /\ t[Len(w) + 1] = c /\ c.data \in Seq(Nat)
  BY DEF Slots
<1> HIDE DEF t
<1>2. /\ l \in Seq(Seq(Nat)) /\ Len(l) = Len(t)
      /\ \A i \in 1..Len(t) : l[i] = t[i].data
  BY <1>1, DatasShape, Zenon
<1> DEFINE d == Datas(w)
<1>3. /\ d \in Seq(Seq(Nat)) /\ Len(d) = Len(w)
      /\ \A i \in 1..Len(w) : d[i] = w[i].data
  BY DatasShape, Zenon
<1> HIDE DEF l, d
<1>4. /\ r \in Seq(Seq(Nat)) /\ Len(r) = Len(w) + 1
      /\ \A i \in 1..Len(w) : r[i] = d[i]
      /\ r[Len(w) + 1] = c.data
  <2> DEFINE x == c.data
  <2>1. x \in Seq(Nat) /\ r = Append(d, x)
    BY <1>1, Zenon DEF d
  <2> HIDE DEF x, r
  <2>2. /\ r \in Seq(Seq(Nat)) /\ Len(r) = Len(d) + 1
        /\ \A i \in 1..Len(d) : r[i] = d[i]
        /\ r[Len(d) + 1] = x
    BY <1>3, <2>1
  <2> QED BY <1>3, <2>2, Zenon DEF x
<1> HIDE DEF r
<1>5. ASSUME NEW i \in 1..Len(l) PROVE l[i] = r[i]
  <2>1. i \in 1..Len(t) /\ (i \in 1..Len(w) \/ i = Len(w) + 1)
    BY <1>1, <1>2
  <2> QED BY <1>1, <1>2, <1>3, <1>4, <2>1, Zenon
<1>6. l = r
  BY <1>1, <1>2, <1>4, <1>5, SameSequence, Zenon
<1> QED BY <1>6, Zenon DEF l, r, t

(* A chunk taken was the first of them. *)
LEMMA DatasTail ==
  ASSUME NEW w \in Seq(Slots), w # <<>>
  PROVE  /\ Datas(Tail(w)) = Tail(Datas(w))
         /\ Datas(w) # <<>> /\ Datas(w)[1] = w[1].data
<1> DEFINE t == Tail(w)
           l == Datas(t)
           d == Datas(w)
           r == Tail(d)
<1>1. /\ t \in Seq(Slots) /\ Len(t) = Len(w) - 1 /\ Len(w) \in Nat \ {0}
      /\ \A i \in 1..Len(t) : t[i] = w[i + 1]
  OBVIOUS
<1> HIDE DEF t
<1>2. /\ l \in Seq(Seq(Nat)) /\ Len(l) = Len(t)
      /\ \A i \in 1..Len(t) : l[i] = t[i].data
  BY <1>1, DatasShape, Zenon
<1>3. /\ d \in Seq(Seq(Nat)) /\ Len(d) = Len(w)
      /\ \A i \in 1..Len(w) : d[i] = w[i].data
  BY DatasShape, Zenon
<1> HIDE DEF l, d
<1>4. d # <<>> /\ d[1] = w[1].data
  BY <1>1, <1>3
<1>5. /\ r \in Seq(Seq(Nat)) /\ Len(r) = Len(d) - 1
      /\ \A i \in 1..(Len(d) - 1) : r[i] = d[i + 1]
  BY <1>3, <1>4
<1> HIDE DEF r
<1>6. ASSUME NEW i \in 1..Len(l) PROVE l[i] = r[i]
  <2>1. i \in 1..Len(t) /\ i \in 1..(Len(d) - 1) /\ i + 1 \in 1..Len(w)
    BY <1>1, <1>2, <1>3
  <2> QED BY <1>1, <1>2, <1>3, <1>5, <2>1, Zenon
<1>7. Len(l) = Len(r)
  BY <1>1, <1>2, <1>3, <1>5, Zenon
<1>8. l = r
  BY <1>2, <1>5, <1>6, <1>7, SameSequence, Zenon
<1> QED BY <1>4, <1>8, Zenon DEF l, r, d, t

(* The unread bytes when p and u are the reader's handle and bytes. *)
Bytes(w, p, u) == (IF p = NoBuf THEN <<>> ELSE u) \o Joined(Datas(w))

(* What is left to read: the rest of the chunk being read, then the queue. *)
LEMMA BytesType ==
  ASSUME NEW w \in Seq(Slots), NEW p, NEW u \in Seq(Nat)
  PROVE  /\ Joined(Datas(w)) \in Seq(Nat)
         /\ Bytes(w, p, u) \in Seq(Nat)
         /\ p # NoBuf \/ u = <<>> => Bytes(w, p, u) = u \o Joined(Datas(w))
         /\ p = NoBuf => Bytes(w, p, u) = Joined(Datas(w))
<1> DEFINE j == Joined(Datas(w))
<1>1. j \in Seq(Nat)
  BY DatasShape, JoinedType, Zenon
<1> HIDE DEF j
<1>2. <<>> \in Seq(Nat)
  OBVIOUS
<1>3. u \o j \in Seq(Nat) /\ <<>> \o j \in Seq(Nat) /\ <<>> \o j = j
  BY <1>1, <1>2
<1> QED BY <1>1, <1>3, Zenon DEF Bytes, j

(* A chunk pushed comes behind everything left to read. *)
LEMMA BytesPush ==
  ASSUME NEW w \in Seq(Slots), NEW c \in Slots, NEW p, NEW u \in Seq(Nat)
  PROVE  Bytes(Append(w, c), p, u) = Bytes(w, p, u) \o c.data
<1> DEFINE v == IF p = NoBuf THEN <<>> ELSE u
           j == Joined(Datas(w))
           x == c.data
<1>1. v \in Seq(Nat) /\ x \in Seq(Nat)
  BY DEF Slots
<1>2. j \in Seq(Nat) /\ Datas(w) \in Seq(Seq(Nat))
  BY BytesType, DatasShape, Zenon
<1>3. Joined(Datas(Append(w, c))) = j \o x
  BY <1>1, <1>2, DatasAppend, JoinedAppend, Zenon
<1> HIDE DEF v, j, x
<1>4. (v \o j) \o x = v \o (j \o x)
  BY <1>1, <1>2
<1> QED BY <1>3, <1>4, Zenon DEF Bytes, v, j, x

(* The chunk taken from the queue has the bytes to read next. *)
LEMMA BytesTake ==
  ASSUME NEW w \in Seq(Slots), w # <<>>
  PROVE  Joined(Datas(w)) = w[1].data \o Joined(Datas(Tail(w)))
BY DatasShape, DatasTail, JoinedTail, Zenon


(* The unread bytes of the mapping, in terms of the slots that wait. *)
LEMMA UnreadIs ==
  ASSUME NEW q \in Seq(Slots), NEW h \in 0..Len(q), NEW p, NEW u
  PROVE  (IF p = NoBuf THEN <<>> ELSE u)
             \o Joined([i \in 1..(Len(q) - h) |-> q[h + i].data])
           = Bytes(Rest(q, h), p, u)
BY DatasRest, Zenon DEF Bytes

(* Handing out the first k of the bytes a of a pipe is Deliver. *)
LEMMA Delivers ==
  ASSUME NEW a \in Seq(Nat), NEW b \in Seq(Nat), NEW k \in 1..Len(a),
         Unread = a \o b, Unread' = SubSeq(a, k + 1, Len(a)) \o b,
         out' = out \o SubSeq(a, 1, k), result' = "data",
         pushed' = pushed, End' = End, InUse, InUse'
  PROVE  Pipe!Deliver
<1>1. k \in 0..Len(a) /\ k \in 1..Len(a \o b)
  BY ConcatType
<1>2. /\ SubSeq(a \o b, 1, k) = SubSeq(a, 1, k)
      /\ SubSeq(a \o b, k + 1, Len(a \o b)) = SubSeq(a, k + 1, Len(a)) \o b
  BY <1>1, ConcatPrefix, Zenon
<1>3. InUse' = InUse
  BY Zenon DEF InUse
<1> QED BY <1>1, <1>2, <1>3, Zenon DEF Pipe!Deliver

(* The steps of the frame reader, and of a Read, that leave the bytes. *)
LEMMA ControlPipe ==
  ASSUME BodyInv, Control
  PROVE  [Pipe!Next]_(Pipe!vars)
<1>1. BodyTypeOK /\ ReaderInv
  BY Zenon DEF BodyInv
<1>2. UNCHANGED <<queue, qHead, bp, buf, pushed, out>>
  BY <1>1, Control, ControlEffect, Zenon
<1>2a. InUse' = InUse
  <2>1. (InUse /\ InUse') \/ pc' = pc
    BY <1>1, Control, ControlEffect, Zenon
  <2>2. CASE InUse /\ InUse'
    BY <2>2, Zenon DEF InUse
  <2>3. CASE pc' = pc
    BY <2>3, Zenon DEF InUse
  <2> QED BY <2>1, <2>2, <2>3, Zenon
<1>3. Unread' = Unread
  BY <1>2, Zenon DEF Unread
<1>4. CASE \/ Lookup \/ Signal \/ CancelCtx \/ Deregister
           \/ \E n \in Sizes : ReadWait(n)
  <2>1. UNCHANGED <<dataDone, dataErr, result>>
    BY <1>4, LookupEffect, Zenon DEF Signal, CancelCtx, Deregister, ReadWait, reader
  <2>2. End' = End
    BY <2>1, Zenon DEF End
  <2> QED BY <1>2, <1>2a, <1>3, <2>1, <2>2, Zenon DEF Pipe!vars
<1>4a. CASE HandlerReturns /\ dataDone' = dataDone
  <2>1. UNCHANGED <<dataDone, dataErr, result>>
    BY <1>4a, Zenon DEF HandlerReturns
  <2>2. End' = End
    BY <2>1, Zenon DEF End
  <2> QED BY <1>2, <1>2a, <1>3, <2>1, <2>2, Zenon DEF Pipe!vars
<1>5. CASE CloseData \/ (HandlerReturns /\ dataDone' = TRUE)
  <2>1. dataDone' = TRUE /\ UNCHANGED <<dataErr, result>>
    BY <1>5, Zenon DEF CloseData, HandlerReturns, reader
  <2>2. End' = IF dataErr THEN "err" ELSE "eof"
    <3>1. dataDone'
      BY <2>1, Zenon
    <3> QED BY <2>1, <3>1, Zenon DEF End
  <2>3. End' \in {"eof", "err"} /\ (End = "err" => End' = "err")
    BY <2>2, Zenon DEF End
  <2> QED BY <1>2, <1>2a, <1>3, <2>1, <2>3, Zenon DEF Pipe!Next, Pipe!End
<1>6. CASE FailBody
  <2>1. dataDone' = TRUE /\ dataErr' = TRUE /\ UNCHANGED result
    BY <1>6, Zenon DEF FailBody, reader
  <2>2. dataDone' /\ dataErr'
    BY <2>1, Zenon
  <2>3. End' = "err"
    BY <2>2, Zenon DEF End
  <2> QED BY <1>2, <1>2a, <1>3, <2>1, <2>3, Zenon DEF Pipe!Next, Pipe!End
<1>7. ASSUME NEW n \in Sizes, ReadEnd(n) PROVE Pipe!ReportEnd
  <2>1. /\ InRead(n) /\ qHead = Len(queue) /\ dataDone
        /\ result' = IF dataErr THEN "err" ELSE "eof"
        /\ UNCHANGED <<dataDone, dataErr>>
    BY <1>7, Zenon DEF ReadEnd
  <2>2. buf = <<>>
    BY <1>1, <2>1, Zenon DEF InRead, ReaderInv
  <2>3. Unread = <<>>
    <3>1. [i \in 1..(Len(queue) - qHead) |-> queue[qHead + i].data] = <<>>
      BY <1>1, <2>1 DEF BodyTypeOK
    <3>2. <<>> \o <<>> = <<>>
      OBVIOUS
    <3> QED BY <2>2, <3>1, <3>2, JoinedEmpty, Zenon DEF Unread
  <2>4. End = (IF dataErr THEN "err" ELSE "eof") /\ End' = End /\ End # "open"
    BY <2>1, Zenon DEF End
  <2>5. InUse
    BY <2>1, Zenon DEF InRead, InUse
  <2> QED BY <1>2, <1>2a, <1>3, <2>1, <2>3, <2>4, <2>5, Zenon DEF Pipe!ReportEnd
<1>8. HandlerReturns => dataDone' = TRUE \/ dataDone' = dataDone
  BY Zenon DEF HandlerReturns
<1> QED BY <1>4, <1>4a, <1>5, <1>6, <1>7, <1>8, Zenon DEF Control, Pipe!Next

(* Every step of the queue is a step of the pipe or leaves it alone. *)
LEMMA PipeStep ==
  ASSUME ~ReadsAfterClose, BodyInv, BodyInv', [BodyNext]_bodyVars
  PROVE  [Pipe!Next]_(Pipe!vars)
<1>1. BodyTypeOK /\ Held(Waiting, bp, free, late) /\ ReaderInv /\ LateInv
  BY Zenon DEF BodyInv
<1>2. /\ Waiting \in Seq(Slots) /\ bp \in Bufs \cup {NoBuf} /\ buf \in Seq(Nat)
      /\ queue \in Seq(Slots) /\ qHead \in 0..Len(queue) /\ pushed \in Nat
  BY <1>1, WaitingShape, Zenon DEF BodyTypeOK
<1>3. queue' \in Seq(Slots) /\ qHead' \in 0..Len(queue') /\ buf' \in Seq(Nat)
  BY Zenon DEF BodyInv, BodyTypeOK
<1>4. Unread = Bytes(Waiting, bp, buf) /\ Unread' = Bytes(Waiting', bp', buf')
  <2>1. Unread = Bytes(Waiting, bp, buf)
    BY <1>2, UnreadIs, ZenonT(30) DEF Unread, Waiting
  <2>2. Unread' = Bytes(Waiting', bp', buf')
    <3> DEFINE q == queue'
               h == qHead'
               p == bp'
               u == buf'
    <3>1. q \in Seq(Slots) /\ h \in 0..Len(q)
      BY <1>3, Zenon
    <3> HIDE DEF q, h, p, u
    <3>2. (IF p = NoBuf THEN <<>> ELSE u)
              \o Joined([i \in 1..(Len(q) - h) |-> q[h + i].data])
            = Bytes(Rest(q, h), p, u)
      BY <3>1, UnreadIs, Zenon
    <3> QED BY <3>2, Zenon DEF Unread, Waiting, q, h, p, u
  <2> QED BY <2>1, <2>2, Zenon
<1>5. ASSUME NEW n \in Nat \ {0}, PushData(n) PROVE Pipe!Push
  <2> DEFINE d == [i \in 1..n |-> pushed + i]
  <2>1. PICK b \in Bufs : Waiting' = Append(Waiting, Chunk(b, d))
    BY <1>1, <1>5, PushEffect, Zenon
  <2>2. d \in Seq(Nat)
    BY <1>1, <1>5, PushEffect, Zenon
  <2> HIDE DEF d
  <2>3. Chunk(b, d) \in Slots /\ Chunk(b, d).data = d
    BY <2>2, Zenon DEF Chunk, Slots
  <2>4. Bytes(Append(Waiting, Chunk(b, d)), bp, buf) = Bytes(Waiting, bp, buf) \o d
    <3> DEFINE c == Chunk(b, d)
    <3>1. c \in Slots /\ c.data = d
      BY <2>3, Zenon
    <3> HIDE DEF c
    <3>2. Bytes(Append(Waiting, c), bp, buf) = Bytes(Waiting, bp, buf) \o c.data
      BY <1>2, <3>1, BytesPush, Zenon
    <3> QED BY <3>1, <3>2, Zenon DEF c
  <2>5. /\ pushed + n <= MaxBytes /\ pushed' = pushed + n
        /\ UNCHANGED <<bp, buf, out, result, dataDone, dataErr, pc>>
    BY <1>5, Zenon DEF PushData, body, reader
  <2>6. n \in 1..(MaxBytes - pushed)
    BY <1>2, <2>5, BoundAssumption
  <2>7. Unread' = Unread \o d
    BY <1>4, <2>1, <2>4, <2>5, Zenon
  <2>8. End' = End /\ InUse' = InUse
    BY <2>5, Zenon DEF End, InUse
  <2> QED BY <2>5, <2>6, <2>7, <2>8, Zenon DEF Pipe!Push, d
<1>6. ASSUME NEW n \in Nat \ {0}, ReadBuffered(n) PROVE Pipe!Deliver
  <2>1. /\ CopyOut(n, bp, buf) /\ buf # <<>> /\ pc = "idle" /\ MayRead
        /\ UNCHANGED <<queue, qHead, dataDone, dataErr, pushed, pc>>
    BY <1>6, Zenon DEF ReadBuffered
  <2>1a. InUse /\ InUse'
    BY <2>1, Zenon DEF InUse
  <2>2. bp # NoBuf
    <3>1. InUse /\ ~closed
      BY <2>1, <2>1a, Zenon DEF MayRead
    <3> QED BY <1>1, <2>1, <3>1, Zenon DEF ReaderInv
  <2>3. /\ (bp' = NoBuf /\ buf' = <<>>) \/ bp' = bp
        /\ result' = "data"
        /\ \E k \in 1..Len(buf) : /\ out' = out \o SubSeq(buf, 1, k)
                                  /\ buf' = SubSeq(buf, k + 1, Len(buf))
    BY <1>1, <1>2, <2>1, Copied, Zenon
  <2>4. PICK k \in 1..Len(buf) : /\ out' = out \o SubSeq(buf, 1, k)
                                 /\ buf' = SubSeq(buf, k + 1, Len(buf))
    BY <2>3, Zenon
  <2> DEFINE j == Joined(Datas(Waiting))
  <2>5. j \in Seq(Nat) /\ Unread = buf \o j
    BY <1>2, <1>4, <2>2, BytesType, Zenon
  <2>6. Waiting' = Waiting /\ (bp' # NoBuf \/ buf' = <<>>)
    BY <2>1, <2>2, <2>3, Zenon DEF Waiting
  <2>7. Bytes(Waiting, bp', buf') = buf' \o j
    BY <1>2, <1>3, <2>6, BytesType, Zenon
  <2>8. Unread' = SubSeq(buf, k + 1, Len(buf)) \o j
    BY <1>4, <2>4, <2>6, <2>7, Zenon
  <2>9. End' = End
    BY <2>1, Zenon DEF End
  <2> HIDE DEF j
  <2> QED BY <1>2, <2>1, <2>1a, <2>3, <2>4, <2>5, <2>8, <2>9, Delivers, Zenon
<1>7. ASSUME NEW n \in Nat \ {0}, ReadChunk(n) PROVE Pipe!Deliver
  <2> DEFINE c == Waiting[1]
  <2>1. Waiting # <<>> /\ c = queue[qHead + 1] /\ Waiting' = Tail(Waiting)
    BY <1>1, <1>7, TakeEffect, Zenon
  <2>2. 1 \in 1..Len(Waiting) /\ c \in Slots /\ Tail(Waiting) \in Seq(Slots)
    BY <1>2, <2>1
  <2>3. c.bp \in Bufs /\ c.data # <<>>
    BY <1>1, <2>2, Zenon DEF Held
  <2>4. c.data \in Seq(Nat)
    BY <2>2, Zenon DEF Slots
  <2>5. CopyOut(n, c.bp, c.data) /\ UNCHANGED <<dataDone, dataErr, pushed>> /\ InRead(n)
    BY <1>7, <2>1, Zenon DEF ReadChunk
  <2>5a. InUse /\ InUse'
    BY <1>7, Zenon DEF ReadChunk, InRead, InUse
  <2> DEFINE d == c.data
             j == Joined(Datas(Tail(Waiting)))
  <2>6. bp = NoBuf
    BY <1>1, <2>5, Zenon DEF ReaderInv, InRead
  <2>7. Unread = d \o j
    BY <1>2, <1>4, <2>1, <2>6, BytesType, BytesTake, ZenonT(30)
  <2>8. /\ (bp' = NoBuf /\ buf' = <<>>) \/ bp' = c.bp
        /\ result' = "data"
        /\ \E k \in 1..Len(d) : /\ out' = out \o SubSeq(d, 1, k)
                                /\ buf' = SubSeq(d, k + 1, Len(d))
    BY <1>1, <2>3, <2>4, <2>5, Copied, Zenon
  <2>9. PICK k \in 1..Len(d) : /\ out' = out \o SubSeq(d, 1, k)
                               /\ buf' = SubSeq(d, k + 1, Len(d))
    BY <2>8, Zenon
  <2>10. bp' # NoBuf \/ buf' = <<>>
    BY <2>3, <2>8, BufAssumption, Zenon
  <2>11. j \in Seq(Nat) /\ Bytes(Tail(Waiting), bp', buf') = buf' \o j
    BY <1>3, <2>2, <2>10, BytesType, Zenon
  <2>12. Unread' = SubSeq(d, k + 1, Len(d)) \o j
    BY <1>4, <2>1, <2>9, <2>11, Zenon
  <2>13. End' = End
    BY <2>5, Zenon DEF End
  <2>14. d \in Seq(Nat)
    BY <2>4, Zenon
  <2> HIDE DEF d, j, c
  <2> QED BY <2>5, <2>5a, <2>7, <2>8, <2>9, <2>11, <2>12, <2>13, <2>14, Delivers, Zenon
<1>8. ASSUME queue' = <<>>, qHead' = 0, bp' = NoBuf PROVE Unread' = <<>>
  <2>1. Waiting' = <<>>
    BY <1>1, <1>8, DropEffect, Zenon
  <2>2. <<>> \in Seq(Slots) /\ Datas(<<>>) = <<>>
    BY DEF Datas
  <2>3. Bytes(<<>>, NoBuf, buf') = Joined(Datas(<<>>))
    BY <1>3, <2>2, BytesType, Zenon
  <2> QED BY <1>4, <1>8, <2>1, <2>2, <2>3, JoinedEmpty, Zenon
<1>9. CASE Close
  <2>1. /\ queue' = <<>> /\ qHead' = 0 /\ bp' = NoBuf
        /\ UNCHANGED <<pushed, out, result, dataDone, dataErr, pc>>
    BY <1>9, Zenon DEF Close
  <2>2. End' = End /\ InUse' = InUse
    BY <2>1, Zenon DEF End, InUse
  <2> QED BY <1>8, <2>1, <2>2, Zenon DEF Pipe!Next, Pipe!Discard
<1>10. CASE DrainBody
  <2>1. /\ queue' = <<>> /\ qHead' = 0 /\ bp' = NoBuf
        /\ pc = "removed" /\ pc' = "drained"
        /\ UNCHANGED <<pushed, out, result, dataDone, dataErr>>
    BY <1>10, Zenon DEF DrainBody
  <2>2. End' = End
    BY <2>1, Zenon DEF End
  <2>3. InUse /\ ~InUse'
    BY <2>1, Zenon DEF InUse
  <2>4. InUse' = FALSE
    BY <2>3, Zenon DEF InUse
  <2> QED BY <1>8, <2>1, <2>2, <2>3, <2>4, Zenon DEF Pipe!Next, Pipe!Recycle
<1>11. CASE ReleaseBody
  <2>1. /\ queue' = <<>> \/ queue' = queue
        /\ pc = "drained" /\ pc' = "released" /\ dataErr' = FALSE
        /\ UNCHANGED <<qHead, bp, buf, pushed, out, result, dataDone>>
    BY <1>11, Zenon DEF ReleaseBody, body
  <2>2. ~InUse /\ ~InUse'
    BY <2>1, Zenon DEF InUse
  <2>3. InUse' = InUse
    BY <2>2, Zenon DEF InUse
  <2>4. bp = NoBuf /\ qHead = 0
    BY <1>1, <2>2, Zenon DEF LateInv
  <2>5. Unread' = <<>> \/ Unread' = Unread
    <3>1. CASE queue' = <<>>
      BY <1>8, <2>1, <2>4, <3>1, Zenon
    <3>2. CASE queue' = queue
      BY <2>1, <3>2, Zenon DEF Unread
    <3> QED BY <2>1, <3>1, <3>2, Zenon
  <2>6. ~dataErr'
    BY <2>1, Zenon
  <2>7. End' = IF End = "err" THEN "eof" ELSE End
    BY <2>1, <2>6, Zenon DEF End
  <2> QED BY <2>1, <2>2, <2>3, <2>5, <2>7, Zenon DEF Pipe!Next, Pipe!Scrub
<1>12. CASE AcquireBody
  <2>1. /\ queue' = <<>> /\ qHead' = 0 /\ bp' = NoBuf /\ dataDone' = FALSE
        /\ pc = "released" /\ pc' = "idle"
        /\ pushed' = 0 /\ out' = <<>> /\ result' = "none"
    BY <1>12, Zenon DEF AcquireBody, ResetUse
  <2>2. ~InUse /\ InUse'
    BY <2>1, Zenon DEF InUse
  <2>3. InUse' = TRUE
    BY <2>2, Zenon
  <2>4. ~dataDone'
    BY <2>1, Zenon
  <2>5. End' = "open"
    BY <2>4, Zenon DEF End
  <2>6. Unread' = <<>>
    BY <1>8, <2>1, Zenon
  <2> QED BY <2>1, <2>2, <2>3, <2>5, <2>6, Zenon DEF Pipe!Next, Pipe!Reuse, Pipe!Init
<1>13. CASE UNCHANGED bodyVars
  <2>1. Unread' = Unread /\ End' = End /\ UNCHANGED <<pushed, out, result>>
    BY <1>13, Zenon DEF bodyVars, body, reader, Unread, End
  <2>2. InUse' = InUse
    BY <1>13, Zenon DEF bodyVars, reader, InUse
  <2> QED BY <2>1, <2>2, Zenon DEF Pipe!vars
<1>14. CASE Control
  BY <1>14, ControlPipe, Zenon
<1> QED BY <1>5, <1>6, <1>7, <1>9, <1>10, <1>11, <1>12, <1>13, <1>14, BodySteps,
           Zenon DEF Pipe!Next

(* The bytes of a body reach its reader in order and without gaps, and its  *)
(* end or its error is reported after the last of them, whatever the sizes  *)
(* of the frames and of the reads, and nothing of one use of the stream     *)
(* shows in the next: the queue of PushData, Read, Close, Release and       *)
(* Acquire implements BodyPipe, if nobody reads a body after closing it.    *)
THEOREM BodyIsPipe ==
  ASSUME ~ReadsAfterClose
  PROVE  BodySpec => BodyInOrder
<1>1. BodyInit => Pipe!Init
  <2> SUFFICES ASSUME BodyInit PROVE Pipe!Init
    BY Zenon
  <2>1. [i \in 1..(Len(queue) - qHead) |-> queue[qHead + i].data] = <<>>
    BY DEF BodyInit
  <2>2. <<>> \o <<>> = <<>>
    OBVIOUS
  <2>3. Unread = <<>>
    BY <2>1, <2>2, JoinedEmpty, Zenon DEF BodyInit, Unread
  <2>4. End = "open"
    BY Zenon DEF BodyInit, End
  <2>5. InUse
    BY Zenon DEF BodyInit, InUse
  <2>6. InUse = TRUE
    BY <2>5, Zenon
  <2> QED BY <2>3, <2>4, <2>6, Zenon DEF BodyInit, Pipe!Init
<1>2. BodyInv /\ BodyInv' /\ [BodyNext]_bodyVars => [Pipe!Next]_(Pipe!vars)
  BY PipeStep, Zenon
<1> QED BY <1>1, <1>2, BodyInductive, PTL DEF BodySpec, BodyInOrder, Pipe!Spec

=============================================================================
