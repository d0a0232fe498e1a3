----------------------------- MODULE StreamPool -----------------------------
(***************************************************************************)
(* The life of pooled Stream objects on the worker: Acquire and Release    *)
(* (internal/h2/stream.go), the stream registry of a connection and the    *)
(* frame handlers that look a stream up and then act on it                 *)
(* (internal/h2/conn.go), dispatchInboundHeaders and serveStream's cleanup.*)
(*                                                                         *)
(* streamPool is global to the process, so connections share it.  A frame  *)
(* handler is two actions, the registry lookup under streamsMu and the use *)
(* of the object afterwards.  What a use does to the object is recorded in *)
(* effects, tagged with the stream the frame was for.                      *)
(***************************************************************************)
EXTENDS Naturals, FiniteSets

CONSTANTS
    Conns,      \* connections; each has one frame reader
    Ids,        \* streams the peers open, each once
    IdConn,     \* the connection of each stream
    Objs,       \* Stream objects
    Nil

ASSUME IdAssumption == IdConn \in [Ids -> Conns]
ASSUME NilAssumption == Nil \notin Objs \cup Ids

VARIABLES
    pool,      \* objects in streamPool
    streams,   \* Conn.streams of the stream's connection: its object or Nil
    ID,        \* the stream an object was acquired for
    effects,   \* per object: what was applied to it since it was acquired
    held,      \* per connection: objects the frame reader is about to use,
               \* with what it will do to each
    torndown,  \* per connection: the frame reader is gone
    handler,   \* per stream: its serveStream goroutine
    obj        \* the object that goroutine works with

vars == <<pool, streams, ID, effects, held, torndown, handler, obj>>

Registered(c) == {i \in Ids : IdConn[i] = c /\ streams[i] # Nil}

Reading_always(c) == held[c] = {}  \* mutant: frames after the teardown

Reading(c) == ~torndown[c] /\ held[c] = {}

Init ==
    /\ pool = Objs
    /\ streams = [i \in Ids |-> Nil]
    /\ ID = [o \in Objs |-> Nil]
    /\ effects = [o \in Objs |-> {}]
    /\ held = [c \in Conns |-> {}]
    /\ torndown = [c \in Conns |-> FALSE]
    /\ handler = [i \in Ids |-> "none"]
    /\ obj = [i \in Ids |-> Nil]

-----------------------------------------------------------------------------
(* The frame reader of connection c. *)

(* Mutant: a recycled object keeps what was applied to it. *)
Acquired_stale(o, i, endStream) ==
    effects[o] \cup (IF endStream THEN {<<i, "end">>} ELSE {})

(* Acquire resets the object; END_STREAM on HEADERS closes the body.        *)
Acquired(o, i, endStream) == IF endStream THEN {<<i, "end">>} ELSE {}

(* HEADERS: Acquire, AddStream, and the stream's goroutine starts.          *)
DispatchInboundHeaders(i) ==
    /\ Reading(IdConn[i])
    /\ handler[i] = "none"
    /\ \E o \in pool, endStream \in BOOLEAN :
          /\ pool' = pool \ {o}
          /\ ID' = [ID EXCEPT ![o] = i]
          /\ effects' = [effects EXCEPT ![o] = Acquired(o, i, endStream)]
          /\ streams' = [streams EXCEPT ![i] = o]
          /\ obj' = [obj EXCEPT ![i] = o]
    /\ handler' = [handler EXCEPT ![i] = "running"]
    /\ UNCHANGED <<held, torndown>>

(* DATA, RST_STREAM or WINDOW_UPDATE on a stream: GetStream ...             *)
GetStream(i, kind) ==
    /\ Reading(IdConn[i])
    /\ streams[i] # Nil
    /\ held' = [held EXCEPT ![IdConn[i]] = {<<streams[i], i, kind>>}]
    /\ UNCHANGED <<pool, streams, ID, effects, torndown, handler, obj>>

(* ... and SETTINGS with a new initial window: activeStreamWindows ...      *)
ActiveStreamWindows(c) ==
    /\ Reading(c)
    /\ Registered(c) # {}
    /\ held' = [held EXCEPT ![c] = {<<streams[i], i, "credit">> : i \in Registered(c)}]
    /\ UNCHANGED <<pool, streams, ID, effects, torndown, handler, obj>>

(* ... and, with streamsMu released, PushData, CloseData, FailBody or a     *)
(* change of SendWindow on what was found.                                  *)
UseStreams(c) ==
    /\ held[c] # {}
    /\ effects' = [o \in Objs |-> effects[o] \cup
                      {<<h[2], h[3]>> : h \in {k \in held[c] : k[1] = o}}]
    /\ held' = [held EXCEPT ![c] = {}]
    /\ UNCHANGED <<pool, streams, ID, torndown, handler, obj>>

(* Teardown: FailAllStreams works with streamsMu held.                      *)
FailAllStreams(c) ==
    /\ Reading(c)
    /\ effects' = [o \in Objs |-> effects[o] \cup
                      {<<i, "fail">> : i \in {j \in Registered(c) : streams[j] = o}}]
    /\ torndown' = [torndown EXCEPT ![c] = TRUE]
    /\ UNCHANGED <<pool, streams, ID, held, handler, obj>>

-----------------------------------------------------------------------------
(* serveStream after the handler has returned. *)

RemoveStream(i) ==
    /\ handler[i] = "running"
    /\ streams' = [streams EXCEPT ![i] = Nil]
    /\ handler' = [handler EXCEPT ![i] = "removed"]
    /\ UNCHANGED <<pool, ID, effects, held, torndown, obj>>

(* Mutant: released while still registered. *)
Release_early(i) ==
    /\ handler[i] = "running"
    /\ pool' = pool \cup {obj[i]}
    /\ effects' = [effects EXCEPT ![obj[i]] = {}]
    /\ obj' = [obj EXCEPT ![i] = Nil]
    /\ handler' = [handler EXCEPT ![i] = "done"]
    /\ UNCHANGED <<streams, ID, held, torndown>>

Release(i) ==
    /\ handler[i] = "removed"
    /\ pool' = pool \cup {obj[i]}
    /\ effects' = [effects EXCEPT ![obj[i]] = {}]
    /\ obj' = [obj EXCEPT ![i] = Nil]
    /\ handler' = [handler EXCEPT ![i] = "done"]
    /\ UNCHANGED <<streams, ID, held, torndown>>

-----------------------------------------------------------------------------
Next ==
    \/ \E i \in Ids : \/ DispatchInboundHeaders(i)
                      \/ \E kind \in {"data", "end", "fail", "credit"} :
                            GetStream(i, kind)
                      \/ RemoveStream(i)
                      \/ Release(i)
    \/ \E c \in Conns : \/ ActiveStreamWindows(c)
                        \/ UseStreams(c)
                        \/ FailAllStreams(c)

Spec == Init /\ [][Next]_vars

-----------------------------------------------------------------------------
TypeOK ==
    /\ pool \in SUBSET Objs
    /\ streams \in [Ids -> Objs \cup {Nil}]
    /\ ID \in [Objs -> Ids \cup {Nil}]
    /\ effects \in [Objs -> SUBSET (Ids \X {"data", "end", "fail", "credit"})]
    /\ held \in [Conns -> SUBSET (Objs \X Ids \X {"data", "end", "fail", "credit"})]
    /\ torndown \in [Conns -> BOOLEAN]
    /\ handler \in [Ids -> {"none", "running", "removed", "done"}]
    /\ obj \in [Ids -> Objs \cup {Nil}]

(* The registry never leads to an object that was released or recycled: an  *)
(* entry's object is the one its stream acquired, and it is not pooled.     *)
RegistryLive ==
    \A i \in Ids : streams[i] # Nil =>
        /\ streams[i] \notin pool
        /\ ID[streams[i]] = i
        /\ obj[i] = streams[i]

(* Two requests never share a Stream object. *)
ObjectsExclusive ==
    \A i, j \in Ids : obj[i] # Nil /\ obj[i] = obj[j] => i = j

(* Body bytes, ends, failures and window changes reach a request only from  *)
(* frames of its own stream, although a frame handler uses the object after *)
(* the registry lock is released.                                           *)
OnlyOwnFrames ==
    \A i \in Ids : handler[i] = "running" =>
        \A e \in effects[obj[i]] : e[1] = i

(* A torn-down connection leaves no registered stream that was not told.    *)
TeardownReachesAll ==
    \A c \in Conns : torndown[c] =>
        \A i \in Registered(c) : <<i, "fail">> \in effects[streams[i]]

=============================================================================
