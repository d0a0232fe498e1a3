------------------------------ MODULE MCWriter ------------------------------
(* Instances of Writer for TLC. *)
EXTENDS Writer

(* One handler on each connection when there are two; both on one otherwise. *)
MC_Spread == CHOOSE f \in [Handlers -> Conns] :
                 \A c \in Conns : \E h \in Handlers : f[h] = c

=============================================================================
