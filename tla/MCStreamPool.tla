---------------------------- MODULE MCStreamPool ----------------------------
(* Instances of StreamPool for TLC. *)
EXTENDS StreamPool, TLC

MC_Spread == CHOOSE f \in [Ids -> Conns] :
                 \A c \in Conns : \E i \in Ids : f[i] = c

MC_Symmetry == Permutations(Objs) \cup Permutations(Ids)

=============================================================================
