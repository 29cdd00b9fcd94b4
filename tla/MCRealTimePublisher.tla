------------------------- MODULE MCRealTimePublisher ------------------------
(* Small instances of RealTimePublisher for TLC. *)
EXTENDS RealTimePublisher

AllTryLock == [p \in Producers |-> "trylock"]

\* One producer of each documented kind.
Mixed == CHOOSE d \in [Producers -> Disciplines] :
            \A how \in Disciplines : \E p \in Producers : d[p] = how
=============================================================================
