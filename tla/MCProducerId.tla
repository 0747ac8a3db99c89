---------------------------- MODULE MCProducerId ----------------------------
(* Model-checking values for ProducerId.                                   *)
EXTENDS ProducerId, TLC

Symmetry ==
    Permutations(Slots) \cup Permutations(Partitions) 
    \cup Permutations(Brokers)

=============================================================================
