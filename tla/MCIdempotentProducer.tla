------------------------ MODULE MCIdempotentProducer ------------------------
(* Model-checking instances of IdempotentProducer.                         *)
EXTENDS IdempotentProducer

(* The brokers are interchangeable: any of them may be the first leader.   *)
MCInit == Init /\ leader = (CHOOSE b \in Brokers : TRUE)
MCSpec == MCInit /\ [][Next]_vars

(* Three messages and faults under one leader; and two of each, changes of *)
(* leader and drains that other partitions start among the faults.         *)
SteadyFaults == [msgs |-> 3, budget |-> 3, elections |-> FALSE, drains |-> FALSE]
LeaderFaults == [msgs |-> 2, budget |-> 2, elections |-> TRUE, drains |-> TRUE]
MCFaults == {SteadyFaults, LeaderFaults}
DrainFaults == {[msgs |-> 3, budget |-> 2, elections |-> FALSE, drains |-> TRUE]}
=============================================================================
