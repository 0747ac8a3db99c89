--------------------------- MODULE MCRedisClient ---------------------------
(* Small instances of RedisClient.                                         *)
EXTENDS RedisClient, TLC

Symmetry == Permutations(Clients) \cup Permutations(Conns)

=============================================================================
