--------------------------- MODULE MCRedisWorker ---------------------------
(* Three calls; the first two write the same record. *)
EXTENDS RedisWorker

CONSTANTS c1, c2, c3, i1, i2

MCCalls == {c1, c2, c3}
MCIds == {i1, i2}
MCIdOf == [c \in MCCalls |-> IF c = c3 THEN i2 ELSE i1]
=============================================================================
