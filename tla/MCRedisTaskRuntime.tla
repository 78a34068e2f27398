-------------------------- MODULE MCRedisTaskRuntime --------------------------
(* Instances of RedisTaskRuntime for TLC.                                   *)
EXTENDS RedisTaskRuntime, TLC

CONSTANTS t1, k1

SharedKey == [t \in Tasks |-> IF t = t1 THEN None ELSE k1]
NoKey     == [t \in Tasks |-> None]
OnePrio   == [t \in Tasks |-> 2]

TaskSymmetry     == Permutations(Tasks)
SharedSymmetry   == Permutations(Tasks \ {t1})
WorkerSymmetry   == Permutations(Workers)
=============================================================================
