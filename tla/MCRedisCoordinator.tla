------------------------ MODULE MCRedisCoordinator ------------------------
(* RedisCoordinator on small sets: workers are interchangeable.            *)
EXTENDS RedisCoordinator, TLC

WorkerSymmetry == Permutations(Worker)
=============================================================================
