----------------------- MODULE MCInMemoryCoordinator -----------------------
(* InMemoryCoordinator on small sets: workers are interchangeable.         *)
EXTENDS InMemoryCoordinator, TLC

WorkerSymmetry == Permutations(Worker)
=============================================================================
