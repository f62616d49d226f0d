----------------------- MODULE MCExecutorCoordinator -----------------------
(* Small instances of ExecutorCoordinator.                                 *)
EXTENDS ExecutorCoordinator, TLC

Interchangeable == Permutations(Requests) \cup Permutations(Operations)
                     \cup Permutations(Invokes) \cup Permutations(FrameIds)
============================================================================
