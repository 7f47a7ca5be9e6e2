-------------------------- MODULE MCChunkScheduler --------------------------
(* Instances of ChunkScheduler for TLC. *)
EXTENDS ChunkScheduler, TLC

CONSTANTS w1, w2, w3, a, b

OneWorker == {w1}
TwoWorkers == {w1, w2}
ThreeWorkers == {w1, w2, w3}
OneSource == {a}
TwoSources == {a, b}

\* Workers and sources are interchangeable; for runs without liveness only.
Symmetry == Permutations(Worker) \cup Permutations(Source)
=============================================================================
