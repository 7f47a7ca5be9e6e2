--------------------------- MODULE MCChunkTransfer ---------------------------
EXTENDS ChunkTransfer, TLC

CONSTANTS s1, s2, w1, w2

TwoSources == {s1, s2}
TwoWorkers == {w1, w2}

EqualReplicas == {[s \in Sources |-> n] : n \in {2, 5}}
ShortReplica == {[s \in Sources |-> IF s = s1 THEN 2 ELSE 3]}

Symmetric == Permutations(Sources) \cup Permutations(Workers)
=============================================================================
