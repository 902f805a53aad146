---------------------------- MODULE MCWorkerPool ----------------------------
(* WorkerPool for TLC: three calls share two workers. *)
EXTENDS WorkerPool, TLC

CONSTANTS c1, c2, c3, w1, w2

MCCalls == {c1, c2, c3}
MCTwoCalls == {c1, c2}
MCWorkers == {w1, w2}

(* No address, one per worker, or one that resolves to both. *)
MCConfigs == {<<>>, <<{w1}, {w2}>>, <<{w1, w2}>>}

MCSymmetry == Permutations(MCCalls)
=============================================================================
