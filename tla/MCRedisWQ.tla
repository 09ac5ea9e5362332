------------------------------ MODULE MCRedisWQ ------------------------------
(* Instances of RedisWQ for TLC.                                            *)
EXTENDS RedisWQ, TLC

CONSTANTS w1, w2, w3, j1

ThreeWorkers == {w1, w2, w3}
FirstTwo     == {w1, w2}
NoWorker     == {}
OneJob       == {j1}

\* Workers are alike when none is Mortal; sound for safety properties.
WorkerSymmetry == Permutations(ThreeWorkers)
==============================================================================
