---- MODULE MCWorkerPool ----
EXTENDS WorkerPool, TLC

WorkerSymmetry == Permutations(Workers)
====
