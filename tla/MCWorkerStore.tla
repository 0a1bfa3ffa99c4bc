--------------------------- MODULE MCWorkerStore ---------------------------
\* WorkerStore instantiated for TLC.
EXTENDS WorkerStore, TLC

\* The store compares run identities only for equality.
RunSymmetry == Permutations(Runs)
=============================================================================
