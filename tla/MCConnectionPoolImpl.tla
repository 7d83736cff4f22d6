------------------------ MODULE MCConnectionPoolImpl ------------------------
\* Instances of ConnectionPoolImpl for TLC.
EXTENDS PoolRefinement, TLC

\* Threads are interchangeable, and no liveness property is checked here.
ThreadSymmetry == Permutations(Threads)
=============================================================================
