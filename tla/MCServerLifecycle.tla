-------------------------- MODULE MCServerLifecycle --------------------------
\* TLC instance of ServerLifecycle.
EXTENDS ServerLifecycle, TLC

WorkerSymmetry == Permutations(Workers)
===============================================================================
