---------------------------- MODULE MCFcgiGateway ----------------------------
\* TLC instances of FcgiGateway.
EXTENDS FcgiGateway, TLC

ThreadSymmetry == Permutations(Threads)
===============================================================================
