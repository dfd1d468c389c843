---------------------------- MODULE MCScheduler ----------------------------
EXTENDS Scheduler

ThreadSymmetry == Permutations(Threads)
=============================================================================
