---------------------------- MODULE MCScheduler -----------------------------
\* init and two more threads, one semaphore with one permit.
EXTENDS Scheduler

CONSTANTS init, t1, t2, s

MCThreads == {init, t1, t2}
MCSems == {s}
=============================================================================
