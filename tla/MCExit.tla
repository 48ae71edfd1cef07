------------------------------- MODULE MCExit -------------------------------
\* init and three processes that wait for each other; no semaphores.
EXTENDS Scheduler

CONSTANTS init, t1, t2, t3

MCThreads == {init, t1, t2, t3}
=============================================================================
