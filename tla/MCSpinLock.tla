----------------------------- MODULE MCSpinLock -----------------------------
\* SpinLock with three threads, one raw lock and five tickets, so that the
\* ticket counters wrap around.
EXTENDS SpinLock

CONSTANTS t1, t2, t3, pipe

MCThreads == {t1, t2, t3}
MCRawLocks == {pipe}
=============================================================================
