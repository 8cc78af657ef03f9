---------------------------- MODULE MCWorkerState ----------------------------
EXTENDS WorkerState, TLC

CONSTANTS first, second

MCCalls == {first, second}

MCMayRaise == {first}
=============================================================================
