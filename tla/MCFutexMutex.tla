---------------------------- MODULE MCFutexMutex ----------------------------
(* Instance of FutexMutex for TLC.                                         *)
EXTENDS FutexMutex
=============================================================================
