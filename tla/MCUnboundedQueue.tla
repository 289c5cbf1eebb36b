-------------------------- MODULE MCUnboundedQueue --------------------------
(* Instances of UnboundedQueue for TLC.                                    *)
EXTENDS UnboundedQueueImpl, TLC
=============================================================================
