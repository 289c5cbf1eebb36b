------------------------- MODULE UnboundedQueueImpl -------------------------
(* The unbounded queue implements the channel: its line is the items in the *)
(* order of the swaps.                                                      *)
EXTENDS UnboundedQueue

Unlinked == {pushing[t].batch[1] : t \in {u \in Threads : Swapped(u)}}

Channel == INSTANCE TaskChannel WITH line <- order, unlinked <- Unlinked

\* Items leave in the order in which they were swapped in, only those that can
\* be reached leave, and none is lost or seen twice.
ImplementsChannel == Channel!Spec
=============================================================================
