----------------------------- MODULE MCSocketLoop -----------------------------
(* Instances of SocketLoop for TLC.                                        *)
EXTENDS SocketLoopImpl, SocketLoopProofs, TLC

Symmetry == Permutations(Sockets) \cup Permutations(Contexts)

\* A readable, a writable, a hung-up and a failed socket.
AllEvents == {{"R"}, {"W"}, {"R", "H"}, {"E"}}
ReadOnly  == {{"R"}}
ReadWrite == {{"R"}, {"W"}}
=============================================================================
